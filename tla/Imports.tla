--------------------------------- MODULE Imports ---------------------------------
(***************************************************************************)
(* Which files are indexed, the module a file belongs to, and where an     *)
(* import leads: to an indexed file, to a file that the index does not     *)
(* hold, or nowhere.  A file has its path in segments, the last one        *)
(* without its extension, and its rank among the paths; a candidate is a   *)
(* path and an extension, or "" for none.  A target is a set with one file *)
(* or none.  An import has its specifier in segments: split at "/", and    *)
(* for Python at the dots behind the leading ones, for Rust at "::" up to  *)
(* a group or glob.                                                        *)
(***************************************************************************)
EXTENDS Naturals, Sequences, FiniteSets, SequencesExt, FiniteSetsExt

CONSTANTS
  MODULE_CONTAINERS,       \* "src", "app", "packages" ...
  ExcludedComponents,      \* "node_modules", "target" ...
  normalize_module_name,   \* name -> the name without punctuation around it
  RootModule               \* "root"

Path(path, ext) == [path |-> path, ext |-> ext]
rel_parent(path) == IF path = <<>> THEN <<>> ELSE Front(path)
ascend(dir, n) == SubSeq(dir, 1, IF n <= Len(dir) THEN Len(dir) - n ELSE 0)
normalize_rel(path) ==
  FoldLeft(LAMBDA out, s : CASE s \in {"", "."} -> out
                             [] s = ".." -> rel_parent(out)
                             [] OTHER -> Append(out, s), <<>>, path)

--------------------------------------------------------------------------------

\* The languages with the extensions of each.
SOURCE_EXTENSIONS ==
  [JavaScript |-> {"js", "jsx", "mjs", "cjs"}, TypeScript |-> {"ts", "tsx", "mts", "cts", "d.ts", "d.mts", "d.cts"},
   Python |-> {"py", "pyi"}, Rust |-> {"rs"}, Go |-> {"go"},
   Cpp |-> {"cpp", "cc", "cxx", "c++", "hpp", "hh", "hxx", "h++", "h", "c", "cu", "cuh"}]
language_for_path(f) == {l \in DOMAIN SOURCE_EXTENSIONS : f.ext \in SOURCE_EXTENSIONS[l]}

is_excluded_component(name) == name \in ExcludedComponents
should_skip_path(dir) == \E i \in DOMAIN dir : is_excluded_component(dir[i])

(* tree: [files, ignored, generated, large], each but the first a part of   *)
(* the first.  settings: [include, exclude, languages, index_generated],    *)
(* include and exclude sets of files, where nothing included is everything. *)
discover_source_files(tree, settings) ==
  {f \in tree.files :
     /\ ~should_skip_path(rel_parent(f.path))
     /\ f \notin tree.ignored \/ f \in settings.include
     /\ settings.include # {} => f \in settings.include
     /\ f \notin settings.exclude
     /\ language_for_path(f) \cap settings.languages # {}
     /\ f \notin tree.large
     /\ settings.index_generated \/ f \notin tree.generated}

\* The part of a directory that names the module of the files in it.
Start(dir) == IF dir # <<>> /\ dir[1] \in MODULE_CONTAINERS /\ Len(dir) > 1 THEN 1 ELSE 0
infer_module_prefix(dir, depth) == SubSeq(dir, 1, Min({Start(dir) + Max({depth, 1}), Len(dir)}))
auto_module_segments(dir, depth) == LET to == infer_module_prefix(dir, depth) IN SubSeq(to, Start(dir) + 1, Len(to))

\* The automatic strategy; a name is the sequence of its segments.
infer_module_name(dir, depth) ==
  LET segments == auto_module_segments(dir, depth)
  IN IF segments = <<>> THEN <<RootModule>> ELSE [i \in DOMAIN segments |-> normalize_module_name[segments[i]]]

\* Is there a source file at most so many directories below this one?
contains_source(tree, dir, depth) ==
  \E f \in tree.files :
    LET of == rel_parent(f.path)
    IN /\ language_for_path(f) # {} /\ IsPrefix(dir, of) /\ Len(of) - Len(dir) < depth
       /\ ~should_skip_path(SubSeq(of, Len(dir) + 1, Len(of)))

\* 2 when several directories of the root hold source and none is a container.
suggest_module_depth(tree, hidden) ==
  LET top == {f.path[1] : f \in {g \in tree.files : Len(g.path) > 1}}
      seen == {d \in top : d \notin hidden /\ ~is_excluded_component(d)}
  IN IF seen \cap MODULE_CONTAINERS = {} /\ Cardinality({d \in seen : contains_source(tree, <<d>>, 3)}) >= 2 THEN 2 ELSE 1

--------------------------------------------------------------------------------

\* The files that end in a candidate, and those in a directory that does.
path_suffix(files, c) == {f \in files : c.path # <<>> /\ f.ext = c.ext /\ IsSuffix(c.path, f.path)}
dir_suffix(files, dir) == {f \in files : IsSuffix(dir, rel_parent(f.path))}
Matching(candidates, files) == SelectSeq(candidates, LAMBDA c : path_suffix(files, c) # {})
Only(files) == IF Cardinality(files) = 1 THEN files ELSE {}

\* All candidates that are there have to be one file.
resolve_suffix_unique(candidates, files) == Only(UNION {path_suffix(files, c) : c \in Range(candidates)})

\* Faulty variant: an ambiguous candidate is passed over.
resolve_most_specific_passing_over(candidates, files) ==
  LET single == SelectSeq(candidates, LAMBDA c : Cardinality(path_suffix(files, c)) = 1)
  IN IF single = <<>> THEN {} ELSE path_suffix(files, single[1])

\* The first candidate that is there decides.
resolve_most_specific(candidates, files) ==
  LET there == Matching(candidates, files)
  IN IF there = <<>> THEN {} ELSE Only(path_suffix(files, there[1]))

\* A package is a directory; its first file stands for it.
resolve_go_package(candidates, files) ==
  LET in(dir) == {f \in dir_suffix(files, dir) : f.ext = "go"}
      one == SelectSeq(candidates, LAMBDA dir : Cardinality({rel_parent(f.path) : f \in in(dir)}) = 1)
  IN IF one = <<>> THEN {} ELSE {f \in in(one[1]) : \A g \in in(one[1]) : f.rank <= g.rank}

--------------------------------------------------------------------------------

\* One dot is the package of the file, each further one a package up.
python_import_candidates(source, dots, segments) ==
  LET base == (IF dots = 0 THEN <<>> ELSE ascend(rel_parent(source), dots - 1)) \o segments
  IN CASE base = <<>> /\ dots = 0 -> <<>>
       [] segments = <<>> -> <<Path(Append(base, "__init__"), "py")>>
       [] OTHER -> <<Path(base, "py"), Path(Append(base, "__init__"), "py"), Path(base, "pyi")>>

\* The segments that say where a path starts.
Anchors(segments) ==
  LET relative == Max({0} \cup {k \in DOMAIN segments : \A j \in 1 .. k : segments[j] \in {"self", "super"}})
  IN IF relative < Len(segments) /\ segments[relative + 1] = "crate" THEN relative + 1 ELSE relative

\* The last segment may be a module or an item of one; a path without an anchor is of another crate.
rust_import_candidates(source, segments) ==
  LET anchors == SubSeq(segments, 1, Anchors(segments))
      rest == SubSeq(segments, Anchors(segments) + 1, Len(segments))
      up == Len(SelectSeq(anchors, LAMBDA s : s = "super"))
      base == IF \E k \in DOMAIN anchors : anchors[k] # "crate" THEN ascend(rel_parent(source), up) ELSE <<>>
      of(kept) == IF kept = <<>> THEN <<>> ELSE <<Path(base \o kept, "rs"), Path(base \o kept \o <<"mod">>, "rs")>>
  IN IF anchors = <<>> \/ rest = <<>> THEN <<>> ELSE of(rest) \o of(Front(rest))

\* From the most specific file of a crate of the workspace up to its root.
resolve_rust_workspace_import(crates, segments, files) ==
  LET rest == SubSeq(segments, 2, Len(segments))
      of(src, kept) == IF kept = <<>> THEN <<Path(src \o <<"lib">>, "rs"), Path(src \o <<"main">>, "rs")>>
                       ELSE <<Path(src \o kept, "rs"), Path(src \o kept \o <<"mod">>, "rs")>>
      candidates(src) == FlattenSeq([k \in 1 .. Len(rest) + 1 |-> of(src, SubSeq(rest, 1, Len(rest) + 1 - k))])
      exact(c) == {f \in files : f.path = c.path /\ f.ext = c.ext}
      there(src) == SelectSeq(candidates(src), LAMBDA c : exact(c) # {})
  IN IF segments = <<>> \/ segments[1] \notin DOMAIN crates \/ there(crates[segments[1]]) = <<>> THEN {}
     ELSE exact(there(crates[segments[1]])[1])

cpp_import_candidates(source, segments, ext) ==
  LET here == rel_parent(source)
      from(dir) == Path(normalize_rel(dir \o segments), ext)
  IN IF segments = <<>> THEN <<>>
     ELSE <<from(<<>>)>> \o (IF here = <<>> THEN <<>> ELSE <<from(here)>>)

go_import_candidates(specifier) ==
  LET segments == SelectSeq(specifier, LAMBDA s : s # "")
  IN IF Len(specifier) < 2 THEN <<>> ELSE [k \in DOMAIN segments |-> SubSeq(segments, k, Len(segments))]

--------------------------------------------------------------------------------
\* Manifests are a set of [dir, name], one for each that parses.

MaxDepth == 6
Found(manifests) == {m \in manifests : Len(m.dir) < MaxDepth /\ ~should_skip_path(m.dir) /\ m.name # <<>>}

\* A name of Cargo is given as `use` sees it.  Of two crates of one name either may be kept.
find_cargo_crate_roots(manifests) ==
  [n \in {m.name[1] : m \in Found(manifests)} |->
     Append((CHOOSE m \in Found(manifests) : m.name[1] = n).dir, "src")]

\* The packages of the workspace by their names.
npm_workspace(manifests) ==
  [n \in {m.name : m \in Found(manifests)} |-> CHOOSE m \in Found(manifests) : m.name = n]

--------------------------------------------------------------------------------

js_resolver_extensions ==
  <<"ts", "tsx", "mts", "cts", "js", "jsx", "mjs", "cjs", "json", "d.ts", "d.mts", "d.cts">>
extension_alias ==
  [js |-> <<"ts", "tsx", "js">>, jsx |-> <<"tsx", "jsx">>, mjs |-> <<"mts", "mjs">>, cjs |-> <<"cts", "cjs">>]

\* What the resolver tries for a relative path: the file, then the index of a directory
\* (one that has a manifest of its own is left out).
Probes(c) ==
  LET with(path, exts) == [k \in DOMAIN exts |-> Path(path, exts[k])]
  IN IF c.ext = "" THEN with(c.path, js_resolver_extensions) \o with(Append(c.path, "index"), js_resolver_extensions)
     ELSE with(c.path, IF c.ext \in DOMAIN extension_alias THEN extension_alias[c.ext] ELSE <<c.ext>>)

\* The answer is a file on the disk, which the index may not hold.
Resolve(disk, c) ==
  LET there == SelectSeq(Probes(c), LAMBDA d : d \in disk)
  IN IF there = <<>> THEN {} ELSE {there[1]}
IndexedAt(files, places) == {f \in files : Path(f.path, f.ext) \in places}

\* `oxc` is what the resolver says of an import: a path in or out of the repository,
\* that a tsconfig is broken, and then what it says without one, or nothing.
resolve_js_ts_import(oxc, files) ==
  LET answer == IF oxc.answer = "tsconfig" THEN oxc.again ELSE oxc.answer
      target == IndexedAt(files, {oxc.place})
  IN CASE answer # "path" -> [outcome |-> "Unresolved", target |-> {}]
       [] target = {} -> [outcome |-> "Unindexed", target |-> {}]
       [] OTHER -> [outcome |-> "Indexed", target |-> target]

is_path_specifier(import) ==
  import.dots > 0 \/ (import.segments # <<>> /\ import.segments[1] \in {"", ".", ".."})

\* A scope alone names no package.
split_package_specifier(import) ==
  LET ends == IF import.scoped THEN 2 ELSE 1
      segments == import.segments
  IN IF Len(segments) < ends THEN {}
     ELSE {[name |-> SubSeq(segments, 1, ends),
            subpath |-> Path(SubSeq(segments, ends + 1, Len(segments)), import.ext)]}

\* A value of `exports` is a string, as [target |-> path], or an object, as [given |-> its conditions].
Conditions == <<"import", "default", "node", "require", "types">>
RECURSIVE unwrap_conditions(_)
unwrap_conditions(value) ==
  IF "target" \in DOMAIN value THEN {value.target}
  ELSE LET leading == SelectSeq(Conditions, LAMBDA c : c \in DOMAIN value.given /\ unwrap_conditions(value.given[c]) # {})
       IN IF leading = <<>> THEN {} ELSE unwrap_conditions(value.given[leading[1]])

Star == Path(<<"*">>, "")
Entry == Path(<<>>, "")

\* The extension of what a star stands for is that of the pattern, if it has one.
Fill(pattern, key) ==
  Path(FlattenSeq([k \in DOMAIN pattern.path |-> IF pattern.path[k] = "*" THEN key.path ELSE <<pattern.path[k]>>]),
       IF pattern.ext = "" THEN key.ext ELSE pattern.ext)

\* The key itself, or the star.  A string alone is the entry.
exports_target(exports, key) ==
  IF key \in DOMAIN exports THEN unwrap_conditions(exports[key])
  ELSE IF key = Entry \/ Star \notin DOMAIN exports THEN {}
  ELSE {Fill(t, key) : t \in unwrap_conditions(exports[Star])}

\* What the manifest of a package of the workspace promises, then what is usual;
\* `entries` are its module, main and types, as far as it has them.
resolve_workspace_package_import(workspace, import, disk, files) ==
  LET in(package, subpath) ==
        LET usual == IF subpath.path = <<>> THEN package.entries \o <<Path(<<"src", "index">>, ""), Path(<<"index">>, "")>>
                     ELSE <<subpath, Path(<<"src">> \o subpath.path, subpath.ext)>>
            candidates == SetToSeq(exports_target(package.exports, subpath)) \o usual
            indexed(c) == IndexedAt(files, Resolve(disk, Path(normalize_rel(package.dir \o c.path), c.ext)))
            there == SelectSeq(candidates, LAMBDA c : indexed(c) # {})
        IN IF there = <<>> THEN {} ELSE indexed(there[1])
  IN IF is_path_specifier(import) THEN {}
     ELSE UNION {in(workspace[s.name], s.subpath) : s \in {t \in split_package_specifier(import) : t.name \in DOMAIN workspace}}

--------------------------------------------------------------------------------

Or(target, other) == IF target # {} THEN target ELSE other
Of(target) == [outcome |-> IF target = {} THEN "Unresolved" ELSE "Indexed", target |-> target]

\* The package of an import: the names of Python and Rust are not split.
external_module_name(import) ==
  IF import.language \in {"Python", "Rust"} THEN import.segments
  ELSE SubSeq(import.segments, 1, IF import.scoped /\ Len(import.segments) >= 2 THEN 2 ELSE Min({1, Len(import.segments)}))

\* Only a path can be broken; another name is that of a package.
unresolved_target_name(import, outcome) ==
  IF ~is_path_specifier(import) THEN <<"external", external_module_name(import)>>
  ELSE <<IF outcome = "Unindexed" THEN "unindexed" ELSE "unresolved", import.segments>>

\* `repo` has the crates and packages of the workspace, the files on the disk and the depth of modules.
Resolved(import, repo, files) ==
  LET primary == resolve_js_ts_import(import.oxc, files)
      package == resolve_workspace_package_import(repo.packages, import, repo.disk, files)
  IN CASE import.language = "JavaScript" ->
            IF primary.outcome = "Indexed" \/ package = {} THEN primary ELSE Of(package)
       [] import.language = "Python" ->
            Of(resolve_suffix_unique(python_import_candidates(import.source, import.dots, import.segments), files))
       [] import.language = "Rust" ->
            Of(Or(resolve_rust_workspace_import(repo.crates, import.segments, files),
                  resolve_most_specific(rust_import_candidates(import.source, import.segments), files)))
       [] import.language = "Cpp" ->
            Of(resolve_suffix_unique(cpp_import_candidates(import.source, import.segments, import.ext), files))
       [] OTHER -> Of(resolve_go_package(go_import_candidates(import.segments), files))

\* Where a dependency of a file leads, and the module there.
resolve_dependencies(import, repo, files) ==
  LET resolved == Resolved(import, repo, files)
  IN [target |-> resolved.target, is_external |-> resolved.target = {},
      module |-> IF resolved.target = {} THEN unresolved_target_name(import, resolved.outcome)
                 ELSE <<"module", infer_module_name(rel_parent((CHOOSE f \in resolved.target : TRUE).path), repo.depth)>>]

================================================================================
