--------------------------------- MODULE Rules ---------------------------------
(***************************************************************************)
(* The rules over the facts of a tree: unused exports and files, the       *)
(* configured and built-in rules over imports and security patterns, the   *)
(* findings about single functions, and the smells.                        *)
(*                                                                         *)
(* A tree is a record of its files, the statements in them, the suppressed *)
(* lines and the files that do not parse. An "export" declares name, and   *)
(* mentions the types in names; an "import" pulls names of file to ({}: a  *)
(* namespace, a side effect or a call), a "forward" re-exports names of to *)
(* ({}: all of them); a "literal" is a string that names the files in      *)
(* names; a "pattern" has its kind as name, a "function" its parameters as *)
(* names; mark says that a pattern is in test code.                        *)
(*                                                                         *)
(* A finding is [id, severity, evidence, order]: two with one id are one   *)
(* finding, and evidence is a set of <<file, line>>.                       *)
(***************************************************************************)
EXTENDS Naturals, FiniteSets, Functions, Sets

CONSTANTS
  Entry,        \* the entry points of the tree
  DefaultName, AllNames,
  FileKind      \* file -> "source", "declaration" or "config"

\* A file that does not parse has no facts; its imports are those of the last run.
Of(tree, form) == {s \in tree.statements : s.form = form /\ s.file \notin tree.broken}
Imports(tree) == {s \in tree.statements : s.form \in {"import", "forward"}}
NamesOf(tree, s) == IF s.file \in tree.broken THEN {} ELSE s.names
Internal(tree) == {s \in Imports(tree) : s.to \in tree.files}
entry_points(tree) == Entry \cap tree.files

\* What the extractor says a file exports; AllNames stands for all of another one.
ExportFacts(tree) ==
  {[file |-> s.file, name |-> s.name, line |-> s.line, type |-> s.mark, re_export |-> FALSE]
   : s \in Of(tree, "export")}
  \cup UNION {{[file |-> s.file, name |-> n, line |-> s.line, type |-> FALSE, re_export |-> TRUE]
               : n \in IF s.names = {} THEN {AllNames} ELSE s.names} : s \in Of(tree, "forward")}

\* Faulty variant: a re-export gives no edge.
ImportEdges_of_imports(tree) ==
  {[source |-> s.file, target |-> s.to, names |-> NamesOf(tree, s)]
   : s \in {t \in Internal(tree) : t.form = "import"}}

\* One edge for a file and a specifier: the names of all its statements together.
ImportEdges(tree) ==
  {[source |-> s.file, target |-> s.to,
    names |-> UNION {NamesOf(tree, t) : t \in {u \in Internal(tree) : u.file = s.file /\ u.to = s.to}}]
   : s \in Internal(tree)}
is_namespace(edge) == edge.names = {}

--------------------------------------------------------------------------------
(* Reachability and usage. *)

bfs_reachable(tree) ==
  Closure(entry_points(tree), {<<e.source, e.target>> : e \in ImportEdges(tree)})

Exported(tree, file) == {x.name : x \in {y \in ExportFacts(tree) : y.file = file}}
collect_reexport_names(tree, file) ==
  {x.name : x \in {y \in ExportFacts(tree) : y.file = file /\ y.re_export}}

seed_public_surface(tree) ==
  {<<x.file, x.name>> : x \in {y \in ExportFacts(tree) : y.file \in entry_points(tree)}}

\* A name that the importing file itself re-exports is passed on, not used.
seed_from_imports(tree, reachable) ==
  LET live == {e \in ImportEdges(tree) : e.source \in reachable}
      pulled(e) == IF is_namespace(e) THEN Exported(tree, e.target)
                   ELSE e.names \cap Exported(tree, e.target)
      passed(e) == IF is_namespace(e) THEN {}
                   ELSE pulled(e) \cap collect_reexport_names(tree, e.source)
  IN [used |-> UNION {{e.target} \X (pulled(e) \ passed(e)) : e \in live},
      forwards |-> UNION {{<<<<e.source, n>>, <<e.target, n>>>> : n \in passed(e)} : e \in live}]

\* Faulty variant: usage is passed on once.
propagate_forwards_once(used, forwards) == Onward(used, forwards)

propagate_forwards(used, forwards) == Closure(used, forwards)

used_exports(tree) ==
  LET seeds == seed_from_imports(tree, bfs_reachable(tree))
  IN propagate_forwards(seed_public_surface(tree) \cup seeds.used, seeds.forwards)

--------------------------------------------------------------------------------
(* The findings.  The line is part of the identity: a file may export one  *)
(* name twice.                                                             *)

\* Faulty variant: without the line.
FindingId_by_name(rule, file, line, names) == [rule |-> rule, file |-> file, line |-> 0, names |-> names]

FindingId(rule, file, line, names) == [rule |-> rule, file |-> file, line |-> line, names |-> names]

SignatureTypes(tree, file) ==
  UNION {s.names : s \in {t \in Of(tree, "export") : t.file = file}}

flag_unused_exports(tree) ==
  {[id |-> FindingId("unused-export", x.file, x.line, {x.name}), line |-> x.line] :
     x \in {y \in ExportFacts(tree) :
              /\ y.file \notin entry_points(tree) /\ y.file \in bfs_reachable(tree)
              /\ ~ y.re_export /\ y.name # DefaultName
              /\ <<y.file, y.name>> \notin used_exports(tree)
              /\ ~ (y.type /\ y.name \in SignatureTypes(tree, y.file))}}

\* A string in another file that spells the name of this one.
literal_reference(tree, file) ==
  \E s \in Of(tree, "literal") : s.file # file /\ file \in s.names

is_barrel_with_reachable_sources(tree, file) ==
  LET exported == {x \in ExportFacts(tree) : x.file = file}
  IN /\ exported # {} /\ \A x \in exported : x.re_export
     /\ \E e \in ImportEdges(tree) : e.source = file /\ e.target \in bfs_reachable(tree)

flag_unused_files(tree) ==
  {[id |-> FindingId(IF literal_reference(tree, f) THEN "possibly-unused-file" ELSE "unused-file",
                     f, 1, {}), line |-> 1] :
     f \in {g \in tree.files \ bfs_reachable(tree) :
              FileKind[g] = "source" /\ ~ is_barrel_with_reachable_sources(tree, g)}}

\* Without an entry point nothing is known to be dead.
deadcode_analyze(tree) ==
  IF entry_points(tree) = {} THEN {}
  ELSE flag_unused_exports(tree) \cup flag_unused_files(tree)

--------------------------------------------------------------------------------
(* Imports, security patterns and single functions. *)

CONSTANTS
  ModuleOf,      \* file -> module
  Packages,      \* what may be imported from outside
  Boundaries,    \* [name, source, target, allowed, severity]
  BannedImports, \* [name, matches, severity]: the files and packages a pattern matches
  TestFiles,     \* by their path: tests, fixtures, CI workflows
  Measures,      \* function -> [lines, cyclomatic, cognitive]
  MaxEvidence    \* 10 for a boundary, 20 for a ban

Severities == [low |-> 1, medium |-> 2, high |-> 3, critical |-> 4]
NoFile == 0

FindingRecord(id, severity, evidence, order) ==
  [id |-> id, severity |-> severity, evidence |-> evidence, order |-> order]
Site(s) == <<s.file, s.line>>

\* Of two with one id, the one that was found first.
OfId(fs, id) == {f \in fs : f.id = id}
FirstOfId(fs, id) == CHOOSE f \in OfId(fs, id) : \A g \in OfId(fs, id) : f.order <= g.order
dedup_by_id(fs) == {FirstOfId(fs, id) : id \in Ids(fs)}

Sites(S) == {Site(s) : s \in S}

Before(p, q) == p[1] < q[1] \/ (p[1] = q[1] /\ p[2] < q[2])
FirstSites(S) == {p \in S : Cardinality({q \in S : Before(q, p)}) < MaxEvidence}

\* One finding for all the imports that break a rule, with the first as evidence.
group_finding(id, severity, offending) ==
  IF offending = {} THEN {} ELSE {FindingRecord(id, severity, FirstSites(Sites(offending)), 0)}

\* A boundary is known by its name and its two modules, a ban by its name and its pattern.
boundary_id(r) == FindingId("boundary", r.source, r.target, {r.name})
banned_id(r) == FindingId("banned-import", NoFile, r.name, r.matches)

boundary_offending(tree, r) ==
  {s \in Internal(tree) : ModuleOf[s.file] = r.source /\ ModuleOf[s.to] = r.target}
boundary_rules(tree) ==
  UNION {group_finding(boundary_id(r), r.severity, boundary_offending(tree, r))
         : r \in {b \in Boundaries : ~ b.allowed}}

banned_offending(tree, r) == {s \in Imports(tree) : s.to \in r.matches}
banned_import_rules(tree) ==
  UNION {group_finding(banned_id(r), r.severity, banned_offending(tree, r))
         : r \in BannedImports}

\* An import of a file that is not there, once for a file, at its first line.
unresolved_import_rule(tree) ==
  LET dangling == {s \in Imports(tree) : s.to \notin tree.files \cup Packages
                                          /\ FileKind[s.file] # "config"}
      first(s) == \A t \in dangling : t.file = s.file /\ t.to = s.to => s.line <= t.line
  IN {FindingRecord(FindingId("unresolved-import", s.file, 0, {s.to}), Severities.medium, {Site(s)}, 0)
      : s \in {d \in dangling : first(d)}}

PatternKinds == {"secret", "eval", "exec", "spawn", "weak-hash", "cors"}

\* A shell is worth more than a program run directly; both are one kind of pattern.
security_slug(name) == IF name \in {"exec", "spawn"} THEN "command-exec" ELSE name
PatternSeverity(name) ==
  CASE name = "secret" -> Severities.critical
    [] name \in {"eval", "exec"} -> Severities.high
    [] OTHER -> Severities.medium
security_rules(tree) ==
  {FindingRecord(FindingId(security_slug(s.name), s.file, s.line, {}),
                 PatternSeverity(s.name), {Site(s)}, s.column) : s \in Of(tree, "pattern")}

--------------------------------------------------------------------------------
(* Functions that are too long, too wide or too involved. *)

FunctionFinding(rule, s, severity) ==
  {FindingRecord(FindingId(rule, s.file, s.line, {s.name}), severity, {Site(s)}, 0)}

long_function_finding(s) ==
  LET lines == Measures[s.name].lines
  IN IF lines < 75 THEN {}
     ELSE FunctionFinding("long-function", s,
                          IF lines >= 150 THEN Severities.medium ELSE Severities.low)
long_parameter_list_finding(s) ==
  LET count == Measures[s.name].params
  IN IF count < 7 THEN {}
     ELSE FunctionFinding("long-parameter-list", s,
                          IF count >= 10 THEN Severities.medium ELSE Severities.low)
high_complexity_finding(s) ==
  LET m == Measures[s.name]
  IN IF m.cognitive >= 25 THEN FunctionFinding("complexity", s, Severities.high)
     ELSE IF m.cognitive >= 15 \/ m.cyclomatic >= 10
     THEN FunctionFinding("complexity", s, Severities.medium) ELSE {}
complexity_findings(tree) ==
  UNION {long_function_finding(s) \cup long_parameter_list_finding(s) \cup high_complexity_finding(s)
         : s \in Of(tree, "function")}

deadcode_findings(tree) ==
  {FindingRecord(d.id, Severities.low, {<<d.id.file, d.line>>}, d.line) : d \in deadcode_analyze(tree)}

--------------------------------------------------------------------------------
(* Functions that call into another module, classes with many methods, and *)
(* parameters that travel together.                                        *)

CONSTANTS
  Family,           \* file -> its family of languages
  Receivers,        \* parameter names that carry no data
  Idioms,           \* sets of names that every code base repeats
  Calls,            \* function -> module -> the resolved calls into it
  MinForeign, OwnRatio, MediumForeign,
  ClassLow, ClassMedium,
  MinNames, MinFunctions, MediumNames, MediumFunctions, MaxNames

Total(counts) == FoldFunction(LAMBDA x, y : x + y, 0, counts)

\* The module with most calls; the first name of those with equally many.
top_foreign(counts, own) ==
  CHOOSE m \in DOMAIN counts \ {own} :
    \A n \in DOMAIN counts \ {own} : counts[n] < counts[m] \/ (counts[n] = counts[m] /\ m <= n)

\* The calls of functions of one name in a file are those of the last of them.
declared_again(tree, f) ==
  \E g \in Of(tree, "function") : g.file = f.file /\ g.name = f.name /\ f.line < g.line

envy_finding(s) ==
  LET counts == Calls[s.name]
      own == counts[ModuleOf[s.file]]
      foreign == counts[top_foreign(counts, ModuleOf[s.file])]
  IN IF \/ foreign < MinForeign
        \/ foreign < OwnRatio * (IF own = 0 THEN 1 ELSE own)
        \/ 2 * foreign < Total(counts)
     THEN {}
     ELSE {FindingRecord(FindingId("feature-envy", s.file, 0, {s.name}),
             IF own = 0 /\ foreign >= MediumForeign THEN Severities.medium ELSE Severities.low,
             {Site(s)}, s.line)}
feature_envy(tree) ==
  UNION {envy_finding(s) : s \in {f \in Of(tree, "function") :
           f.file \notin entry_points(tree) \cup TestFiles /\ ~ declared_again(tree, f)}}

\* Methods belong to the class of their name in their file.
class_finding(c, methods) ==
  IF methods < ClassLow THEN {}
  ELSE {FindingRecord(FindingId("large-class", c.file, 0, {c.name}),
          IF methods >= ClassMedium THEN Severities.medium ELSE Severities.low, {Site(c)}, c.line)}
large_class(tree) ==
  UNION {class_finding(c, Cardinality({m \in Of(tree, "method") : m.file = c.file /\ m.name = c.name}))
         : c \in {k \in Of(tree, "class") : k.file \notin TestFiles}}

--------------------------------------------------------------------------------
(* Data clumps. *)

\* The first names in their order, without receivers.
ClumpNames(s) ==
  LET data == s.names \ Receivers
  IN {n \in data : Cardinality({k \in data : k < n}) < MaxNames}

\* Functions of one name and one list of parameters are one site, the first of them.
collect_clump_sites(tree) ==
  LET wide == {s \in Of(tree, "function") : s.file \notin TestFiles /\ Cardinality(ClumpNames(s)) >= MinNames}
      same(s, t) == Family[s.file] = Family[t.file] /\ s.name = t.name /\ ClumpNames(s) = ClumpNames(t)
  IN {s \in wide : ~ \E t \in wide : same(s, t) /\ Before(Site(t), Site(s))}

Families(sites) == {Family[s.file] : s \in sites}
ParameterNames(sites) == UNION {ClumpNames(s) : s \in sites}

\* The sites that take three names, for every family and triple.
Triple(sites, f, t) ==
  [family |-> f, names |-> t, members |-> {s \in sites : Family[s.file] = f /\ t \subseteq ClumpNames(s)}]
index_triples(sites) ==
  {Triple(sites, f, t) : f \in Families(sites), t \in {k \in SUBSET ParameterNames(sites) : Cardinality(k) = 3}}

\* Faulty variant: triples that share a function are merged.
merge_triples_overlapping(triples) ==
  {[family |-> t.family, members |-> t.members,
    names |-> UNION {u.names : u \in {v \in triples : v.family = t.family /\ v.members \cap t.members # {}}}]
   : t \in triples}

\* Triples of the same functions are one clump.
merge_triples(triples) ==
  {[family |-> t.family, members |-> t.members,
    names |-> UNION {u.names : u \in {v \in triples : v.family = t.family /\ v.members = t.members}}]
   : t \in triples}

clumps(tree) ==
  merge_triples({t \in index_triples(collect_clump_sites(tree)) : Cardinality(t.members) >= MinFunctions})

data_clumps(tree) ==
  {FindingRecord(FindingId("data-clumps", c.family, 0, c.names),
     IF Cardinality(c.names) >= MediumNames /\ Cardinality(c.members) >= MediumFunctions
     THEN Severities.medium ELSE Severities.low,
     FirstSites(Sites(c.members)), 0)
   : c \in {k \in clumps(tree) : ~ \E idiom \in Idioms : k.names \subseteq idiom}}

\* A class that a file declares twice is one finding, before any is suppressed.
smell_findings(tree) == dedup_by_id(feature_envy(tree) \cup large_class(tree) \cup data_clumps(tree))

================================================================================
