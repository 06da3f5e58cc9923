------------------------------ MODULE Extraction -------------------------------
(***************************************************************************)
(* What ovecc-indexer extracts from a working tree: file and module        *)
(* records (collect_processed), dependencies (resolve_dependencies) and    *)
(* code facts with a linked call graph (resolve_facts), each under the     *)
(* stable id the indexer gives it.  The operators are pure.                *)
(*                                                                         *)
(* A tree maps every path to Absent or to the content of the file:         *)
(*   parses   whether the extractor accepts it                             *)
(*   line     where its one function starts (part of the symbol's span)    *)
(*   imports  the specifiers it imports, a specifier being a path          *)
(*   calls    the function names its function calls                        *)
(*   routes   the names it registers as handlers of its one route          *)
(*   tables   the tables its top level reads                               *)
(* A layout maps every path to the name of its module.                     *)
(***************************************************************************)
EXTENDS Sets

CONSTANTS
  Paths,          \* repository-relative paths
  DefinedIn,      \* path -> the name of its one exported function
  Absent,         \* no readable file at the path
  None            \* unresolved

FileId(p) == <<"file", p>>
ModuleId(name) == <<"module", name>>
ExternalId(spec) == <<"external", spec>>
SymbolId(p, name, line) == <<"symbol", p, name, line>>
ModuleInitId(p) == <<"symbol", "<module>", p>>

Present(tree) == {p \in Paths : tree[p] # Absent}
Parsed(tree) == {p \in Present(tree) : tree[p].parses}

file_records(tree, layout) ==
  {[id |-> FileId(p), hash |-> tree[p], module |-> ModuleId(layout[p])] :
     p \in Present(tree)}

module_records(tree, layout) ==
  {[id |-> ModuleId(layout[p]), prefix |-> layout[p]] : p \in Present(tree)}

\* Faulty variants: the name of the target is taken for the specifier; only
\* what was resolved is kept.
retained_imports_by_target(previous, p) ==
  {d.targetModule[2] : d \in {d \in previous : d.source = FileId(p)}}
retained_imports_resolved(previous, p) ==
  {d.specifier : d \in {d \in previous : d.source = FileId(p) /\ d.target # None}}

\* A file that fails to parse keeps the imports of its persisted rows.
retained_imports(previous, p) == {d.specifier : d \in {d \in previous : d.source = FileId(p)}}

imports_of(tree, previous, p) ==
  IF tree[p].parses THEN tree[p].imports ELSE retained_imports(previous, p)

\* The id holds the source path, the specifier and the name of the target
\* module; the source module and the target file are not part of it.
dependency(tree, layout, p, spec) ==
  LET indexed == spec \in Present(tree)
      target_module == IF indexed THEN ModuleId(layout[spec]) ELSE ExternalId(spec)
  IN [id |-> <<"dependency", p, spec, target_module>>,
      source |-> FileId(p),
      specifier |-> spec,
      target |-> IF indexed THEN FileId(spec) ELSE None,
      sourceModule |-> ModuleId(layout[p]),
      targetModule |-> target_module]

resolve_dependencies(tree, layout, previous) ==
  UNION {{dependency(tree, layout, p, spec) : spec \in imports_of(tree, previous, p)} :
           p \in Present(tree)}

--------------------------------------------------------------------------------
(* Code facts exist for the files that parsed. *)

SymbolOf(tree, p) == SymbolId(p, DefinedIn[p], tree[p].line)

Defining(tree, name) == {p \in Parsed(tree) : DefinedIn[p] = name}

\* The file's own declaration first, then an imported name.
resolve_callee(tree, p, name) ==
  LET bound == tree[p].imports \cap Defining(tree, name)
  IN IF DefinedIn[p] = name THEN SymbolOf(tree, p)
     ELSE IF bound # {} THEN SymbolOf(tree, CHOOSE q \in bound : TRUE)
     ELSE None

\* Otherwise a name that is unique in the repository.
resolve_unique_name(tree, name) ==
  IF \E p \in Paths : Defining(tree, name) = {p}
  THEN SymbolOf(tree, CHOOSE p \in Defining(tree, name) : TRUE)
  ELSE None

callee_of(tree, p, name) ==
  IF resolve_callee(tree, p, name) # None
  THEN resolve_callee(tree, p, name)
  ELSE resolve_unique_name(tree, name)

\* A file with a top-level fact gets a synthesized <module> symbol to own it.
symbol_records(tree, layout) ==
  {[id |-> SymbolOf(tree, p), file |-> FileId(p), module |-> ModuleId(layout[p])] :
     p \in Parsed(tree)}
  \cup {[id |-> ModuleInitId(p), file |-> FileId(p), module |-> ModuleId(layout[p])] :
          p \in {p \in Parsed(tree) : tree[p].tables # {}}}

\* The callee is not part of a call's id.
call_records(tree) ==
  UNION {{[id |-> <<"call", SymbolOf(tree, p), name>>,
           caller |-> SymbolOf(tree, p),
           callee |-> callee_of(tree, p, name)] : name \in tree[p].calls} :
           p \in Parsed(tree)}

\* One route for a file; neither the module nor the handler is in its id.
api_records(tree, layout) ==
  UNION {{[id |-> <<"api", p>>,
           module |-> ModuleId(layout[p]),
           handler |-> resolve_callee(tree, p, name)] : name \in tree[p].routes} :
           p \in Parsed(tree)}

accesses(tree) ==
  UNION {{[source |-> ModuleInitId(p), target |-> <<"table", t>>, kind |-> "reads"] :
            t \in tree[p].tables} : p \in Parsed(tree)}

object_records(tree) ==
  {[id |-> <<"table", t>>, kind |-> "table"] :
     t \in UNION {tree[p].tables : p \in Parsed(tree)}}

health_records(tree) == {[id |-> <<"export", p, tree[p].line>>] : p \in Parsed(tree)}

Extract(tree, layout, previous) ==
  [modules  |-> module_records(tree, layout),
   files    |-> file_records(tree, layout),
   deps     |-> resolve_dependencies(tree, layout, previous),
   symbols  |-> symbol_records(tree, layout),
   calls    |-> call_records(tree),
   apis     |-> api_records(tree, layout),
   objects  |-> object_records(tree),
   accesses |-> accesses(tree),
   health   |-> health_records(tree)]

================================================================================
