-------------------------------- MODULE Reindex --------------------------------
(***************************************************************************)
(* The extraction and the sync composed: a working tree is edited and      *)
(* rearranged, and every indexing run hands Extract of the tree, with the  *)
(* dependency rows of the run before, to sync_current_index.  This is      *)
(* the loop of index_repository seen from the persisted index; the files   *)
(* stand still while a run reads them (IndexRun lets them move).           *)
(***************************************************************************)
EXTENDS IndexSync

CONSTANTS
  Paths,          \* repository-relative paths
  DefinedIn,      \* path -> the name of its one exported function
  Absent,         \* no readable file at the path
  Contents,       \* path -> the contents an edit may give it
  Layouts         \* the module names the contract may map the paths to

X == INSTANCE Extraction

VARIABLES
  tree,      \* path -> content or Absent
  layout,    \* path -> module name
  indexed    \* the <<tree, layout>> of the last run

world == <<tree, layout>>

Trees == {t \in [Paths -> UNION {Contents[p] : p \in Paths}] :
            \A p \in Paths : t[p] \in Contents[p]}

\* The rows that one source file gives one specifier; the id holds both.
ImportsInId(D) ==
  \A d \in D : \E p \in Paths :
    d.source = X!FileId(p) /\ d.id = <<"dependency", p, d.specifier, d.targetModule>>

\* Extractions has what a run extracts from any tree, the first or after another.
ASSUME ReindexAssumption ==
  /\ None \notin Trees \X Layouts
  /\ \A x \in Extractions : ImportsInId(x.deps)
  /\ \A t \in Trees, l \in Layouts :
       {X!Extract(t, l, {})} \cup {X!Extract(t, l, x.deps) : x \in Extractions} \subseteq Extractions

ReindexInit ==
  /\ Init
  /\ tree \in Trees /\ layout \in Layouts
  /\ indexed = None

\* The edits between two runs: any files, the contract, or the directory depth
\* that makes a module.
Edit ==
  /\ indexed = world
  /\ tree' \in Trees /\ layout' \in Layouts
  /\ UNCHANGED <<indexed, vars>>

\* What the next run extracts from the tree as it is.
Extracted == X!Extract(tree, layout, deps)

IndexTree ==
  /\ sync_current_index(Extracted)
  /\ indexed' = world
  /\ UNCHANGED world

ReindexNext == Edit \/ IndexTree

ReindexSpec == ReindexInit /\ [][ReindexNext]_<<vars, world, indexed>>

--------------------------------------------------------------------------------
(* Properties. *)

\* Re-indexing an unchanged repository writes a new snapshot and nothing else,
\* also when files do not parse and whatever earlier runs have left behind.
NoOpWhenUnchanged ==
  [][ (IndexTree /\ indexed = world) => UNCHANGED <<rows, graph>> ]_<<vars, world, indexed>>

Specifiers(D, p) == X!retained_imports(D, p)

\* A file that fails to parse keeps every import of its last successful run,
\* however often it is indexed unparsable and wherever its targets move.
ParseFailureRetains ==
  [][ IndexTree =>
        \A p \in X!Present(tree) \ X!Parsed(tree) :
          Specifiers(deps', p) = Specifiers(deps, p) ]_<<vars, world, indexed>>

\* No edit, move or parse failure leads to a run whose transaction cannot commit.
CanAlwaysCommit == ~ KeyConflict(Extracted)

================================================================================
