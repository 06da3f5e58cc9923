----------------------------- MODULE IndexContract -----------------------------
(***************************************************************************)
(* What the persisted index promises, said without a diff: an indexing run *)
(* rebuilds it from nothing.  Files, modules, the containment and          *)
(* declaration structure, the table accesses and the code-health facts are *)
(* those of the last extraction; of dependencies, calls, APIs and schema   *)
(* objects the set of ids is; and every run adds one snapshot at the end   *)
(* of the history.                                                         *)
(***************************************************************************)
EXTENDS Sequences, Sets

CONSTANTS
  Extractions,
  SnapshotOf(_),        \* what the snapshot of an extraction records
  StructureOf(_),       \* containment, declaration and access edges
  NodeIdsOf(_),         \* ids of the graph nodes
  HealthOf(_)           \* code-health rows

VARIABLES
  files, modules, health,
  depIds, symbolIds, callIds, apiIds, objectIds,
  structure, nodeIds,
  history

vars == <<files, modules, health, depIds, symbolIds, callIds, apiIds, objectIds,
          structure, nodeIds, history>>

Init ==
  /\ files = {} /\ modules = {} /\ health = {}
  /\ depIds = {} /\ symbolIds = {} /\ callIds = {} /\ apiIds = {} /\ objectIds = {}
  /\ structure = {} /\ nodeIds = {}
  /\ history = <<>>

Rebuild(x) ==
  /\ files' = x.files /\ modules' = x.modules /\ health' = HealthOf(x)
  /\ depIds' = Ids(x.deps) /\ symbolIds' = Ids(x.symbols) /\ callIds' = Ids(x.calls)
  /\ apiIds' = Ids(x.apis) /\ objectIds' = Ids(x.objects)
  /\ structure' = StructureOf(x) /\ nodeIds' = NodeIdsOf(x)
  /\ history' = Append(history, SnapshotOf(x))

Next == \E x \in Extractions : Rebuild(x)

Spec == Init /\ [][Next]_vars

================================================================================
