---------------------------- MODULE IndexSync_proofs ----------------------------
(***************************************************************************)
(* Theorems about the differential sync of IndexSync, for every set of     *)
(* extractions that satisfies ExtractionsAssumption, and about the loop of *)
(* indexing runs, for any paths, contents, layouts and edits: what is      *)
(* extracted satisfies what IndexSync assumes, so every run is a sync, and *)
(* what is proved of it holds of the loop.                                 *)
(***************************************************************************)
EXTENDS Reindex, TLAPS

\* A batch keeps rows of its own when it is deduplicated.
LEMMA FirstByIdSubset ==
  ASSUME NEW B
  PROVE  FirstById(B) \subseteq B
BY DEF FirstById, Ids

\* ... and the same ids.
LEMMA FirstByIdIds ==
  ASSUME NEW B
  PROVE  Ids(FirstById(B)) = Ids(B)
<1> DEFINE First(i) == CHOOSE r \in B : r.id = i
<1>1. \A i \in Ids(B) : First(i) \in B /\ First(i).id = i
  BY DEF Ids
<1>2. FirstById(B) = {First(i) : i \in Ids(B)}
  BY DEF FirstById
<1> HIDE DEF First
<1> QED
  BY <1>1, <1>2 DEF Ids

\* A deduplicated batch has one row for each id.
LEMMA FirstByIdKeyed ==
  ASSUME NEW B
  PROVE  Keyed(FirstById(B))
BY DEF FirstById, Ids, Keyed

\* Deduplicating the rows a table lacks gives one row for each missing id.
LEMMA MissingIds ==
  ASSUME NEW T, NEW batch
  PROVE  Ids(FirstById(NewRows(batch, T))) = Ids(batch) \ Ids(T)
<1>1. Ids(NewRows(batch, T)) = Ids(batch) \ Ids(T)
  BY DEF NewRows, Ids
<1> QED
  BY <1>1, FirstByIdIds

\* A synced table has the ids of the batch, and one row each if it had.
LEMMA TableSync ==
  ASSUME NEW T, NEW batch
  PROVE  /\ Synced(T, batch) \subseteq T \cup batch
         /\ Ids(Synced(T, batch)) = Ids(batch)
         /\ Keyed(T) => Keyed(Synced(T, batch))
<1> DEFINE new == FirstById(NewRows(batch, T))
           old == WithoutIds(T, StaleIds(T, batch))
<1>1. new \subseteq batch /\ \A r \in new : r.id \notin Ids(T)
  BY FirstByIdSubset DEF NewRows
<1>2. Ids(new) = Ids(batch) \ Ids(T)
  BY MissingIds
<1>3. Keyed(new)
  BY FirstByIdKeyed
<1>4. Ids(old) = Ids(T) \cap Ids(batch)
  BY DEF Ids, WithoutIds, StaleIds
<1>5. old \subseteq T
  BY DEF WithoutIds
<1>6. Synced(T, batch) = old \cup new
  BY DEF Synced
<1> HIDE DEF new, old
<1>7. Ids(old \cup new) = Ids(old) \cup Ids(new)
  BY DEF Ids
<1>8. Keyed(T) => Keyed(old \cup new)
  BY <1>1, <1>3, <1>5 DEF Ids, Keyed
<1> QED
  BY <1>1, <1>2, <1>4, <1>5, <1>6, <1>7, <1>8

\* Type correctness is inductive on its own.
THEOREM TypeCorrect == Spec => []TypeOK
<1>1. Init => TypeOK
  BY DEF Init, TypeOK
<1>2. TypeOK /\ [Next]_vars => TypeOK'
  <2> SUFFICES ASSUME TypeOK, NEW x \in Extractions, sync_current_index(x)
               PROVE  TypeOK'
    <3>1. CASE UNCHANGED vars
      BY <3>1 DEF TypeOK, vars, rows, graph
    <3> QED
      BY <3>1 DEF Next
  <2>1. (repository \in {None} \cup [created : Nat, updated : Nat])'
    <3>1. Len(snapshots) + 1 \in Nat
      BY DEF TypeOK
    <3> QED
      BY <3>1 DEF TypeOK, sync_current_index, upsert_repository
  <2>2. (modules \subseteq AllModules)'
    BY DEF TypeOK, sync_current_index, sync_index_rows, AllModules, WithoutIds,
           modules_to_add, modules_to_reprefix, NewRows
  <2>3. (files \subseteq AllFiles)'
    BY DEF TypeOK, sync_current_index, sync_index_rows, AllFiles, WithoutIds,
           files_to_add, files_to_update, NewRows
  <2>4. (deps \subseteq UNION {y.deps : y \in Extractions})'
    BY TableSync DEF TypeOK, sync_current_index, sync_index_rows
  <2>5. (symbols \subseteq AllSymbols)'
    BY TableSync DEF TypeOK, sync_current_index, sync_code_facts, AllSymbols
  <2>6. (calls \subseteq UNION {y.calls : y \in Extractions})'
    BY TableSync DEF TypeOK, sync_current_index, sync_code_facts
  <2>7. (apis \subseteq AllApis)'
    BY TableSync DEF TypeOK, sync_current_index, sync_code_facts, AllApis
  <2>8. (objects \subseteq AllObjects)'
    BY TableSync DEF TypeOK, sync_current_index, sync_code_facts, AllObjects
  <2>9. (health \subseteq UNION {y.health : y \in Extractions})'
    BY FirstByIdSubset DEF TypeOK, sync_current_index, replace_health_facts
  <2>10. (snapshots \in Seq({SnapshotOf(y) : y \in Extractions}))'
    BY DEF TypeOK, sync_current_index, append_snapshot_rows
  <2> QED
    BY <2>1, <2>2, <2>3, <2>4, <2>5, <2>6, <2>7, <2>8, <2>9, <2>10 DEF TypeOK
<1> QED
  BY <1>1, <1>2, PTL DEF Spec

--------------------------------------------------------------------------------
(* Primary keys. *)

\* No reachable table holds two rows under one id: the row tables because
\* their batches are keyed or deduplicated, the graph tables because a
\* transaction that would violate the constraint does not commit.
THEOREM KeysHold == Spec => []PrimaryKeys
<1>1. Init => PrimaryKeys
  BY DEF Init, PrimaryKeys, Keyed
<1>2. PrimaryKeys /\ [Next]_vars => PrimaryKeys'
  <2> SUFFICES ASSUME PrimaryKeys, NEW x \in Extractions, sync_current_index(x)
               PROVE  PrimaryKeys'
    <3>1. CASE UNCHANGED vars
      BY <3>1 DEF PrimaryKeys, Keyed, vars, rows, graph
    <3> QED
      BY <3>1 DEF Next
  <2>1. WellFormed(x)
    BY ExtractionsAssumption
  <2>2. Keyed(modules)'
    BY <2>1, SMTT(30) DEF PrimaryKeys, WellFormed, sync_current_index, sync_index_rows, Keyed,
                WithoutIds, Ids, NewRows, modules_to_add, modules_to_remove, modules_to_reprefix
  <2>3. Keyed(files)'
    BY <2>1, SMTT(30) DEF PrimaryKeys, WellFormed, sync_current_index, sync_index_rows, Keyed,
                WithoutIds, Ids, NewRows, files_to_add, files_to_remove, files_to_update
  <2>4. Keyed(deps)'
    BY TableSync DEF PrimaryKeys, sync_current_index, sync_index_rows
  <2>5. Keyed(symbols)'
    BY TableSync DEF PrimaryKeys, sync_current_index, sync_code_facts
  <2>6. Keyed(calls)'
    BY TableSync DEF PrimaryKeys, sync_current_index, sync_code_facts
  <2>7. Keyed(apis)'
    BY TableSync DEF PrimaryKeys, sync_current_index, sync_code_facts
  <2>8. Keyed(objects)'
    BY TableSync DEF PrimaryKeys, sync_current_index, sync_code_facts
  <2>9. Keyed(nodes)' /\ Keyed(edges)'
    BY DEF sync_current_index, sync_graph, KeyConflict
  <2> QED
    BY <2>2, <2>3, <2>4, <2>5, <2>6, <2>7, <2>8, <2>9 DEF PrimaryKeys
<1> QED
  BY <1>1, <1>2, PTL DEF Spec

--------------------------------------------------------------------------------
(* The nodes of the graph. *)

NodesOf(T, kind) == {Node(r, kind) : r \in T}

\* The ids of rows of different kinds differ.
LEMMA KindsApart ==
  /\ Ids(AllModules) \cap (Ids(AllFiles) \cup Ids(AllSymbols) \cup Ids(AllApis)
                            \cup Ids(AllObjects)) = {}
  /\ Ids(AllFiles) \cap (Ids(AllSymbols) \cup Ids(AllApis) \cup Ids(AllObjects)) = {}
  /\ Ids(AllSymbols) \cap (Ids(AllApis) \cup Ids(AllObjects)) = {}
  /\ Ids(AllApis) \cap Ids(AllObjects) = {}
<1>1. \A S, T : Ids(S \cup T) = Ids(S) \cup Ids(T)
  BY DEF Ids
<1> QED
  BY <1>1, ExtractionsAssumption DEF IdsByKind

\* The ids of deleted nodes are those of the rows that vanished; the deletes of
\* one kind of row touch no row of another kind.
LEMMA DeletedByKind ==
  ASSUME TypeOK, NEW x \in Extractions
  PROVE  /\ \A m \in modules : m.id \in deleted_node_ids(x) <=> m.id \notin Ids(x.modules)
         /\ \A f \in files : f.id \in deleted_node_ids(x) <=> f.id \notin Ids(x.files)
         /\ \A s \in symbols : s.id \in deleted_node_ids(x) <=> s.id \notin Ids(x.symbols)
         /\ \A a \in apis : a.id \in deleted_node_ids(x) <=> a.id \notin Ids(x.apis)
         /\ \A o \in objects : o.id \in deleted_node_ids(x) <=> o.id \notin Ids(x.objects)
<1> DEFINE goneModules == Ids(modules) \ Ids(x.modules)
           goneFiles == Ids(files) \ Ids(x.files)
           goneSymbols == Ids(symbols) \ Ids(x.symbols)
           goneApis == Ids(apis) \ Ids(x.apis)
           goneObjects == Ids(objects) \ Ids(x.objects)
<1>1. deleted_node_ids(x) =
        goneModules \cup goneFiles \cup goneSymbols \cup goneApis \cup goneObjects
  <2>1. Ids(modules_to_remove(x)) = goneModules
    BY DEF modules_to_remove, Ids
  <2>2. Ids(files_to_remove(x)) = goneFiles
    BY DEF files_to_remove, Ids
  <2> QED
    BY <2>1, <2>2 DEF deleted_node_ids, StaleIds
<1>2. /\ Ids(modules) \subseteq Ids(AllModules)
      /\ Ids(files) \subseteq Ids(AllFiles)
      /\ Ids(symbols) \subseteq Ids(AllSymbols)
      /\ Ids(apis) \subseteq Ids(AllApis)
      /\ Ids(objects) \subseteq Ids(AllObjects)
  BY DEF TypeOK, Ids
<1>3. \A T : \A r \in T : r.id \in Ids(T)
  BY DEF Ids
<1> QED
  BY <1>1, <1>2, <1>3, KindsApart

\* What the deletes and appends do to the nodes of one kind.
LEMMA NodesOfSync ==
  ASSUME NEW T, NEW U, NEW batch, NEW new, NEW kind, NEW gone,
         Ids(U) = Ids(batch),
         Ids(new) = Ids(batch) \ Ids(T),
         \A r \in T : r.id \in gone <=> r.id \notin Ids(batch)
  PROVE  NodesOf(U, kind) = WithoutIds(NodesOf(T, kind), gone) \cup NodesOf(new, kind)
<1> DEFINE N(i) == [id |-> i, kind |-> kind]
<1>1. \A S : NodesOf(S, kind) = {N(i) : i \in Ids(S)}
  BY DEF NodesOf, Node, Ids
<1>2. WithoutIds(NodesOf(T, kind), gone) = {N(i) : i \in Ids(T) \cap Ids(batch)}
  <2>1. \A i : N(i).id = i
    OBVIOUS
  <2>2. \A i \in Ids(T) : i \in gone <=> i \notin Ids(batch)
    BY DEF Ids
  <2> HIDE DEF N
  <2> QED
    BY <1>1, <2>1, <2>2 DEF WithoutIds
<1>3. Ids(U) = (Ids(T) \cap Ids(batch)) \cup Ids(new)
  OBVIOUS
<1> HIDE DEF N
<1> QED
  BY <1>1, <1>2, <1>3

\* After every run the graph has exactly one node for each row that has nodes,
\* whatever mixture of files moved, vanished or came back since the last one.
THEOREM NodesMirror == Spec => []NodesMirrorRows
<1>1. Init => NodesMirrorRows
  BY DEF Init, NodesMirrorRows, RowNodes
<1>2. TypeOK /\ NodesMirrorRows /\ [Next]_vars => NodesMirrorRows'
  <2> SUFFICES ASSUME TypeOK, NodesMirrorRows, NEW x \in Extractions, sync_current_index(x)
               PROVE  NodesMirrorRows'
    <3>1. CASE UNCHANGED vars
      BY <3>1 DEF NodesMirrorRows, RowNodes, vars, rows, graph
    <3> QED
      BY <3>1 DEF Next
  <2> DEFINE gone == deleted_node_ids(x)
  <2>0. /\ \A r \in modules : r.id \in gone <=> r.id \notin Ids(x.modules)
        /\ \A r \in files : r.id \in gone <=> r.id \notin Ids(x.files)
        /\ \A r \in symbols : r.id \in gone <=> r.id \notin Ids(x.symbols)
        /\ \A r \in apis : r.id \in gone <=> r.id \notin Ids(x.apis)
        /\ \A r \in objects : r.id \in gone <=> r.id \notin Ids(x.objects)
    BY DeletedByKind
  <2> HIDE DEF gone
  <2>1. NodesOf(modules', "module") =
          WithoutIds(NodesOf(modules, "module"), gone) \cup NodesOf(modules_to_add(x), "module")
    <3>1. Ids(modules_to_add(x)) = Ids(x.modules) \ Ids(modules)
      BY DEF modules_to_add, NewRows, Ids
    <3>2. Ids(modules') = Ids(x.modules)
      BY DEF sync_current_index, sync_index_rows, Ids, WithoutIds, NewRows,
             modules_to_add, modules_to_remove, modules_to_reprefix
    <3> QED
      BY <2>0, <3>1, <3>2, NodesOfSync
  <2>2. NodesOf(files', "file") =
          WithoutIds(NodesOf(files, "file"), gone) \cup NodesOf(files_to_add(x), "file")
    <3>1. Ids(files_to_add(x)) = Ids(x.files) \ Ids(files)
      BY DEF files_to_add, NewRows, Ids
    <3>2. Ids(files') = Ids(x.files)
      BY DEF sync_current_index, sync_index_rows, Ids, WithoutIds, NewRows,
             files_to_add, files_to_remove, files_to_update
    <3> QED
      BY <2>0, <3>1, <3>2, NodesOfSync
  <2>3. NodesOf(symbols', "symbol") =
          WithoutIds(NodesOf(symbols, "symbol"), gone) \cup NodesOf(symbols_to_add(x), "symbol")
    <3>1. Ids(symbols_to_add(x)) = Ids(x.symbols) \ Ids(symbols)
      BY MissingIds DEF symbols_to_add
    <3>2. Ids(symbols') = Ids(x.symbols)
      BY TableSync DEF sync_current_index, sync_code_facts
    <3> QED
      BY <2>0, <3>1, <3>2, NodesOfSync
  <2>4. NodesOf(apis', "api") =
          WithoutIds(NodesOf(apis, "api"), gone) \cup NodesOf(apis_to_add(x), "api")
    <3>1. Ids(apis_to_add(x)) = Ids(x.apis) \ Ids(apis)
      BY MissingIds DEF apis_to_add
    <3>2. Ids(apis') = Ids(x.apis)
      BY TableSync DEF sync_current_index, sync_code_facts
    <3> QED
      BY <2>0, <3>1, <3>2, NodesOfSync
  <2> DEFINE ObjectNodes(T) == {Node(o, o.kind) : o \in T}
  <2>5. ObjectNodes(objects') =
          WithoutIds(ObjectNodes(objects), gone) \cup ObjectNodes(objects_to_add(x))
    <3>1. objects' = WithoutIds(objects, StaleIds(objects, x.objects)) \cup objects_to_add(x)
      BY DEF sync_current_index, sync_code_facts, Synced, objects_to_add
    <3>2. \A o \in objects : o.id \in gone <=> o.id \in StaleIds(objects, x.objects)
      BY <2>0 DEF StaleIds, Ids
    <3>3. \A o : Node(o, o.kind).id = o.id
      BY DEF Node
    <3>4. WithoutIds(ObjectNodes(objects), gone) =
            ObjectNodes(WithoutIds(objects, StaleIds(objects, x.objects)))
      BY <3>2, <3>3 DEF WithoutIds
    <3> QED
      BY <3>1, <3>4
  <2>6. nodes' = WithoutIds(nodes, gone) \cup appended_nodes(x)
    BY DEF sync_current_index, sync_graph, kept_nodes, gone
  <2>7. appended_nodes(x) =
          NodesOf(modules_to_add(x), "module") \cup NodesOf(files_to_add(x), "file")
          \cup NodesOf(symbols_to_add(x), "symbol") \cup NodesOf(apis_to_add(x), "api")
          \cup ObjectNodes(objects_to_add(x))
    BY DEF appended_nodes, NodesOf
  <2>8. nodes = NodesOf(modules, "module") \cup NodesOf(files, "file")
                \cup NodesOf(symbols, "symbol") \cup NodesOf(apis, "api") \cup ObjectNodes(objects)
    BY DEF NodesMirrorRows, RowNodes, NodesOf
  <2>9. RowNodes' =
          NodesOf(modules', "module") \cup NodesOf(files', "file")
          \cup NodesOf(symbols', "symbol") \cup NodesOf(apis', "api") \cup ObjectNodes(objects')
    BY DEF RowNodes, NodesOf
  <2> HIDE DEF ObjectNodes
  <2> QED
    BY <2>1, <2>2, <2>3, <2>4, <2>5, <2>6, <2>7, <2>8, <2>9 DEF NodesMirrorRows, WithoutIds
<1> QED
  BY <1>1, <1>2, TypeCorrect, PTL DEF Spec

--------------------------------------------------------------------------------
(* The edges of the graph. *)

\* An access edge is the edge of some access; no delete of the other edges
\* names its id.
AccessShape ==
  \A e \in edges : e.kind \in AccessKinds =>
    \E s, t : e = Edge(<<"access", s, t, e.kind>>, s, t, e.kind)

GoneEdgeIds(x) == deleted_edge_ids(x) \cup stale_access_ids(x)

\* Ids of edges of different kinds differ.
LEMMA StaleAccess ==
  ASSUME AccessShape, NEW x, NEW i \in stale_access_ids(x)
  PROVE  \E s, t, k : i = <<"access", s, t, k>>
BY DEF AccessShape, stale_access_ids, access_edges, Ids, Edge

\* The delete of a declares, calls, exposes or handles edge names the edges of the rows
\* that vanished and no other edge.
LEMMA CodeEdgesGone ==
  ASSUME AccessShape, NEW x
  PROVE  /\ \A s \in symbols : DeclaresEdge(s).id \in GoneEdgeIds(x)
                              <=> s.id \in StaleIds(symbols, x.symbols)
         /\ \A c \in calls : CallsEdge(c).id \in GoneEdgeIds(x)
                              <=> c.id \in StaleIds(calls, x.calls)
         /\ \A a \in apis : ExposesEdge(a).id \in GoneEdgeIds(x)
                              <=> a.id \in StaleIds(apis, x.apis)
         /\ \A a \in apis : HandlesEdge(a).id \in GoneEdgeIds(x)
                              <=> a.id \in StaleIds(apis, x.apis)
<1>1. \A i, s, t, k : /\ <<"declares", i>> # <<"access", s, t, k>>
                      /\ <<"calls", i>> # <<"access", s, t, k>>
                      /\ <<"exposes", i>> # <<"access", s, t, k>>
                      /\ <<"handles", i>> # <<"access", s, t, k>>
  OBVIOUS
<1>2. \A s : DeclaresEdge(s).id \in deleted_edge_ids(x)
               <=> s.id \in StaleIds(symbols, x.symbols)
  BY DEF DeclaresEdge, Edge, code_edge_id, deleted_edge_ids, deleted_file_edge_ids,
         deleted_dependency_edge_ids, deleted_code_edge_ids, contains_edge_id,
         depends_on_edge_id, depends_on_file_edge_id
<1>3. \A c : CallsEdge(c).id \in deleted_edge_ids(x) <=> c.id \in StaleIds(calls, x.calls)
  BY DEF CallsEdge, Edge, code_edge_id, deleted_edge_ids, deleted_file_edge_ids,
         deleted_dependency_edge_ids, deleted_code_edge_ids, contains_edge_id,
         depends_on_edge_id, depends_on_file_edge_id
<1>4. \A a : ExposesEdge(a).id \in deleted_edge_ids(x) <=> a.id \in StaleIds(apis, x.apis)
  BY DEF ExposesEdge, Edge, code_edge_id, deleted_edge_ids, deleted_file_edge_ids,
         deleted_dependency_edge_ids, deleted_code_edge_ids, contains_edge_id,
         depends_on_edge_id, depends_on_file_edge_id
<1>5. \A a : HandlesEdge(a).id \in deleted_edge_ids(x) <=> a.id \in StaleIds(apis, x.apis)
  BY DEF HandlesEdge, Edge, code_edge_id, deleted_edge_ids, deleted_file_edge_ids,
         deleted_dependency_edge_ids, deleted_code_edge_ids, contains_edge_id,
         depends_on_edge_id, depends_on_file_edge_id
<1>6. \A r : /\ DeclaresEdge(r).id = <<"declares", r.id>>
             /\ CallsEdge(r).id = <<"calls", r.id>>
             /\ ExposesEdge(r).id = <<"exposes", r.id>>
             /\ HandlesEdge(r).id = <<"handles", r.id>>
  BY DEF DeclaresEdge, CallsEdge, ExposesEdge, HandlesEdge, Edge, code_edge_id
<1> QED
  BY <1>1, <1>2, <1>3, <1>4, <1>5, <1>6, StaleAccess DEF GoneEdgeIds

\* ... and so do the deletes of the two edges of a dependency.
LEMMA DependencyEdgesGone ==
  ASSUME AccessShape, NEW x
  PROVE  \A d \in deps : /\ ModuleEdge(d).id \in GoneEdgeIds(x)
                             <=> d.id \in StaleIds(deps, x.deps)
                         /\ FileEdge(d).id \in GoneEdgeIds(x)
                             <=> d.id \in StaleIds(deps, x.deps)
<1> SUFFICES ASSUME NEW d \in deps
             PROVE  /\ ModuleEdge(d).id \in GoneEdgeIds(x) <=> d.id \in StaleIds(deps, x.deps)
                    /\ FileEdge(d).id \in GoneEdgeIds(x) <=> d.id \in StaleIds(deps, x.deps)
  OBVIOUS
<1>1. /\ ModuleEdge(d).id = <<"depends_on", d.sourceModule, d.targetModule, d.id>>
      /\ FileEdge(d).id = <<"depends_on_file", d.id>>
  BY DEF ModuleEdge, FileEdge, Edge, depends_on_edge_id, depends_on_file_edge_id
<1>2. /\ ModuleEdge(d).id \notin stale_access_ids(x)
      /\ FileEdge(d).id \notin stale_access_ids(x)
  BY <1>1, StaleAccess
<1>3. d.id \in StaleIds(deps, x.deps) <=> \E r \in dependencies_to_remove(x) : r.id = d.id
  BY DEF StaleIds, Ids, dependencies_to_remove
<1>4. d.id \in StaleIds(deps, x.deps) <=> d \in dependencies_to_remove(x)
  BY DEF StaleIds, Ids, dependencies_to_remove
<1>5. FileEdge(d).id \in deleted_edge_ids(x)
        <=> \E r \in dependencies_to_remove(x) : r.id = d.id
  BY <1>1 DEF code_edge_id, deleted_edge_ids, deleted_file_edge_ids,
              deleted_dependency_edge_ids, deleted_code_edge_ids, contains_edge_id,
              depends_on_edge_id, depends_on_file_edge_id
<1>6. ModuleEdge(d).id \in deleted_edge_ids(x)
        <=> \E r \in dependencies_to_remove(x) :
              /\ r.id = d.id
              /\ r.sourceModule = d.sourceModule
              /\ r.targetModule = d.targetModule
  BY <1>1 DEF code_edge_id, deleted_edge_ids, deleted_file_edge_ids,
              deleted_dependency_edge_ids, deleted_code_edge_ids, contains_edge_id,
              depends_on_edge_id, depends_on_file_edge_id
<1> QED
  BY <1>2, <1>3, <1>4, <1>5, <1>6 DEF GoneEdgeIds

\* The containment edge of a file is deleted when the file vanished or moved to
\* another module, in the second case under its old module.
LEMMA ContainsEdgesGone ==
  ASSUME AccessShape, Keyed(files), NEW x
  PROVE  \A f \in files : ContainsEdge(f).id \in GoneEdgeIds(x)
           <=> f \in files_to_remove(x) \/ \E p \in moved(x) : p[2] = f
<1> SUFFICES ASSUME NEW f \in files
             PROVE  ContainsEdge(f).id \in GoneEdgeIds(x)
                      <=> f \in files_to_remove(x) \/ \E p \in moved(x) : p[2] = f
  OBVIOUS
<1>1. ContainsEdge(f).id = <<"contains", f.module, f.id>>
  BY DEF ContainsEdge, Edge, contains_edge_id
<1>2. ContainsEdge(f).id \notin stale_access_ids(x)
  <2>1. \A s, t, k : <<"contains", f.module, f.id>> # <<"access", s, t, k>>
    OBVIOUS
  <2> QED
    BY <1>1, <2>1, StaleAccess
<1>3. ContainsEdge(f).id \in deleted_edge_ids(x)
        <=> \/ \E g \in files_to_remove(x) : g.id = f.id /\ g.module = f.module
            \/ \E p \in moved(x) : p[2].id = f.id /\ p[2].module = f.module
  BY <1>1 DEF code_edge_id, deleted_edge_ids, deleted_file_edge_ids,
              deleted_dependency_edge_ids, deleted_code_edge_ids, contains_edge_id,
              depends_on_edge_id, depends_on_file_edge_id
<1>4. files_to_remove(x) \subseteq files /\ \A p \in moved(x) : p[2] \in files
  BY DEF files_to_remove, moved, files_to_update
<1> QED
  BY <1>2, <1>3, <1>4 DEF GoneEdgeIds, Keyed

\* The containment edges after a sync.
LEMMA ContainsSync ==
  ASSUME AccessShape, PrimaryKeys, NEW x \in Extractions, sync_current_index(x)
  PROVE  {ContainsEdge(f) : f \in files'} =
           WithoutIds({ContainsEdge(f) : f \in files}, GoneEdgeIds(x))
           \cup {ContainsEdge(f) : f \in files_to_add(x)}
           \cup {ContainsEdge(p[1]) : p \in moved(x)}
<1>1. Keyed(files) /\ Keyed(x.files)
  BY ExtractionsAssumption DEF PrimaryKeys, WellFormed
<1>2. files' = WithoutIds(files, Ids(files_to_remove(x)) \cup {p[1].id : p \in files_to_update(x)})
                 \cup files_to_add(x) \cup {p[1] : p \in files_to_update(x)}
  BY DEF sync_current_index, sync_index_rows
<1>3. \A p \in files_to_update(x) \ moved(x) : ContainsEdge(p[1]) = ContainsEdge(p[2])
  BY DEF moved, files_to_update, ContainsEdge, contains_edge_id
<1>4. \A f \in files : ContainsEdge(f).id \in GoneEdgeIds(x)
           <=> f \in files_to_remove(x) \/ \E p \in moved(x) : p[2] = f
  BY <1>1, ContainsEdgesGone
<1>5. ASSUME NEW e \in {ContainsEdge(f) : f \in files'}
      PROVE  e \in WithoutIds({ContainsEdge(f) : f \in files}, GoneEdgeIds(x))
                  \cup {ContainsEdge(f) : f \in files_to_add(x)}
                  \cup {ContainsEdge(p[1]) : p \in moved(x)}
  <2>1. PICK f \in files' : e = ContainsEdge(f)
    OBVIOUS
  <2>2. CASE f \in files_to_add(x)
    BY <2>1, <2>2
  <2>3. CASE \E p \in moved(x) : f = p[1]
    BY <2>1, <2>3
  <2>4. CASE \E p \in files_to_update(x) \ moved(x) : f = p[1]
    <3>1. PICK p \in files_to_update(x) \ moved(x) : f = p[1]
      BY <2>4
    <3>2. p[2] \in files /\ p[2].id = p[1].id /\ p[1] \in x.files
      BY DEF files_to_update
    <3>3. p[2] \notin files_to_remove(x)
      BY <3>2 DEF files_to_remove, Ids
    <3>4. \A q \in moved(x) : q[2] # p[2]
      BY <1>1, <3>2 DEF moved, files_to_update, Keyed
    <3> QED
      BY <1>3, <1>4, <2>1, <3>1, <3>2, <3>3, <3>4 DEF WithoutIds
  <2>5. CASE f \in WithoutIds(files, Ids(files_to_remove(x))
                                       \cup {p[1].id : p \in files_to_update(x)})
    <3>1. f \in files /\ f \notin files_to_remove(x) /\ \A p \in files_to_update(x) : p[1].id # f.id
      BY <2>5 DEF WithoutIds, Ids
    <3>2. \A p \in moved(x) : p[2] # f
      BY <3>1 DEF moved, files_to_update
    <3> QED
      BY <1>4, <2>1, <3>1, <3>2 DEF WithoutIds
  <2> QED
    BY <1>2, <2>2, <2>3, <2>4, <2>5
<1>6. ASSUME NEW f \in files, ContainsEdge(f).id \notin GoneEdgeIds(x)
      PROVE  ContainsEdge(f) \in {ContainsEdge(g) : g \in files'}
  <2>1. f \notin files_to_remove(x) /\ \A p \in moved(x) : p[2] # f
    BY <1>4, <1>6
  <2>2. CASE \E p \in files_to_update(x) : p[2] = f
    BY <1>2, <1>3, <2>1, <2>2
  <2>3. CASE \A p \in files_to_update(x) : p[2] # f
    <3>1. \A p \in files_to_update(x) : p[1].id # f.id
      BY <1>1, <2>3 DEF files_to_update, Keyed
    <3>2. f.id \notin Ids(files_to_remove(x))
      BY <1>1, <2>1 DEF files_to_remove, Keyed, Ids
    <3> QED
      BY <1>2, <3>1, <3>2 DEF WithoutIds
  <2> QED
    BY <2>2, <2>3
<1>7. moved(x) \subseteq files_to_update(x)
  BY DEF moved
<1> QED
  BY <1>2, <1>5, <1>6, <1>7 DEF WithoutIds

\* Every edge derived from a row is of a mirrored kind; the other appended
\* edges are not.
LEMMA AppendedKinds ==
  ASSUME NEW x \in Extractions
  PROVE  /\ {e \in appended_edges(x) : e.kind \in MirroredKinds} =
              {ContainsEdge(f) : f \in files_to_add(x)}
              \cup {ContainsEdge(p[1]) : p \in moved(x)}
              \cup {ModuleEdge(d) : d \in dependencies_to_add(x)}
              \cup FileEdges(dependencies_to_add(x))
              \cup {DeclaresEdge(s) : s \in symbols_to_add(x)}
              \cup CallsEdges(calls_to_add(x))
              \cup {ExposesEdge(a) : a \in apis_to_add(x)}
         /\ {e \in appended_edges(x) : e.kind \in AccessKinds} = accesses_to_add(x)
<1>1. \A r : /\ ContainsEdge(r).kind = "contains" /\ ModuleEdge(r).kind = "depends_on"
             /\ FileEdge(r).kind = "depends_on" /\ DeclaresEdge(r).kind = "declares"
             /\ CallsEdge(r).kind = "calls" /\ ExposesEdge(r).kind = "exposes"
             /\ HandlesEdge(r).kind = "handles" /\ AccessEdge(r).kind = r.kind
  BY DEF ContainsEdge, ModuleEdge, FileEdge, DeclaresEdge, CallsEdge, ExposesEdge,
         HandlesEdge, AccessEdge, Edge
<1>2. \A e \in accesses_to_add(x) : e.kind \in AccessKinds
  BY <1>1, ExtractionsAssumption DEF WellFormed, accesses_to_add, NewRows
<1>3. \A k \in AccessKinds : k \notin MirroredKinds /\ k # "handles"
  BY DEF AccessKinds, MirroredKinds
<1>4. {"contains", "depends_on", "declares", "calls", "exposes"} = MirroredKinds
      /\ "handles" \notin MirroredKinds
  BY DEF MirroredKinds
<1>5. \A D : \A e \in FileEdges(D) : e.kind = "depends_on"
  BY <1>1 DEF FileEdges
<1>6. \A C : \A e \in CallsEdges(C) : e.kind = "calls"
  BY <1>1 DEF CallsEdges
<1> QED
  BY <1>1, <1>2, <1>3, <1>4, <1>5, <1>6 DEF appended_edges

\* The mirrored edges and the shape of the others, inductive with the keys.
EdgesInv == EdgesMirrorRows /\ AccessShape

LEMMA EdgesInvariance == Spec => []EdgesInv
<1>1. Init => EdgesInv
  BY DEF EdgesInv, Init, EdgesMirrorRows, RowEdges, FileEdges, CallsEdges, AccessShape
<1>2. PrimaryKeys /\ EdgesInv /\ [Next]_vars => EdgesInv'
  <2> SUFFICES ASSUME PrimaryKeys, EdgesInv, NEW x \in Extractions, sync_current_index(x)
               PROVE  EdgesInv'
    <3>1. CASE UNCHANGED vars
      BY <3>1 DEF EdgesInv, EdgesMirrorRows, RowEdges, FileEdges, CallsEdges, AccessShape,
                  vars, rows, graph
    <3> QED
      BY <3>1 DEF Next
  <2> USE DEF EdgesInv
  <2> DEFINE gone == GoneEdgeIds(x)
  <2>1. edges' = WithoutIds(edges, gone) \cup appended_edges(x)
    BY DEF sync_current_index, sync_graph, kept_edges, GoneEdgeIds
  <2>2. AccessShape'
    <3>1. \A e \in accesses_to_add(x) :
            \E s, t : e = Edge(<<"access", s, t, e.kind>>, s, t, e.kind)
      BY DEF accesses_to_add, NewRows, AccessEdge, Edge
    <3> QED
      BY <2>1, <3>1, AppendedKinds DEF AccessShape, WithoutIds
  <2>3. {ContainsEdge(f) : f \in files'} =
          WithoutIds({ContainsEdge(f) : f \in files}, gone)
          \cup {ContainsEdge(f) : f \in files_to_add(x)}
          \cup {ContainsEdge(p[1]) : p \in moved(x)}
    BY ContainsSync
  <2>4. deps' = WithoutIds(deps, StaleIds(deps, x.deps)) \cup dependencies_to_add(x)
    BY DEF sync_current_index, sync_index_rows, Synced, dependencies_to_add
  <2>5. {ModuleEdge(d) : d \in deps'} =
          WithoutIds({ModuleEdge(d) : d \in deps}, gone)
          \cup {ModuleEdge(d) : d \in dependencies_to_add(x)}
    BY <2>4, DependencyEdgesGone DEF WithoutIds
  <2>6. FileEdges(deps') =
          WithoutIds(FileEdges(deps), gone) \cup FileEdges(dependencies_to_add(x))
    BY <2>4, DependencyEdgesGone DEF WithoutIds, FileEdges
  <2>7. {DeclaresEdge(s) : s \in symbols'} =
          WithoutIds({DeclaresEdge(s) : s \in symbols}, gone)
          \cup {DeclaresEdge(s) : s \in symbols_to_add(x)}
    <3>1. symbols' = WithoutIds(symbols, StaleIds(symbols, x.symbols)) \cup symbols_to_add(x)
      BY DEF sync_current_index, sync_code_facts, Synced, symbols_to_add
    <3> QED
      BY <3>1, CodeEdgesGone DEF WithoutIds
  <2>8. CallsEdges(calls') =
          WithoutIds(CallsEdges(calls), gone) \cup CallsEdges(calls_to_add(x))
    <3>1. calls' = WithoutIds(calls, StaleIds(calls, x.calls)) \cup calls_to_add(x)
      BY DEF sync_current_index, sync_code_facts, Synced, calls_to_add
    <3> QED
      BY <3>1, CodeEdgesGone DEF WithoutIds, CallsEdges
  <2>9. {ExposesEdge(a) : a \in apis'} =
          WithoutIds({ExposesEdge(a) : a \in apis}, gone)
          \cup {ExposesEdge(a) : a \in apis_to_add(x)}
    <3>1. apis' = WithoutIds(apis, StaleIds(apis, x.apis)) \cup apis_to_add(x)
      BY DEF sync_current_index, sync_code_facts, Synced, apis_to_add
    <3> QED
      BY <3>1, CodeEdgesGone DEF WithoutIds
  <2>10. {e \in edges' : e.kind \in MirroredKinds} =
           WithoutIds(RowEdges, gone) \cup {e \in appended_edges(x) : e.kind \in MirroredKinds}
    BY <2>1 DEF EdgesMirrorRows, WithoutIds
  <2> HIDE DEF gone
  <2>11. WithoutIds(RowEdges, gone) =
           WithoutIds({ContainsEdge(f) : f \in files}, gone)
           \cup WithoutIds({ModuleEdge(d) : d \in deps}, gone)
           \cup WithoutIds(FileEdges(deps), gone)
           \cup WithoutIds({DeclaresEdge(s) : s \in symbols}, gone)
           \cup WithoutIds(CallsEdges(calls), gone)
           \cup WithoutIds({ExposesEdge(a) : a \in apis}, gone)
    BY DEF RowEdges, WithoutIds
  <2>12. EdgesMirrorRows'
    BY <2>3, <2>5, <2>6, <2>7, <2>8, <2>9, <2>10, <2>11, AppendedKinds
    DEF EdgesMirrorRows, RowEdges
  <2> QED
    BY <2>2, <2>12
<1> QED
  BY <1>1, <1>2, KeysHold, PTL DEF Spec

\* After every run the containment, dependency, declaration, call and exposure
\* edges are exactly those of the persisted rows: a delete that recomputes an
\* edge id from persisted columns neither misses its edge nor hits another.
THEOREM EdgesMirror == Spec => []EdgesMirrorRows
<1>1. EdgesInv => EdgesMirrorRows
  BY DEF EdgesInv
<1> QED
  BY <1>1, EdgesInvariance, PTL

\* The graph tables and the rows say the same after any history of runs.
THEOREM GraphMirrors == Spec => []GraphMirrorsRows
<1>1. NodesMirrorRows /\ EdgesMirrorRows => GraphMirrorsRows
  BY DEF GraphMirrorsRows
<1> QED
  BY <1>1, NodesMirror, EdgesMirror, PTL

--------------------------------------------------------------------------------
(* No edge is left without what it hangs on. *)

\* The modules and files after a sync are those of the extraction: every row
\* that differs is found by its hash, its module or its prefix.
LEMMA TreeSync ==
  ASSUME TypeOK, PrimaryKeys, NEW x \in Extractions, sync_current_index(x)
  PROVE  modules' = x.modules /\ files' = x.files
<1>1. Keyed(files) /\ Keyed(modules) /\ Keyed(x.files) /\ Keyed(x.modules)
  BY ExtractionsAssumption DEF PrimaryKeys, WellFormed
<1>2. modules' = x.modules
  <2>1. modules' = WithoutIds(modules, Ids(modules_to_remove(x) \cup modules_to_reprefix(x)))
                     \cup modules_to_add(x) \cup modules_to_reprefix(x)
    BY DEF sync_current_index, sync_index_rows
  <2>2. ASSUME NEW m \in modules, NEW n \in x.modules, m.id = n.id, m.prefix = n.prefix
        PROVE  m = n
    BY <2>2, ColumnsAssumption DEF TypeOK, AllModules
  <2> QED
    BY <1>1, <2>1, <2>2, SMTT(30) DEF modules_to_remove, modules_to_reprefix, modules_to_add,
       NewRows, WithoutIds, Ids, Keyed
<1>3. files' = x.files
  <2>1. files' = WithoutIds(files, Ids(files_to_remove(x))
                                     \cup {p[1].id : p \in files_to_update(x)})
                   \cup files_to_add(x) \cup {p[1] : p \in files_to_update(x)}
    BY DEF sync_current_index, sync_index_rows
  <2>2. ASSUME NEW f \in files, NEW g \in x.files, f.id = g.id, f.hash = g.hash,
               f.module = g.module
        PROVE  f = g
    BY <2>2, ColumnsAssumption DEF TypeOK, AllFiles
  <2>3. \A p \in files_to_update(x) :
          /\ p[1] \in x.files /\ p[2] \in files /\ p[1].id = p[2].id /\ p = <<p[1], p[2]>>
    BY DEF files_to_update
  <2>4. ASSUME NEW f \in files'
        PROVE  f \in x.files
    <3>1. CASE f \in WithoutIds(files, Ids(files_to_remove(x))
                                         \cup {p[1].id : p \in files_to_update(x)})
      <4>1. /\ f \in files /\ f.id \notin Ids(files_to_remove(x))
            /\ \A p \in files_to_update(x) : p[1].id # f.id
        BY <3>1 DEF WithoutIds
      <4>2. PICK g \in x.files : g.id = f.id
        BY <4>1 DEF files_to_remove, Ids
      <4>3. <<g, f>> \notin files_to_update(x)
        BY <4>1, <4>2
      <4>4. g.hash = f.hash /\ g.module = f.module
        BY <4>1, <4>2, <4>3 DEF files_to_update
      <4> QED
        BY <2>2, <4>1, <4>2, <4>4
    <3>2. CASE f \in files_to_add(x)
      BY <3>2 DEF files_to_add, NewRows
    <3> QED
      BY <2>1, <2>3, <3>1, <3>2
  <2>5. ASSUME NEW g \in x.files
        PROVE  g \in files'
    <3>1. CASE g.id \notin Ids(files)
      BY <2>1, <3>1 DEF files_to_add, NewRows
    <3>2. CASE g.id \in Ids(files)
      <4>1. PICK f \in files : f.id = g.id
        BY <3>2 DEF Ids
      <4>2. CASE <<g, f>> \in files_to_update(x)
        BY <2>1, <4>2
      <4>3. CASE <<g, f>> \notin files_to_update(x)
        <5>1. f = g
          BY <2>2, <4>1, <4>3 DEF files_to_update
        <5>2. \A p \in files_to_update(x) : p[1].id # f.id
          BY <1>1, <2>3, <4>1, <4>3, <5>1 DEF Keyed
        <5>3. f.id \notin Ids(files_to_remove(x))
          BY <4>1, <5>1 DEF files_to_remove, Ids
        <5> QED
          BY <2>1, <5>1, <5>2, <5>3 DEF WithoutIds
      <4> QED
        BY <4>2, <4>3
    <3> QED
      BY <3>1, <3>2
  <2> QED
    BY <2>4, <2>5
<1> QED
  BY <1>2, <1>3

\* The symbols after a sync are declared in the files of the extraction.
LEMMA SymbolSync ==
  ASSUME TypeOK, NEW x \in Extractions, sync_current_index(x)
  PROVE  /\ {DeclaresEdge(s) : s \in symbols'} = {DeclaresEdge(s) : s \in x.symbols}
         /\ \A s \in symbols' : s.file \in Ids(x.files)
<1>1. symbols' \subseteq symbols \cup x.symbols /\ Ids(symbols') = Ids(x.symbols)
  BY TableSync DEF sync_current_index, sync_code_facts
<1>2. symbols' \cup x.symbols \subseteq AllSymbols
  BY <1>1 DEF TypeOK, AllSymbols
<1>3. \A s \in symbols' : \E t \in x.symbols : t.id = s.id
  BY <1>1 DEF Ids
<1>4. \A t \in x.symbols : \E s \in symbols' : t.id = s.id
  BY <1>1 DEF Ids
<1>5. \A s \in symbols', t \in x.symbols : s.id = t.id => s.file = t.file
  BY <1>2, ExtractionsAssumption
<1>6. \A s, t : s.id = t.id /\ s.file = t.file => DeclaresEdge(s) = DeclaresEdge(t)
  BY DEF DeclaresEdge
<1>7. \A t \in x.symbols : t.file \in Ids(x.files)
  BY ExtractionsAssumption DEF WellFormed
<1> QED
  BY <1>3, <1>4, <1>5, <1>6, <1>7

\* Every file is in a persisted module, every symbol in a persisted file.
Rooted ==
  /\ \A f \in files : f.module \in Ids(modules)
  /\ \A s \in symbols : s.file \in Ids(files)

LEMMA RootedInvariance == Spec => []Rooted
<1>1. Init => Rooted
  BY DEF Init, Rooted
<1>2. TypeOK /\ PrimaryKeys /\ Rooted /\ [Next]_vars => Rooted'
  <2> SUFFICES ASSUME TypeOK, PrimaryKeys, Rooted, NEW x \in Extractions, sync_current_index(x)
               PROVE  Rooted'
    <3>1. CASE UNCHANGED vars
      BY <3>1 DEF Rooted, Ids, vars, rows, graph
    <3> QED
      BY <3>1 DEF Next
  <2>1. \A f \in x.files : f.module \in Ids(x.modules)
    BY ExtractionsAssumption DEF WellFormed
  <2>2. \A s \in symbols' : s.file \in Ids(x.files)
    BY SymbolSync
  <2> QED
    BY <2>1, <2>2, TreeSync DEF Rooted, Ids
<1> QED
  BY <1>1, <1>2, TypeCorrect, KeysHold, PTL DEF Spec

\* The handles edges over one sync.
LEMMA HandlesSync ==
  ASSUME AccessShape, HandlesOwned, NEW x \in Extractions, sync_current_index(x)
  PROVE  HandlesOwned'
<1>1. edges' = WithoutIds(edges, GoneEdgeIds(x)) \cup appended_edges(x)
  BY DEF sync_current_index, sync_graph, kept_edges, GoneEdgeIds
<1>2. apis' = WithoutIds(apis, StaleIds(apis, x.apis)) \cup apis_to_add(x)
  BY DEF sync_current_index, sync_code_facts, Synced, apis_to_add
<1>3. \A a \in apis : HandlesEdge(a).id \in GoneEdgeIds(x) <=> a.id \in StaleIds(apis, x.apis)
  BY CodeEdgesGone
<1>4. \A a : /\ HandlesEdge(a).id = code_edge_id(a.id, "handles")
             /\ HandlesEdge(a).source = a.id
             /\ HandlesEdge(a).kind = "handles"
  BY DEF HandlesEdge, Edge
<1>5. \A e \in appended_edges(x) : e.kind = "handles" =>
        \E a \in handlers_to_link(x) : e = HandlesEdge(a)
  <2>1. \A r : /\ ContainsEdge(r).kind = "contains" /\ ModuleEdge(r).kind = "depends_on"
               /\ FileEdge(r).kind = "depends_on" /\ DeclaresEdge(r).kind = "declares"
               /\ CallsEdge(r).kind = "calls" /\ ExposesEdge(r).kind = "exposes"
    BY DEF ContainsEdge, ModuleEdge, FileEdge, DeclaresEdge, CallsEdge, ExposesEdge, Edge
  <2>2. \A e \in accesses_to_add(x) : e.kind # "handles"
    BY ExtractionsAssumption DEF WellFormed, accesses_to_add, NewRows, AccessKinds, AccessEdge, Edge
  <2> QED
    BY <2>1, <2>2 DEF appended_edges, FileEdges, CallsEdges
<1>6. \A a \in handlers_to_link(x) : \E b \in apis_to_add(x) : b.id = a.id
  <2>1. \A a \in handlers_to_link(x) : a \in apis_to_add(x) \/ a \in NewRows(x.apis, apis)
    BY FirstByIdSubset DEF handlers_to_link, WithoutIds, HandledRows
  <2>2. Ids(apis_to_add(x)) = Ids(NewRows(x.apis, apis))
    BY FirstByIdIds DEF apis_to_add
  <2> QED
    BY <2>1, <2>2 DEF Ids
<1>7. ASSUME NEW e \in edges', e.kind = "handles"
      PROVE  \E a \in apis' : e.id = code_edge_id(a.id, "handles") /\ e.source = a.id
  <2>1. CASE e \in appended_edges(x)
    BY <1>2, <1>4, <1>5, <1>6, <1>7, <2>1
  <2>2. CASE e \in WithoutIds(edges, GoneEdgeIds(x))
    <3>1. e \in edges /\ e.id \notin GoneEdgeIds(x)
      BY <2>2 DEF WithoutIds
    <3>2. PICK a \in apis : e.id = code_edge_id(a.id, "handles") /\ e.source = a.id
      BY <1>7, <3>1 DEF HandlesOwned
    <3>3. a.id \notin StaleIds(apis, x.apis)
      BY <1>3, <1>4, <3>1, <3>2
    <3> QED
      BY <1>2, <3>2, <3>3 DEF WithoutIds
  <2> QED
    BY <1>1, <2>1, <2>2
<1>8. ASSUME NEW a \in apis', a.handler # None
      PROVE  HandlesEdge(a) \in edges'
  <2>1. CASE a \in apis_to_add(x)
    BY <1>1, <1>8, <2>1 DEF handlers_to_link, appended_edges
  <2>2. CASE a \in WithoutIds(apis, StaleIds(apis, x.apis))
    BY <1>1, <1>3, <1>8, <2>2 DEF HandlesOwned, WithoutIds
  <2> QED
    BY <1>2, <2>1, <2>2
<1> QED
  BY <1>7, <1>8 DEF HandlesOwned

\* After any history of runs, containment and declaration edges connect nodes that
\* exist, and every handles edge starts at an API that is persisted, none of which
\* lost the edge to its handler.
THEOREM EdgesHang == Spec => []EdgesResolve
<1>1. Init => HandlesOwned
  BY DEF Init, HandlesOwned
<1>2. EdgesInv /\ HandlesOwned /\ [Next]_vars => HandlesOwned'
  <2>1. CASE UNCHANGED vars
    BY <2>1 DEF HandlesOwned, vars, rows, graph
  <2> QED
    BY <2>1, HandlesSync DEF EdgesInv, Next
<1>3. Rooted /\ NodesMirrorRows /\ EdgesMirrorRows => StructureResolves
  <2> SUFFICES ASSUME Rooted, NodesMirrorRows, EdgesMirrorRows,
                      NEW e \in edges, e.kind \in {"contains", "declares"}
               PROVE  e.source \in Ids(nodes) /\ e.target \in Ids(nodes)
    BY DEF StructureResolves
  <2>1. /\ \A m \in modules : m.id \in Ids(nodes)
        /\ \A f \in files : f.id \in Ids(nodes)
        /\ \A s \in symbols : s.id \in Ids(nodes)
    <3>1. \A r, k : Node(r, k).id = r.id
      BY DEF Node
    <3>2. /\ \A m \in modules : Node(m, "module") \in nodes
          /\ \A f \in files : Node(f, "file") \in nodes
          /\ \A s \in symbols : Node(s, "symbol") \in nodes
      BY DEF NodesMirrorRows, RowNodes
    <3>3. \A n \in nodes : n.id \in Ids(nodes)
      BY DEF Ids
    <3> QED
      BY <3>1, <3>2, <3>3
  <2>2. e \in RowEdges
    BY DEF EdgesMirrorRows, MirroredKinds
  <2>3. \/ \E f \in files : e = ContainsEdge(f)
        \/ \E s \in symbols : e = DeclaresEdge(s)
    BY <2>2 DEF RowEdges, FileEdges, CallsEdges, ContainsEdge, ModuleEdge, FileEdge, DeclaresEdge,
       CallsEdge, ExposesEdge, Edge
  <2>4. Ids(modules) \subseteq Ids(nodes) /\ Ids(files) \subseteq Ids(nodes)
    BY <2>1 DEF Ids
  <2>5. \A r : /\ ContainsEdge(r).source = r.module /\ ContainsEdge(r).target = r.id
               /\ DeclaresEdge(r).source = r.file /\ DeclaresEdge(r).target = r.id
    BY DEF ContainsEdge, DeclaresEdge, Edge
  <2> QED
    BY <2>1, <2>3, <2>4, <2>5 DEF Rooted
<1>4. StructureResolves /\ HandlesOwned => EdgesResolve
  BY DEF EdgesResolve
<1> QED
  BY <1>1, <1>2, <1>3, <1>4, RootedInvariance, NodesMirror, EdgesMirror, EdgesInvariance, PTL DEF Spec

--------------------------------------------------------------------------------
(* The differential sync implements the rebuild of IndexContract. *)

\* The access edges after a sync are those of the extraction.
LEMMA AccessSync ==
  ASSUME AccessShape, NEW x \in Extractions, sync_current_index(x)
  PROVE  {e \in edges' : e.kind \in AccessKinds} = {AccessEdge(a) : a \in x.accesses}
<1>1. edges' = WithoutIds(edges, GoneEdgeIds(x)) \cup appended_edges(x)
  BY DEF sync_current_index, sync_graph, kept_edges, GoneEdgeIds
<1>2. {e \in appended_edges(x) : e.kind \in AccessKinds} = accesses_to_add(x)
  BY AppendedKinds
<1>3. \A a : /\ AccessEdge(a).id = <<"access", a.source, a.target, a.kind>>
             /\ AccessEdge(a).kind = a.kind
  BY DEF AccessEdge, Edge
<1>4. \A a \in x.accesses : a.kind \in AccessKinds
  BY ExtractionsAssumption DEF WellFormed
<1>5. ASSUME NEW e \in access_edges, NEW a \in x.accesses, e.id = AccessEdge(a).id
      PROVE  e = AccessEdge(a)
  <2>1. PICK s, t : e = Edge(<<"access", s, t, e.kind>>, s, t, e.kind)
    BY DEF access_edges, AccessShape
  <2>2. e.id = <<"access", s, t, e.kind>>
    BY <2>1 DEF Edge
  <2>3. \A s1, t1, k1, s2, t2, k2 :
          <<"access", s1, t1, k1>> = <<"access", s2, t2, k2>> => s1 = s2 /\ t1 = t2 /\ k1 = k2
    OBVIOUS
  <2>4. <<"access", s, t, e.kind>> = <<"access", a.source, a.target, a.kind>>
    BY <1>3, <1>5, <2>2
  <2>5. s = a.source /\ t = a.target /\ e.kind = a.kind
    BY <2>3, <2>4
  <2> QED
    BY <2>1, <2>5 DEF AccessEdge
<1>6. \A a \in x.accesses : AccessEdge(a).id \notin GoneEdgeIds(x)
  <2>1. \A s, t, k, r1, r2, r3 : /\ <<"access", s, t, k>> # <<"contains", r1, r2>>
                                 /\ <<"access", s, t, k>> # <<"depends_on", r1, r2, r3>>
                                 /\ <<"access", s, t, k>> # <<"depends_on_file", r1>>
                                 /\ <<"access", s, t, k>> # <<"declares", r1>>
                                 /\ <<"access", s, t, k>> # <<"calls", r1>>
                                 /\ <<"access", s, t, k>> # <<"exposes", r1>>
                                 /\ <<"access", s, t, k>> # <<"handles", r1>>
    OBVIOUS
  <2>2. \A a : AccessEdge(a).id \notin deleted_edge_ids(x)
    BY <1>3, <2>1 DEF deleted_edge_ids, deleted_file_edge_ids, deleted_dependency_edge_ids,
       deleted_code_edge_ids, contains_edge_id, depends_on_edge_id, depends_on_file_edge_id,
       code_edge_id
  <2> QED
    BY <2>2 DEF GoneEdgeIds, stale_access_ids
<1>7. ASSUME NEW e \in edges', e.kind \in AccessKinds
      PROVE  \E a \in x.accesses : e = AccessEdge(a)
  <2>1. CASE e \in appended_edges(x)
    BY <1>2, <1>7, <2>1 DEF accesses_to_add, NewRows
  <2>2. CASE e \in WithoutIds(edges, GoneEdgeIds(x))
    <3>1. e \in access_edges /\ e.id \notin stale_access_ids(x)
      BY <1>7, <2>2 DEF WithoutIds, access_edges, GoneEdgeIds
    <3>2. PICK a \in x.accesses : e.id = AccessEdge(a).id
      BY <3>1 DEF stale_access_ids, Ids
    <3> QED
      BY <1>5, <3>1, <3>2
  <2> QED
    BY <1>1, <2>1, <2>2
<1>8. ASSUME NEW a \in x.accesses
      PROVE  AccessEdge(a) \in edges'
  <2>1. CASE AccessEdge(a).id \in Ids(access_edges)
    <3>1. AccessEdge(a) \in access_edges
      BY <1>5, <2>1 DEF Ids
    <3> QED
      BY <1>1, <1>6, <3>1 DEF access_edges, WithoutIds
  <2>2. CASE AccessEdge(a).id \notin Ids(access_edges)
    BY <1>1, <1>2, <2>2 DEF accesses_to_add, NewRows
  <2> QED
    BY <2>1, <2>2
<1> QED
  BY <1>3, <1>4, <1>7, <1>8

\* One sync from a state the invariants hold in, to one they hold in, is a rebuild.
LEMMA SyncRebuilds ==
  ASSUME TypeOK, PrimaryKeys, EdgesInv, NodesMirrorRows', EdgesMirrorRows',
         NEW x \in Extractions, sync_current_index(x)
  PROVE  Contract!Rebuild(x)
<1>1. files' = x.files /\ modules' = x.modules
  BY TreeSync
<1>2. health' = HealthOf(x)
  BY DEF sync_current_index, replace_health_facts, HealthOf
<1>3. /\ Ids(deps') = Ids(x.deps) /\ Ids(symbols') = Ids(x.symbols)
      /\ Ids(calls') = Ids(x.calls) /\ Ids(apis') = Ids(x.apis)
      /\ Ids(objects') = Ids(x.objects)
  BY TableSync DEF sync_current_index, sync_index_rows, sync_code_facts
<1>4. {e \in edges' : e.kind \in StructureKinds} = StructureOf(x)
  <2>1. {e \in edges' : e.kind \in AccessKinds} = {AccessEdge(a) : a \in x.accesses}
    BY AccessSync DEF EdgesInv
  <2>2. {DeclaresEdge(s) : s \in symbols'} = {DeclaresEdge(s) : s \in x.symbols}
    BY SymbolSync
  <2>3. {e \in edges' : e.kind \in MirroredKinds} = RowEdges'
    BY DEF EdgesMirrorRows
  <2>4. \A r : /\ ContainsEdge(r).kind = "contains" /\ ModuleEdge(r).kind = "depends_on"
               /\ FileEdge(r).kind = "depends_on" /\ DeclaresEdge(r).kind = "declares"
               /\ CallsEdge(r).kind = "calls" /\ ExposesEdge(r).kind = "exposes"
    BY DEF ContainsEdge, ModuleEdge, FileEdge, DeclaresEdge, CallsEdge, ExposesEdge, Edge
  <2>5. {e \in RowEdges' : e.kind \in {"contains", "declares"}} =
          {ContainsEdge(f) : f \in files'} \cup {DeclaresEdge(s) : s \in symbols'}
    <3>1. \A D : \A e \in FileEdges(D) : e.kind = "depends_on"
      BY <2>4 DEF FileEdges
    <3>2. \A C : \A e \in CallsEdges(C) : e.kind = "calls"
      BY <2>4 DEF CallsEdges
    <3> QED
      BY <2>4, <3>1, <3>2 DEF RowEdges
  <2>6. {"contains", "declares"} \subseteq MirroredKinds
    BY DEF MirroredKinds
  <2>7. {e \in edges' : e.kind \in {"contains", "declares"}} =
          {ContainsEdge(f) : f \in x.files} \cup {DeclaresEdge(s) : s \in x.symbols}
    BY <1>1, <2>2, <2>3, <2>5, <2>6
  <2> QED
    BY <2>1, <2>7 DEF StructureKinds, StructureOf
<1>5. Ids(nodes') = NodeIdsOf(x)
  <2>1. \A r, k : Node(r, k).id = r.id
    BY DEF Node
  <2>2. Ids(nodes') = Ids(modules') \cup Ids(files') \cup Ids(symbols') \cup Ids(apis')
                       \cup Ids(objects')
    BY <2>1 DEF NodesMirrorRows, RowNodes, Ids
  <2> QED
    BY <1>1, <1>3, <2>2 DEF NodeIdsOf
<1>6. snapshots' = Append(snapshots, SnapshotOf(x))
  BY DEF sync_current_index, append_snapshot_rows
<1> QED
  BY <1>1, <1>2, <1>3, <1>4, <1>5, <1>6 DEF Contract!Rebuild, Contract!Ids, Ids

\* Whatever was moved, renamed, broken, removed and added again over any number of
\* runs, what is seen of the index through ids and structure is what a rebuild from
\* the last extraction would give, with one snapshot for each run.
THEOREM Refines == Spec => ImplementsContract
<1>1. Init => Contract!Init
  BY DEF Init, Contract!Init, Ids
<1>2. /\ TypeOK /\ PrimaryKeys /\ EdgesInv
      /\ NodesMirrorRows' /\ EdgesMirrorRows'
      /\ [Next]_vars
      => [Contract!Next]_Contract!vars
  <2> SUFFICES ASSUME TypeOK, PrimaryKeys, EdgesInv, NodesMirrorRows', EdgesMirrorRows', [Next]_vars
               PROVE  Contract!Next \/ UNCHANGED Contract!vars
    OBVIOUS
  <2>1. CASE UNCHANGED vars
    BY <2>1 DEF vars, rows, graph, Contract!vars
  <2>2. ASSUME NEW x \in Extractions, sync_current_index(x)
        PROVE  Contract!Next
    BY <2>2, SyncRebuilds DEF Contract!Next
  <2> QED
    BY <2>1, <2>2 DEF Next
<1> QED
  BY <1>1, <1>2, TypeCorrect, KeysHold, EdgesInvariance, NodesMirror, EdgesMirror, PTL
  DEF Spec, ImplementsContract, Contract!Spec

--------------------------------------------------------------------------------
(* No run's transaction is poisoned by a primary key. *)

NeverConflicts == \A x \in Extractions : ~ KeyConflict(x)

\* Nodes appended under one id are one node, and their ids are new.
LEMMA NodesFit ==
  ASSUME TypeOK, NodesMirrorRows, NEW x \in Extractions
  PROVE  Keyed(appended_nodes(x)) /\ Ids(appended_nodes(x)) \cap Ids(nodes) = {}
<1>1. /\ Ids(modules) \subseteq Ids(AllModules)
      /\ Ids(files) \subseteq Ids(AllFiles)
      /\ Ids(symbols) \subseteq Ids(AllSymbols)
      /\ Ids(apis) \subseteq Ids(AllApis)
      /\ Ids(objects) \subseteq Ids(AllObjects)
  BY DEF TypeOK, Ids
<1>2. /\ \A m \in modules_to_add(x) : m.id \in Ids(AllModules) \ Ids(modules)
      /\ \A f \in files_to_add(x) : f.id \in Ids(AllFiles) \ Ids(files)
  BY DEF modules_to_add, files_to_add, NewRows, Ids, AllModules, AllFiles
<1>3. /\ \A s \in symbols_to_add(x) : s.id \in Ids(AllSymbols) \ Ids(symbols)
      /\ \A a \in apis_to_add(x) : a.id \in Ids(AllApis) \ Ids(apis)
      /\ \A o \in objects_to_add(x) : o.id \in Ids(AllObjects) \ Ids(objects)
  <2>1. /\ \A s \in symbols_to_add(x) : s \in x.symbols /\ s.id \notin Ids(symbols)
        /\ \A a \in apis_to_add(x) : a \in x.apis /\ a.id \notin Ids(apis)
        /\ \A o \in objects_to_add(x) : o \in x.objects /\ o.id \notin Ids(objects)
    BY FirstByIdSubset DEF symbols_to_add, apis_to_add, objects_to_add, NewRows
  <2>2. x.symbols \subseteq AllSymbols /\ x.apis \subseteq AllApis /\ x.objects \subseteq AllObjects
    BY DEF AllSymbols, AllApis, AllObjects
  <2> QED
    BY <2>1, <2>2 DEF Ids
<1>4. Keyed(objects_to_add(x))
  BY FirstByIdKeyed DEF objects_to_add
<1>5. \A r, k : Node(r, k).id = r.id
  BY DEF Node
<1>6. \A r, s, k : r.id = s.id => Node(r, k) = Node(s, k)
  BY DEF Node
<1>7. \A n \in nodes : n.id \in Ids(modules) \cup Ids(files) \cup Ids(symbols) \cup Ids(apis)
                               \cup Ids(objects)
  BY <1>5 DEF NodesMirrorRows, RowNodes, Ids
<1>8. ASSUME NEW n \in appended_nodes(x)
      PROVE  \/ \E m \in modules_to_add(x) : n = Node(m, "module")
             \/ \E f \in files_to_add(x) : n = Node(f, "file")
             \/ \E s \in symbols_to_add(x) : n = Node(s, "symbol")
             \/ \E a \in apis_to_add(x) : n = Node(a, "api")
             \/ \E o \in objects_to_add(x) : n = Node(o, o.kind)
  BY DEF appended_nodes
<1>9. \A n \in appended_nodes(x) : n.id \notin Ids(nodes)
  <2>1. \A i \in Ids(nodes) : i \in Ids(modules) \cup Ids(files) \cup Ids(symbols) \cup Ids(apis)
                               \cup Ids(objects)
    BY <1>7 DEF Ids
  <2> QED
    BY KindsApart, <1>1, <1>2, <1>3, <1>5, <1>8, <2>1
<1>10. ASSUME NEW n \in appended_nodes(x), NEW p \in appended_nodes(x), n.id = p.id
       PROVE  n = p
  <2>1. CASE \E m \in modules_to_add(x) : n = Node(m, "module")
    BY KindsApart, <1>2, <1>3, <1>5, <1>6, <1>8, <1>10, <2>1
  <2>2. CASE \E f \in files_to_add(x) : n = Node(f, "file")
    BY KindsApart, <1>2, <1>3, <1>5, <1>6, <1>8, <1>10, <2>2
  <2>3. CASE \E s \in symbols_to_add(x) : n = Node(s, "symbol")
    BY KindsApart, <1>2, <1>3, <1>5, <1>6, <1>8, <1>10, <2>3
  <2>4. CASE \E a \in apis_to_add(x) : n = Node(a, "api")
    BY KindsApart, <1>2, <1>3, <1>5, <1>6, <1>8, <1>10, <2>4
  <2>5. CASE \E o \in objects_to_add(x) : n = Node(o, o.kind)
    <3>1. \A o, q \in objects_to_add(x) : o.id = q.id => o = q
      BY <1>4 DEF Keyed
    <3> QED
      BY KindsApart, <1>2, <1>3, <1>5, <1>8, <1>10, <2>5, <3>1
  <2> QED
    BY <1>8, <2>1, <2>2, <2>3, <2>4, <2>5
<1> QED
  BY <1>9, <1>10 DEF Keyed, Ids

\* The head of an edge id tells what the edge was derived from.
LEMMA EdgeIds ==
  /\ \A r : ContainsEdge(r).id = <<"contains", r.module, r.id>>
  /\ \A r : ModuleEdge(r).id = <<"depends_on", r.sourceModule, r.targetModule, r.id>>
  /\ \A r : FileEdge(r).id = <<"depends_on_file", r.id>>
  /\ \A r : DeclaresEdge(r).id = <<"declares", r.id>>
  /\ \A r : CallsEdge(r).id = <<"calls", r.id>>
  /\ \A r : ExposesEdge(r).id = <<"exposes", r.id>>
  /\ \A r : HandlesEdge(r).id = <<"handles", r.id>>
  /\ \A r : AccessEdge(r).id = <<"access", r.source, r.target, r.kind>>
BY DEF ContainsEdge, ModuleEdge, FileEdge, DeclaresEdge, CallsEdge, ExposesEdge, HandlesEdge,
       AccessEdge, Edge, contains_edge_id, depends_on_edge_id, depends_on_file_edge_id, code_edge_id

\* What an appended edge is derived from.
LEMMA FreshEdges ==
  ASSUME NEW x \in Extractions, NEW e \in appended_edges(x)
  PROVE  \/ \E f \in files_to_add(x) : e = ContainsEdge(f)
         \/ \E p \in moved(x) : e = ContainsEdge(p[1])
         \/ \E d \in dependencies_to_add(x) : e = ModuleEdge(d)
         \/ \E d \in dependencies_to_add(x) : e = FileEdge(d)
         \/ \E s \in symbols_to_add(x) : e = DeclaresEdge(s)
         \/ \E c \in calls_to_add(x) : e = CallsEdge(c)
         \/ \E a \in apis_to_add(x) : e = ExposesEdge(a)
         \/ \E a \in handlers_to_link(x) : e = HandlesEdge(a)
         \/ \E a \in x.accesses : e = AccessEdge(a) /\ e \in accesses_to_add(x)
<1>1. \A n \in FileEdges(dependencies_to_add(x)) :
        \E d \in dependencies_to_add(x) : n = FileEdge(d)
  BY DEF FileEdges
<1>2. \A n \in CallsEdges(calls_to_add(x)) : \E c \in calls_to_add(x) : n = CallsEdge(c)
  BY DEF CallsEdges
<1>3. \A n \in accesses_to_add(x) : \E a \in x.accesses : n = AccessEdge(a)
  BY DEF accesses_to_add, NewRows
<1> QED
  BY <1>1, <1>2, <1>3 DEF appended_edges

\* The sync writes edges of these kinds only.
EdgeKinds == \A e \in edges : e.kind \in MirroredKinds \cup AccessKinds \cup {"handles"}

LEMMA EdgeKindsInvariance == Spec => []EdgeKinds
<1>1. Init => EdgeKinds
  BY DEF Init, EdgeKinds
<1>2. EdgeKinds /\ [Next]_vars => EdgeKinds'
  <2> SUFFICES ASSUME EdgeKinds, NEW x \in Extractions, sync_current_index(x)
               PROVE  EdgeKinds'
    <3>1. CASE UNCHANGED vars
      BY <3>1 DEF EdgeKinds, vars, rows, graph
    <3> QED
      BY <3>1 DEF Next
  <2>1. \A e \in accesses_to_add(x) : e.kind \in AccessKinds
    BY ExtractionsAssumption DEF WellFormed, accesses_to_add, NewRows, AccessEdge, Edge
  <2>2. \A e \in appended_edges(x) : e.kind \in MirroredKinds \cup AccessKinds \cup {"handles"}
    <3> SUFFICES ASSUME NEW e \in appended_edges(x)
                 PROVE  e.kind \in MirroredKinds \cup AccessKinds \cup {"handles"}
      OBVIOUS
    <3>1. CASE e \in accesses_to_add(x)
      BY <2>1, <3>1
    <3>2. CASE e.kind \in {"contains", "depends_on", "declares", "calls", "exposes", "handles"}
      BY <3>2 DEF MirroredKinds
    <3>3. \A r : /\ ContainsEdge(r).kind = "contains" /\ ModuleEdge(r).kind = "depends_on"
                 /\ FileEdge(r).kind = "depends_on" /\ DeclaresEdge(r).kind = "declares"
                 /\ CallsEdge(r).kind = "calls" /\ ExposesEdge(r).kind = "exposes"
                 /\ HandlesEdge(r).kind = "handles"
      BY DEF ContainsEdge, ModuleEdge, FileEdge, DeclaresEdge, CallsEdge, ExposesEdge, HandlesEdge, Edge
    <3> QED
      BY <3>1, <3>2, <3>3, FreshEdges
  <2>3. edges' = kept_edges(x) \cup appended_edges(x) /\ kept_edges(x) \subseteq edges
    BY DEF sync_current_index, sync_graph, kept_edges, WithoutIds
  <2> QED
    BY <2>2, <2>3 DEF EdgeKinds
<1> QED
  BY <1>1, <1>2, PTL DEF Spec

\* An edge tells by its id which row it was derived from.
LEMMA OldEdges ==
  ASSUME EdgesInv, EdgeKinds, HandlesOwned, NEW e \in edges
  PROVE  \/ \E f \in files : e.id = <<"contains", f.module, f.id>>
         \/ \E d \in deps : e.id = <<"depends_on", d.sourceModule, d.targetModule, d.id>>
         \/ \E d \in deps : e.id = <<"depends_on_file", d.id>>
         \/ \E s \in symbols : e.id = <<"declares", s.id>>
         \/ \E c \in calls : e.id = <<"calls", c.id>>
         \/ \E a \in apis : e.id = <<"exposes", a.id>>
         \/ \E a \in apis : e.id = <<"handles", a.id>>
         \/ e \in access_edges /\ \E s, t : e.id = <<"access", s, t, e.kind>>
<1>1. CASE e.kind \in MirroredKinds
  <2>1. e \in RowEdges
    BY <1>1 DEF EdgesInv, EdgesMirrorRows
  <2>2. \/ \E f \in files : e = ContainsEdge(f)
        \/ \E d \in deps : e = ModuleEdge(d)
        \/ \E d \in deps : e = FileEdge(d)
        \/ \E s \in symbols : e = DeclaresEdge(s)
        \/ \E c \in calls : e = CallsEdge(c)
        \/ \E a \in apis : e = ExposesEdge(a)
    BY <2>1 DEF RowEdges, FileEdges, CallsEdges
  <2>3. CASE \E f \in files : e = ContainsEdge(f)
    <3>1. PICK f \in files : e = ContainsEdge(f)
      BY <2>3
    <3>2. e.id = <<"contains", f.module, f.id>>
      BY <3>1, EdgeIds
    <3> QED
      BY <3>2
  <2>4. CASE \E d \in deps : e = ModuleEdge(d)
    <3>1. PICK d \in deps : e = ModuleEdge(d)
      BY <2>4
    <3>2. e.id = <<"depends_on", d.sourceModule, d.targetModule, d.id>>
      BY <3>1, EdgeIds
    <3> QED
      BY <3>2
  <2>5. CASE \E d \in deps : e = FileEdge(d)
    <3>1. PICK d \in deps : e = FileEdge(d)
      BY <2>5
    <3>2. e.id = <<"depends_on_file", d.id>>
      BY <3>1, EdgeIds
    <3> QED
      BY <3>2
  <2>6. CASE \E s \in symbols : e = DeclaresEdge(s)
    <3>1. PICK s \in symbols : e = DeclaresEdge(s)
      BY <2>6
    <3>2. e.id = <<"declares", s.id>>
      BY <3>1, EdgeIds
    <3> QED
      BY <3>2
  <2>7. CASE \E c \in calls : e = CallsEdge(c)
    <3>1. PICK c \in calls : e = CallsEdge(c)
      BY <2>7
    <3>2. e.id = <<"calls", c.id>>
      BY <3>1, EdgeIds
    <3> QED
      BY <3>2
  <2>8. CASE \E a \in apis : e = ExposesEdge(a)
    <3>1. PICK a \in apis : e = ExposesEdge(a)
      BY <2>8
    <3>2. e.id = <<"exposes", a.id>>
      BY <3>1, EdgeIds
    <3> QED
      BY <3>2
  <2> QED
    BY <2>2, <2>3, <2>4, <2>5, <2>6, <2>7, <2>8
<1>2. CASE e.kind \in AccessKinds
  BY <1>2 DEF EdgesInv, AccessShape, access_edges, Edge
<1>3. CASE e.kind = "handles"
  BY <1>3 DEF HandlesOwned, code_edge_id
<1> QED
  BY <1>1, <1>2, <1>3 DEF EdgeKinds

\* The rows that are appended have ids their tables lack, each one once.
LEMMA RowsToAdd ==
  ASSUME NEW x \in Extractions
  PROVE  /\ \A f \in files_to_add(x) : f.id \notin Ids(files)
         /\ \A d \in dependencies_to_add(x) : d.id \notin Ids(deps)
         /\ \A s \in symbols_to_add(x) : s.id \notin Ids(symbols)
         /\ \A c \in calls_to_add(x) : c.id \notin Ids(calls)
         /\ \A a \in apis_to_add(x) : a.id \notin Ids(apis)
         /\ \A a \in handlers_to_link(x) : a.id \notin Ids(apis)
         /\ Keyed(dependencies_to_add(x)) /\ Keyed(symbols_to_add(x))
         /\ Keyed(calls_to_add(x)) /\ Keyed(apis_to_add(x)) /\ Keyed(handlers_to_link(x))
<1>1. \A T, batch : \A r \in FirstById(NewRows(batch, T)) : r.id \notin Ids(T)
  BY FirstByIdSubset DEF NewRows
<1>2. \A a \in handlers_to_link(x) : a \in apis_to_add(x) \/ a \in HandledRows(x)
  BY FirstByIdSubset DEF handlers_to_link, WithoutIds
<1>3. Keyed(apis_to_add(x))
  BY FirstByIdKeyed DEF apis_to_add
<1>4. Keyed(handlers_to_link(x))
  <2> DEFINE resolved == {a \in apis_to_add(x) : a.handler # None}
             others == FirstById(WithoutIds(HandledRows(x), Ids(resolved)))
  <2>1. Keyed(others) /\ others \subseteq WithoutIds(HandledRows(x), Ids(resolved))
    BY FirstByIdKeyed, FirstByIdSubset
  <2>2. \A a \in others, b \in resolved : a.id # b.id
    BY <2>1 DEF WithoutIds, Ids
  <2>3. handlers_to_link(x) = resolved \cup others
    BY DEF handlers_to_link
  <2> HIDE DEF others
  <2> QED
    BY <1>3, <2>1, <2>2, <2>3 DEF Keyed
<1>5. \A f \in files_to_add(x) : f.id \notin Ids(files)
  BY DEF files_to_add, NewRows
<1>6. \A a \in HandledRows(x) : a.id \notin Ids(apis)
  BY DEF HandledRows, NewRows
<1>7. /\ Keyed(dependencies_to_add(x)) /\ Keyed(symbols_to_add(x)) /\ Keyed(calls_to_add(x))
  BY FirstByIdKeyed DEF dependencies_to_add, symbols_to_add, calls_to_add
<1>8. /\ \A d \in dependencies_to_add(x) : d.id \notin Ids(deps)
      /\ \A s \in symbols_to_add(x) : s.id \notin Ids(symbols)
      /\ \A c \in calls_to_add(x) : c.id \notin Ids(calls)
      /\ \A a \in apis_to_add(x) : a.id \notin Ids(apis)
  BY <1>1 DEF dependencies_to_add, symbols_to_add, calls_to_add, apis_to_add
<1> QED
  BY <1>2, <1>3, <1>4, <1>5, <1>6, <1>7, <1>8

\* An appended edge has an id no edge has.
LEMMA NewEdgeIds ==
  ASSUME PrimaryKeys, EdgesInv, EdgeKinds, HandlesOwned, NEW x \in Extractions,
         NEW n \in appended_edges(x), NEW e \in edges
  PROVE  n.id # e.id
<1> SUFFICES ASSUME n.id = e.id PROVE FALSE
  OBVIOUS
<1> DEFINE Old(i) ==
      \/ \E f \in files : i = <<"contains", f.module, f.id>>
      \/ \E d \in deps : i = <<"depends_on", d.sourceModule, d.targetModule, d.id>>
      \/ \E d \in deps : i = <<"depends_on_file", d.id>>
      \/ \E s \in symbols : i = <<"declares", s.id>>
      \/ \E c \in calls : i = <<"calls", c.id>>
      \/ \E a \in apis : i = <<"exposes", a.id>>
      \/ \E a \in apis : i = <<"handles", a.id>>
      \/ i \in Ids(access_edges) /\ \E s, t, k : i = <<"access", s, t, k>>
<1>1. Old(n.id)
  BY OldEdges DEF Ids
<1>2. \A T : \A r \in T : r.id \in Ids(T)
  BY DEF Ids
<1>3. CASE \E f \in files_to_add(x) : n = ContainsEdge(f)
  <2>1. PICK f \in files_to_add(x) : n = ContainsEdge(f)
    BY <1>3
  <2>2. n.id = <<"contains", f.module, f.id>>
    BY <2>1, EdgeIds
  <2>3. \E g \in files : <<"contains", f.module, f.id>> = <<"contains", g.module, g.id>>
    BY <1>1, <2>2
  <2> QED
    BY <1>2, <2>3, RowsToAdd
<1>4. CASE \E p \in moved(x) : n = ContainsEdge(p[1])
  <2>1. PICK p \in moved(x) : n = ContainsEdge(p[1])
    BY <1>4
  <2>2. n.id = <<"contains", p[1].module, p[1].id>>
    BY <2>1, EdgeIds
  <2>3. PICK g \in files : <<"contains", p[1].module, p[1].id>> = <<"contains", g.module, g.id>>
    BY <1>1, <2>2
  <2>4. p[2] \in files /\ p[1].id = p[2].id /\ p[1].module # p[2].module
    BY DEF moved, files_to_update
  <2>5. g.id = p[2].id /\ g.module = p[1].module
    BY <2>3, <2>4
  <2> QED
    BY <2>4, <2>5 DEF PrimaryKeys, Keyed
<1>5. CASE \E d \in dependencies_to_add(x) : n = ModuleEdge(d)
  <2>1. PICK d \in dependencies_to_add(x) : n = ModuleEdge(d)
    BY <1>5
  <2>2. n.id = <<"depends_on", d.sourceModule, d.targetModule, d.id>>
    BY <2>1, EdgeIds
  <2>3. \E r \in deps : <<"depends_on", d.sourceModule, d.targetModule, d.id>>
                          = <<"depends_on", r.sourceModule, r.targetModule, r.id>>
    BY <1>1, <2>2
  <2> QED
    BY <1>2, <2>3, RowsToAdd
<1>6. CASE \E d \in dependencies_to_add(x) : n = FileEdge(d)
  <2>1. PICK d \in dependencies_to_add(x) : n = FileEdge(d)
    BY <1>6
  <2>2. n.id = <<"depends_on_file", d.id>>
    BY <2>1, EdgeIds
  <2>3. \E r \in deps : <<"depends_on_file", d.id>> = <<"depends_on_file", r.id>>
    BY <1>1, <2>2
  <2> QED
    BY <1>2, <2>3, RowsToAdd
<1>7. CASE \E s \in symbols_to_add(x) : n = DeclaresEdge(s)
  <2>1. PICK s \in symbols_to_add(x) : n = DeclaresEdge(s)
    BY <1>7
  <2>2. n.id = <<"declares", s.id>>
    BY <2>1, EdgeIds
  <2>3. \E r \in symbols : <<"declares", s.id>> = <<"declares", r.id>>
    BY <1>1, <2>2
  <2> QED
    BY <1>2, <2>3, RowsToAdd
<1>8. CASE \E c \in calls_to_add(x) : n = CallsEdge(c)
  <2>1. PICK c \in calls_to_add(x) : n = CallsEdge(c)
    BY <1>8
  <2>2. n.id = <<"calls", c.id>>
    BY <2>1, EdgeIds
  <2>3. \E r \in calls : <<"calls", c.id>> = <<"calls", r.id>>
    BY <1>1, <2>2
  <2> QED
    BY <1>2, <2>3, RowsToAdd
<1>9. CASE \E a \in apis_to_add(x) : n = ExposesEdge(a)
  <2>1. PICK a \in apis_to_add(x) : n = ExposesEdge(a)
    BY <1>9
  <2>2. n.id = <<"exposes", a.id>>
    BY <2>1, EdgeIds
  <2>3. \E r \in apis : <<"exposes", a.id>> = <<"exposes", r.id>>
    BY <1>1, <2>2
  <2> QED
    BY <1>2, <2>3, RowsToAdd
<1>10. CASE \E a \in handlers_to_link(x) : n = HandlesEdge(a)
  <2>1. PICK a \in handlers_to_link(x) : n = HandlesEdge(a)
    BY <1>10
  <2>2. n.id = <<"handles", a.id>>
    BY <2>1, EdgeIds
  <2>3. \E r \in apis : <<"handles", a.id>> = <<"handles", r.id>>
    BY <1>1, <2>2
  <2> QED
    BY <1>2, <2>3, RowsToAdd
<1>11. CASE \E a \in x.accesses : n = AccessEdge(a) /\ n \in accesses_to_add(x)
  <2>1. PICK a \in x.accesses : n = AccessEdge(a)
    BY <1>11
  <2>2. n.id = <<"access", a.source, a.target, a.kind>>
    BY <2>1, EdgeIds
  <2>3. n.id \notin Ids(access_edges)
    BY <1>11 DEF accesses_to_add, NewRows
  <2>4. \E s, t, k : n.id = <<"access", s, t, k>>
    BY <2>2
  <2> QED
    BY <1>1, <2>3, <2>4
<1> QED
  BY <1>3, <1>4, <1>5, <1>6, <1>7, <1>8, <1>9, <1>10, <1>11, FreshEdges

\* Edges appended under one id are one edge.
LEMMA FreshKeyed ==
  ASSUME NEW x \in Extractions
  PROVE  Keyed(appended_edges(x))
<1> SUFFICES ASSUME NEW n \in appended_edges(x), NEW p \in appended_edges(x), n.id = p.id
             PROVE  n = p
  BY DEF Keyed
<1>1. /\ \A r : ContainsEdge(r).id[1] = "contains"
      /\ \A r : ModuleEdge(r).id[1] = "depends_on"
      /\ \A r : FileEdge(r).id[1] = "depends_on_file"
      /\ \A r : DeclaresEdge(r).id[1] = "declares"
      /\ \A r : CallsEdge(r).id[1] = "calls"
      /\ \A r : ExposesEdge(r).id[1] = "exposes"
      /\ \A r : HandlesEdge(r).id[1] = "handles"
      /\ \A r : AccessEdge(r).id[1] = "access"
  <2> SUFFICES ASSUME NEW r
               PROVE  /\ ContainsEdge(r).id[1] = "contains" /\ ModuleEdge(r).id[1] = "depends_on"
                      /\ FileEdge(r).id[1] = "depends_on_file" /\ DeclaresEdge(r).id[1] = "declares"
                      /\ CallsEdge(r).id[1] = "calls" /\ ExposesEdge(r).id[1] = "exposes"
                      /\ HandlesEdge(r).id[1] = "handles" /\ AccessEdge(r).id[1] = "access"
    OBVIOUS
  <2>1. /\ ContainsEdge(r).id = <<"contains", r.module, r.id>>
        /\ ModuleEdge(r).id = <<"depends_on", r.sourceModule, r.targetModule, r.id>>
        /\ FileEdge(r).id = <<"depends_on_file", r.id>>
        /\ DeclaresEdge(r).id = <<"declares", r.id>>
    BY EdgeIds
  <2>2. /\ CallsEdge(r).id = <<"calls", r.id>>
        /\ ExposesEdge(r).id = <<"exposes", r.id>>
        /\ HandlesEdge(r).id = <<"handles", r.id>>
        /\ AccessEdge(r).id = <<"access", r.source, r.target, r.kind>>
    BY EdgeIds
  <2> QED
    BY <2>1, <2>2
<1>2. ASSUME NEW e \in appended_edges(x)
      PROVE  /\ e.id[1] = "contains" => \E f : e = ContainsEdge(f)
             /\ e.id[1] = "depends_on" => \E d : e = ModuleEdge(d)
             /\ e.id[1] = "depends_on_file" => \E d \in dependencies_to_add(x) : e = FileEdge(d)
             /\ e.id[1] = "declares" => \E s \in symbols_to_add(x) : e = DeclaresEdge(s)
             /\ e.id[1] = "calls" => \E c \in calls_to_add(x) : e = CallsEdge(c)
             /\ e.id[1] = "exposes" => \E a \in apis_to_add(x) : e = ExposesEdge(a)
             /\ e.id[1] = "handles" => \E a \in handlers_to_link(x) : e = HandlesEdge(a)
             /\ e.id[1] = "access" => \E a : e = AccessEdge(a)
             /\ e.id[1] \in {"contains", "depends_on", "depends_on_file", "declares", "calls",
                             "exposes", "handles", "access"}
  BY <1>1, <1>2, FreshEdges
<1>3. CASE n.id[1] = "contains"
  <2>1. PICK f : n = ContainsEdge(f)
    BY <1>2, <1>3
  <2>2. PICK g : p = ContainsEdge(g)
    BY <1>2, <1>3
  <2>3. <<"contains", f.module, f.id>> = <<"contains", g.module, g.id>>
    BY <2>1, <2>2, EdgeIds
  <2> QED
    BY <2>1, <2>2, <2>3 DEF ContainsEdge
<1>4. CASE n.id[1] = "depends_on"
  <2>1. PICK d : n = ModuleEdge(d)
    BY <1>2, <1>4
  <2>2. PICK r : p = ModuleEdge(r)
    BY <1>2, <1>4
  <2>3. <<"depends_on", d.sourceModule, d.targetModule, d.id>>
          = <<"depends_on", r.sourceModule, r.targetModule, r.id>>
    BY <2>1, <2>2, EdgeIds
  <2> QED
    BY <2>1, <2>2, <2>3 DEF ModuleEdge
<1>5. CASE n.id[1] = "depends_on_file"
  <2>1. PICK r \in dependencies_to_add(x) : n = FileEdge(r)
    BY <1>2, <1>5
  <2>2. PICK s \in dependencies_to_add(x) : p = FileEdge(s)
    BY <1>2, <1>5
  <2>3. <<"depends_on_file", r.id>> = <<"depends_on_file", s.id>>
    BY <2>1, <2>2, EdgeIds
  <2>4. r = s
    BY <2>3, RowsToAdd DEF Keyed
  <2> QED
    BY <2>1, <2>2, <2>4
<1>6. CASE n.id[1] = "declares"
  <2>1. PICK r \in symbols_to_add(x) : n = DeclaresEdge(r)
    BY <1>2, <1>6
  <2>2. PICK s \in symbols_to_add(x) : p = DeclaresEdge(s)
    BY <1>2, <1>6
  <2>3. <<"declares", r.id>> = <<"declares", s.id>>
    BY <2>1, <2>2, EdgeIds
  <2>4. r = s
    BY <2>3, RowsToAdd DEF Keyed
  <2> QED
    BY <2>1, <2>2, <2>4
<1>7. CASE n.id[1] = "calls"
  <2>1. PICK r \in calls_to_add(x) : n = CallsEdge(r)
    BY <1>2, <1>7
  <2>2. PICK s \in calls_to_add(x) : p = CallsEdge(s)
    BY <1>2, <1>7
  <2>3. <<"calls", r.id>> = <<"calls", s.id>>
    BY <2>1, <2>2, EdgeIds
  <2>4. r = s
    BY <2>3, RowsToAdd DEF Keyed
  <2> QED
    BY <2>1, <2>2, <2>4
<1>8. CASE n.id[1] = "exposes"
  <2>1. PICK r \in apis_to_add(x) : n = ExposesEdge(r)
    BY <1>2, <1>8
  <2>2. PICK s \in apis_to_add(x) : p = ExposesEdge(s)
    BY <1>2, <1>8
  <2>3. <<"exposes", r.id>> = <<"exposes", s.id>>
    BY <2>1, <2>2, EdgeIds
  <2>4. r = s
    BY <2>3, RowsToAdd DEF Keyed
  <2> QED
    BY <2>1, <2>2, <2>4
<1>9. CASE n.id[1] = "handles"
  <2>1. PICK r \in handlers_to_link(x) : n = HandlesEdge(r)
    BY <1>2, <1>9
  <2>2. PICK s \in handlers_to_link(x) : p = HandlesEdge(s)
    BY <1>2, <1>9
  <2>3. <<"handles", r.id>> = <<"handles", s.id>>
    BY <2>1, <2>2, EdgeIds
  <2>4. r = s
    BY <2>3, RowsToAdd DEF Keyed
  <2> QED
    BY <2>1, <2>2, <2>4
<1>10. CASE n.id[1] = "access"
  <2>1. PICK a : n = AccessEdge(a)
    BY <1>2, <1>10
  <2>2. PICK b : p = AccessEdge(b)
    BY <1>2, <1>10
  <2>3. <<"access", a.source, a.target, a.kind>> = <<"access", b.source, b.target, b.kind>>
    BY <2>1, <2>2, EdgeIds
  <2> QED
    BY <2>1, <2>2, <2>3 DEF AccessEdge
<1> QED
  BY <1>2, <1>3, <1>4, <1>5, <1>6, <1>7, <1>8, <1>9, <1>10

\* After any history of runs, whatever is extracted next commits: no appended node or
\* edge takes the primary key of another, or of one that the deletes left.
THEOREM NeverPoisoned == Spec => []NeverConflicts
<1>1. /\ TypeOK /\ PrimaryKeys /\ NodesMirrorRows /\ EdgesInv /\ EdgeKinds /\ HandlesOwned
      => NeverConflicts
  <2> SUFFICES ASSUME TypeOK, PrimaryKeys, NodesMirrorRows, EdgesInv, EdgeKinds, HandlesOwned,
                      NEW x \in Extractions
               PROVE  ~ KeyConflict(x)
    BY DEF NeverConflicts
  <2>1. Keyed(appended_nodes(x)) /\ Ids(appended_nodes(x)) \cap Ids(nodes) = {}
    BY NodesFit
  <2>2. Keyed(appended_edges(x)) /\ Ids(appended_edges(x)) \cap Ids(edges) = {}
    BY FreshKeyed, NewEdgeIds DEF Ids
  <2>3. kept_nodes(x) \subseteq nodes /\ kept_edges(x) \subseteq edges
    BY DEF kept_nodes, kept_edges, WithoutIds
  <2>4. \A S, T, U : Keyed(S) /\ Keyed(T) /\ Ids(T) \cap Ids(S) = {} /\ U \subseteq S
                       => Keyed(U \cup T) /\ Ids(U) \cap Ids(T) = {}
    BY DEF Keyed, Ids
  <2>5. Keyed(nodes) /\ Keyed(edges)
    BY DEF PrimaryKeys
  <2> QED
    BY <2>1, <2>2, <2>3, <2>4, <2>5 DEF KeyConflict
<1>2. EdgesResolve => HandlesOwned
  BY DEF EdgesResolve
<1> QED
  BY <1>1, <1>2, TypeCorrect, KeysHold, NodesMirror, EdgesInvariance, EdgeKindsInvariance,
     EdgesHang, PTL


--------------------------------------------------------------------------------
(* What the indexer extracts is fit for the sync. *)

LEMMA IdParts ==
  /\ \A p, q : <<"file", p>> = <<"file", q>> => p = q
  /\ \A p, q : <<"module", p>> = <<"module", q>> => p = q
  /\ \A p, q, r, p2, q2, r2 : <<"symbol", p, q, r>> = <<"symbol", p2, q2, r2>> => p = p2
  /\ \A p, q, p2, q2 : <<"symbol", p, q>> = <<"symbol", p2, q2>> => q = q2
  /\ \A p, q, r, p2, q2 : <<"symbol", p, q, r>> # <<"symbol", p2, q2>>
  /\ \A p, q, p2, q2 : <<"call", p, q>> = <<"call", p2, q2>> => p = p2 /\ q = q2
OBVIOUS

\* The owner of a symbol can be read off its id.
LEMMA OwnerInId ==
  ASSUME NEW t, NEW l, NEW s \in X!symbol_records(t, l),
         NEW u, NEW m, NEW r \in X!symbol_records(u, m), s.id = r.id
  PROVE  s.file = r.file
<1> USE DEF X!symbol_records, X!SymbolOf, X!SymbolId, X!ModuleInitId
<1>1. \E p : /\ s.file = X!FileId(p)
             /\ (\E n, k : s.id = <<"symbol", p, n, k>>) \/ s.id = <<"symbol", "<module>", p>>
  OBVIOUS
<1>2. \E p : /\ r.file = X!FileId(p)
             /\ (\E n, k : r.id = <<"symbol", p, n, k>>) \/ r.id = <<"symbol", "<module>", p>>
  OBVIOUS
<1> QED BY <1>1, <1>2, IdParts

LEMMA CallsKeyed ==
  ASSUME NEW t PROVE Keyed(X!call_records(t))
<1> SUFFICES ASSUME NEW c \in X!call_records(t), NEW d \in X!call_records(t), c.id = d.id
             PROVE  c = d
  BY DEF Keyed
<1> DEFINE Call(p, name) == [id |-> <<"call", X!SymbolOf(t, p), name>>,
                             caller |-> X!SymbolOf(t, p),
                             callee |-> X!callee_of(t, p, name)]
<1>1. PICK p, name : c = Call(p, name)
  BY DEF X!call_records
<1>2. PICK q, other : d = Call(q, other)
  BY DEF X!call_records
<1>3. <<"call", X!SymbolOf(t, p), name>> = <<"call", X!SymbolOf(t, q), other>>
  BY <1>1, <1>2
<1>4. X!SymbolOf(t, p) = X!SymbolOf(t, q) /\ name = other
  BY <1>3, IdParts
<1>5. p = q
  BY <1>4, IdParts DEF X!SymbolOf, X!SymbolId
<1> QED BY <1>1, <1>2, <1>4, <1>5

\* Whatever the tree, the layout and the rows of the run before: paths and modules
\* are recorded once, every row belongs to a recorded one, and calls are distinct.
THEOREM ExtractIsWellFormed ==
  ASSUME NEW t, NEW l, NEW D PROVE WellFormed(X!Extract(t, l, D))
<1> DEFINE x == X!Extract(t, l, D)
<1>1. /\ x.modules = X!module_records(t, l) /\ x.files = X!file_records(t, l)
      /\ x.calls = X!call_records(t) /\ x.symbols = X!symbol_records(t, l)
      /\ x.accesses = X!accesses(t)
  BY DEF X!Extract
<1> HIDE DEF x
<1>2. Keyed(X!module_records(t, l))
  BY IdParts DEF Keyed, X!module_records, X!ModuleId
<1>3. Keyed(X!file_records(t, l))
  BY IdParts DEF Keyed, X!file_records, X!FileId
<1> DEFINE Module(p) == [id |-> X!ModuleId(l[p]), prefix |-> l[p]]
           File(p) == [id |-> X!FileId(p), hash |-> t[p], module |-> X!ModuleId(l[p])]
<1>4. ASSUME NEW f \in X!file_records(t, l)
      PROVE  f.module \in Ids(X!module_records(t, l))
  <2>1. PICK p \in X!Present(t) : f = File(p)
    BY DEF X!file_records
  <2>2. Module(p) \in X!module_records(t, l) /\ Module(p).id = f.module
    BY <2>1 DEF X!module_records
  <2> QED BY <2>2 DEF Ids
<1>5. ASSUME NEW s \in X!symbol_records(t, l)
      PROVE  s.file \in Ids(X!file_records(t, l))
  <2>1. PICK p \in X!Present(t) : s.file = X!FileId(p)
    BY DEF X!symbol_records, X!Parsed
  <2>2. File(p) \in X!file_records(t, l) /\ File(p).id = s.file
    BY <2>1 DEF X!file_records
  <2> QED BY <2>2 DEF Ids
<1>6. \A e \in X!accesses(t) : e.kind \in AccessKinds
  BY DEF X!accesses, AccessKinds
<1> QED BY <1>1, <1>2, <1>3, <1>4, <1>5, <1>6, CallsKeyed DEF WellFormed, x

\* So whatever set of trees a run may meet, their extractions are what IndexSync
\* assumes of them: each well-formed, and no id of one kind that of another.
THEOREM ExtractionsFit ==
  ASSUME \A x \in Extractions : \E t, l, D : x = X!Extract(t, l, D)
  PROVE  /\ \A x \in Extractions : WellFormed(x)
         /\ \A s, r \in AllSymbols : s.id = r.id => s.file = r.file
         /\ IdsByKind
<1>1. \A x \in Extractions : WellFormed(x)
  BY ExtractIsWellFormed
<1>2. \A x \in Extractions : \E t, l :
        /\ x.modules = X!module_records(t, l) /\ x.files = X!file_records(t, l)
        /\ x.symbols = X!symbol_records(t, l)
        /\ x.apis = X!api_records(t, l) /\ x.objects = X!object_records(t)
  BY DEF X!Extract
<1>3. \A s \in AllSymbols : \E t, l : s \in X!symbol_records(t, l)
  BY <1>2 DEF AllSymbols
<1>4. \A s, r \in AllSymbols : s.id = r.id => s.file = r.file
  BY <1>3, OwnerInId
<1>5. \A m \in AllModules : \E name : m.id = <<"module", name>>
  <2>1. \A t, l : \A m \in X!module_records(t, l) : \E name : m.id = <<"module", name>>
    BY DEF X!module_records, X!ModuleId
  <2> QED BY <1>2, <2>1 DEF AllModules
<1>6. \A f \in AllFiles : \E p : f.id = <<"file", p>>
  <2>1. \A t, l : \A f \in X!file_records(t, l) : \E p : f.id = <<"file", p>>
    BY DEF X!file_records, X!FileId
  <2> QED BY <1>2, <2>1 DEF AllFiles
<1>7. \A s \in AllSymbols : \E p, q : s.id = <<"symbol", p, q>> \/ \E r : s.id = <<"symbol", p, q, r>>
  <2>1. \A t, l : \A s \in X!symbol_records(t, l) :
          \E p, q : s.id = <<"symbol", p, q>> \/ \E r : s.id = <<"symbol", p, q, r>>
    BY DEF X!symbol_records, X!SymbolOf, X!SymbolId, X!ModuleInitId
  <2> QED BY <1>2, <2>1 DEF AllSymbols
<1>8. \A a \in AllApis : \E p : a.id = <<"api", p>>
  <2>1. \A t, l : \A a \in X!api_records(t, l) : \E p : a.id = <<"api", p>>
    BY DEF X!api_records
  <2> QED BY <1>2, <2>1 DEF AllApis
<1>9. \A o \in AllObjects : \E n : o.id = <<"table", n>>
  <2>1. \A t : \A o \in X!object_records(t) : \E n : o.id = <<"table", n>>
    BY DEF X!object_records
  <2> QED BY <1>2, <2>1 DEF AllObjects
<1>10. \A p, q, r, n : /\ <<"module", n>> # <<"file", p>> /\ <<"module", n>> # <<"symbol", p, q>>
                       /\ <<"module", n>> # <<"symbol", p, q, r>> /\ <<"module", n>> # <<"api", p>>
                       /\ <<"module", n>> # <<"table", p>>
                       /\ <<"file", n>> # <<"symbol", p, q>> /\ <<"file", n>> # <<"symbol", p, q, r>>
                       /\ <<"file", n>> # <<"api", p>> /\ <<"file", n>> # <<"table", p>>
                       /\ <<"api", n>> # <<"symbol", p, q>> /\ <<"api", n>> # <<"symbol", p, q, r>>
                       /\ <<"table", n>> # <<"symbol", p, q>> /\ <<"table", n>> # <<"symbol", p, q, r>>
                       /\ <<"api", n>> # <<"table", p>>
  OBVIOUS
<1>11. IdsByKind
  <2>1. \A m \in AllModules, f \in AllFiles : m.id # f.id
    BY <1>5, <1>6, <1>10
  <2>2. \A m \in AllModules, s \in AllSymbols : m.id # s.id
    BY <1>5, <1>7, <1>10
  <2>3. \A m \in AllModules, a \in AllApis : m.id # a.id
    BY <1>5, <1>8, <1>10
  <2>4. \A m \in AllModules, o \in AllObjects : m.id # o.id
    BY <1>5, <1>9, <1>10
  <2>5. \A f \in AllFiles, s \in AllSymbols : f.id # s.id
    BY <1>6, <1>7, <1>10
  <2>6. \A f \in AllFiles, a \in AllApis : f.id # a.id
    BY <1>6, <1>8, <1>10
  <2>7. \A f \in AllFiles, o \in AllObjects : f.id # o.id
    BY <1>6, <1>9, <1>10
  <2>8. \A s \in AllSymbols, a \in AllApis : s.id # a.id
    BY <1>7, <1>8, <1>10
  <2>9. \A s \in AllSymbols, o \in AllObjects : s.id # o.id
    BY <1>7, <1>9, <1>10
  <2>10. \A a \in AllApis, o \in AllObjects : a.id # o.id
    BY <1>8, <1>9, <1>10
  <2> QED BY <2>1, <2>2, <2>3, <2>4, <2>5, <2>6, <2>7, <2>8, <2>9, <2>10 DEF IdsByKind, Ids
<1> QED BY <1>1, <1>4, <1>11

--------------------------------------------------------------------------------
(* What a run retains from the one before. *)

\* Rows with the same ids are the same imports, whatever else they say.
LEMMA SameImports ==
  ASSUME NEW D, ImportsInId(D), NEW E, ImportsInId(E), Ids(D) = Ids(E), NEW p
  PROVE  X!retained_imports(D, p) = X!retained_imports(E, p)
<1>1. ASSUME NEW A, NEW B, ImportsInId(A), ImportsInId(B), Ids(A) = Ids(B),
             NEW spec \in X!retained_imports(A, p)
      PROVE  spec \in X!retained_imports(B, p)
  <2>1. PICK d \in A : d.source = X!FileId(p) /\ d.specifier = spec
    BY <1>1 DEF X!retained_imports
  <2>2. PICK e \in B : e.id = d.id
    BY <1>1, <2>1 DEF Ids
  <2>3. PICK q : d.source = X!FileId(q) /\ d.id = <<"dependency", q, d.specifier, d.targetModule>>
    BY <1>1, <2>1 DEF ImportsInId
  <2>4. PICK r : e.source = X!FileId(r) /\ e.id = <<"dependency", r, e.specifier, e.targetModule>>
    BY <1>1, <2>2 DEF ImportsInId
  <2>5. \A a1, a2, a3, b1, b2, b3 :
          <<"dependency", a1, a2, a3>> = <<"dependency", b1, b2, b3>> => a1 = b1 /\ a2 = b2
    OBVIOUS
  <2>6. q = r /\ d.specifier = e.specifier
    BY <2>2, <2>3, <2>4, <2>5
  <2>7. e.source = X!FileId(p) /\ e.specifier = spec
    BY <2>1, <2>3, <2>4, <2>6
  <2> QED BY <2>7 DEF X!retained_imports
<1>2. /\ X!retained_imports(D, p) \subseteq X!retained_imports(E, p)
      /\ X!retained_imports(E, p) \subseteq X!retained_imports(D, p)
  BY <1>1
<1> QED BY <1>2

\* An extraction depends on the run before by the imports of unparsable files only.
LEMMA ExtractOfImports ==
  ASSUME NEW t, NEW l, NEW D, NEW E,
         \A p \in X!Present(t) \ X!Parsed(t) :
           X!retained_imports(D, p) = X!retained_imports(E, p)
  PROVE  X!Extract(t, l, D) = X!Extract(t, l, E)
<1>1. \A p \in X!Present(t) : X!imports_of(t, D, p) = X!imports_of(t, E, p)
  BY DEF X!imports_of, X!Parsed
<1>2. X!resolve_dependencies(t, l, D) = X!resolve_dependencies(t, l, E)
  BY <1>1 DEF X!resolve_dependencies
<1> QED BY <1>2 DEF X!Extract

LEMMA DependencyColumns ==
  ASSUME NEW t, NEW l, NEW p, NEW spec
  PROVE  /\ X!dependency(t, l, p, spec).source = X!FileId(p)
         /\ X!dependency(t, l, p, spec).specifier = spec
BY DEF X!dependency

\* The extracted rows of a file are its imports, those retained for it included.
LEMMA ImportsExtracted ==
  ASSUME NEW t, NEW l, NEW D, NEW p \in X!Present(t)
  PROVE  X!retained_imports(X!Extract(t, l, D).deps, p) = X!imports_of(t, D, p)
<1> DEFINE E == X!resolve_dependencies(t, l, D)
<1>1. X!Extract(t, l, D).deps = E
  BY DEF X!Extract
<1>2. ASSUME NEW spec \in X!imports_of(t, D, p)
      PROVE  spec \in X!retained_imports(E, p)
  <2>1. X!dependency(t, l, p, spec) \in E
    BY DEF X!resolve_dependencies
  <2> HIDE DEF E
  <2> QED BY <2>1, DependencyColumns DEF X!retained_imports
<1>3. ASSUME NEW spec \in X!retained_imports(E, p)
      PROVE  spec \in X!imports_of(t, D, p)
  <2>1. PICK d \in E : d.source = X!FileId(p) /\ d.specifier = spec
    BY DEF X!retained_imports
  <2>2. PICK q \in X!Present(t) : \E other \in X!imports_of(t, D, q) : d = X!dependency(t, l, q, other)
    BY <2>1 DEF X!resolve_dependencies
  <2>3. X!FileId(q) = X!FileId(p) /\ spec \in X!imports_of(t, D, q)
    BY <2>1, <2>2, DependencyColumns
  <2> QED BY <2>3, IdParts DEF X!FileId
<1> QED BY <1>1, <1>2, <1>3

--------------------------------------------------------------------------------
(* Every run is a sync of an extraction. *)

reindexVars == <<vars, world, indexed>>

\* The persisted imports are those of the extraction of the last run.
Loop ==
  /\ tree \in Trees /\ layout \in Layouts
  /\ ImportsInId(deps)
  /\ deps = {} \/ \E x \in Extractions : Ids(deps) = Ids(x.deps)

LEMMA LoopInitially == ReindexInit => Loop
BY DEF ReindexInit, Init, Loop, ImportsInId

LEMMA ExtractedIsExtraction == Loop => Extracted \in Extractions
<1> SUFFICES ASSUME Loop PROVE Extracted \in Extractions
  OBVIOUS
<1>1. CASE deps = {}
  BY <1>1, ReindexAssumption DEF Loop, Extracted
<1>2. ASSUME NEW x \in Extractions, Ids(deps) = Ids(x.deps)
      PROVE  Extracted \in Extractions
  <2>1. \A p : X!retained_imports(deps, p) = X!retained_imports(x.deps, p)
    BY <1>2, SameImports, ReindexAssumption DEF Loop
  <2>2. Extracted = X!Extract(tree, layout, x.deps)
    BY <2>1, ExtractOfImports DEF Extracted
  <2> QED BY <2>2, ReindexAssumption DEF Loop
<1> QED BY <1>1, <1>2 DEF Loop

LEMMA RunLoops ==
  ASSUME Loop, IndexTree
  PROVE  /\ Extracted \in Extractions
         /\ ImportsInId(deps') /\ Ids(deps') = Ids(Extracted.deps)
<1>1. Extracted \in Extractions
  BY ExtractedIsExtraction
<1>2. deps' = Synced(deps, Extracted.deps)
  BY DEF IndexTree, sync_current_index, sync_index_rows
<1>3. ImportsInId(Extracted.deps)
  BY <1>1, ReindexAssumption
<1>4. deps' \subseteq deps \cup Extracted.deps /\ Ids(deps') = Ids(Extracted.deps)
  BY <1>2, TableSync
<1>5. ImportsInId(deps')
  BY <1>3, <1>4 DEF Loop, ImportsInId
<1> QED BY <1>1, <1>4, <1>5

LEMMA LoopStep == Loop /\ [ReindexNext]_reindexVars => Loop' /\ [Next]_vars
<1> SUFFICES ASSUME Loop, [ReindexNext]_reindexVars PROVE Loop' /\ [Next]_vars
  OBVIOUS
<1>1. CASE Edit
  BY <1>1 DEF Edit, Loop, vars, rows
<1>2. CASE IndexTree
  <2>1. UNCHANGED <<tree, layout>> /\ sync_current_index(Extracted)
    BY <1>2 DEF IndexTree, world
  <2> QED BY <1>2, <2>1, RunLoops DEF Loop, Next
<1>3. CASE UNCHANGED reindexVars
  BY <1>3 DEF reindexVars, world, Loop, vars, rows
<1> QED BY <1>1, <1>2, <1>3 DEF ReindexNext

LEMMA LoopInvariance == ReindexSpec => []Loop
BY LoopInitially, LoopStep, PTL DEF ReindexSpec, reindexVars

\* The loop of runs over an edited tree implements the sync, whose extractions are
\* arbitrary, so what is proved of it holds of the loop.
THEOREM RunsAreSyncs == ReindexSpec => Spec
<1>1. ReindexInit => Init
  BY DEF ReindexInit
<1> QED BY <1>1, LoopStep, LoopInvariance, PTL DEF ReindexSpec, Spec, reindexVars

\* Over any edits, moves and parse failures the graph mirrors the rows, no edge is
\* left behind, and the index is that of a rebuild.
THEOREM LoopMirrors ==
  ReindexSpec => []GraphMirrorsRows /\ []EdgesResolve /\ ImplementsContract
BY RunsAreSyncs, GraphMirrors, EdgesHang, Refines, PTL

\* ... and no run's transaction fails on a primary key.
THEOREM LoopCommits == ReindexSpec => []CanAlwaysCommit
<1>1. Loop /\ NeverConflicts => CanAlwaysCommit
  BY ExtractedIsExtraction DEF NeverConflicts, CanAlwaysCommit
<1> QED BY <1>1, LoopInvariance, RunsAreSyncs, NeverPoisoned, PTL

--------------------------------------------------------------------------------
(* What runs do to unparsable files, and to an unchanged tree. *)

\* A run leaves an unparsable file the imports that it had.
LEMMA RunRetains ==
  ASSUME Loop, IndexTree, NEW p \in X!Present(tree) \ X!Parsed(tree)
  PROVE  X!retained_imports(deps', p) = X!retained_imports(deps, p)
<1>1. /\ Extracted \in Extractions /\ ImportsInId(deps') /\ Ids(deps') = Ids(Extracted.deps)
  BY RunLoops
<1>2. X!retained_imports(deps', p) = X!retained_imports(Extracted.deps, p)
  BY <1>1, SameImports, ReindexAssumption
<1>3. X!retained_imports(Extracted.deps, p) = X!imports_of(tree, deps, p)
  BY ImportsExtracted DEF Extracted
<1>4. X!imports_of(tree, deps, p) = X!retained_imports(deps, p)
  BY DEF X!imports_of, X!Parsed
<1> QED BY <1>2, <1>3, <1>4

\* A file keeps the imports of its last successful parse through any number of
\* failures, while files it imports come, go and change their module.
THEOREM FailureRetains == ReindexSpec => ParseFailureRetains
<1>1. Loop /\ [ReindexNext]_reindexVars =>
        [IndexTree => \A p \in X!Present(tree) \ X!Parsed(tree) :
                        Specifiers(deps', p) = Specifiers(deps, p)]_reindexVars
  BY RunRetains DEF Specifiers
<1> QED BY <1>1, LoopInvariance, PTL DEF ReindexSpec, ParseFailureRetains, reindexVars

\* The rows are those of the extraction that a run would make now.
Settled ==
  LET x == Extracted
  IN /\ modules = x.modules /\ files = x.files
     /\ Ids(deps) = Ids(x.deps) /\ Ids(symbols) = Ids(x.symbols) /\ Ids(calls) = Ids(x.calls)
     /\ Ids(apis) = Ids(x.apis) /\ Ids(objects) = Ids(x.objects)
     /\ health = FirstById(x.health)
     /\ access_edges = {AccessEdge(e) : e \in x.accesses}

LEMMA EmptyBatch == FirstById({}) = {}
BY DEF FirstById, Ids

LEMMA SyncOfSame ==
  ASSUME NEW T, NEW batch, Ids(T) = Ids(batch)
  PROVE  Synced(T, batch) = T /\ StaleIds(T, batch) = {} /\ NewRows(batch, T) = {}
<1>1. StaleIds(T, batch) = {} /\ NewRows(batch, T) = {}
  BY DEF StaleIds, NewRows, Ids
<1> QED BY <1>1, EmptyBatch DEF Synced, WithoutIds

\* A run over rows that are settled writes none of them.
LEMMA SettledSync ==
  ASSUME TypeOK, PrimaryKeys, Loop, Settled, IndexTree
  PROVE  UNCHANGED <<rows, graph>>
<1> DEFINE x == Extracted
<1>1. x \in Extractions /\ sync_current_index(x)
  BY ExtractedIsExtraction DEF IndexTree
<1>2. /\ modules = x.modules /\ files = x.files
      /\ Ids(deps) = Ids(x.deps) /\ Ids(symbols) = Ids(x.symbols) /\ Ids(calls) = Ids(x.calls)
      /\ Ids(apis) = Ids(x.apis) /\ Ids(objects) = Ids(x.objects)
      /\ health = FirstById(x.health)
      /\ access_edges = {AccessEdge(e) : e \in x.accesses}
  BY DEF Settled
<1> HIDE DEF x
<1>3. modules' = modules /\ files' = files
  BY <1>1, <1>2, TreeSync
<1>4. deps' = deps /\ symbols' = symbols /\ calls' = calls /\ apis' = apis /\ objects' = objects
  BY <1>1, <1>2, SyncOfSame DEF sync_current_index, sync_index_rows, sync_code_facts
<1>5. health' = health
  BY <1>1, <1>2 DEF sync_current_index, replace_health_facts
<1>6. /\ files_to_add(x) = {} /\ files_to_remove(x) = {} /\ moved(x) = {}
      /\ modules_to_add(x) = {} /\ modules_to_remove(x) = {}
  BY <1>2 DEF files_to_add, files_to_remove, modules_to_add, modules_to_remove, NewRows, Ids,
              moved, files_to_update, PrimaryKeys, Keyed
<1>7. /\ dependencies_to_remove(x) = {} /\ dependencies_to_add(x) = {}
      /\ symbols_to_add(x) = {} /\ calls_to_add(x) = {} /\ apis_to_add(x) = {}
      /\ objects_to_add(x) = {} /\ HandledRows(x) = {}
  BY <1>2, SyncOfSame, EmptyBatch
     DEF dependencies_to_remove, dependencies_to_add, symbols_to_add, calls_to_add, apis_to_add,
         objects_to_add, HandledRows, Ids
<1>8. handlers_to_link(x) = {}
  BY <1>7, EmptyBatch DEF handlers_to_link, WithoutIds
<1>9. /\ StaleIds(symbols, x.symbols) = {} /\ StaleIds(calls, x.calls) = {}
      /\ StaleIds(apis, x.apis) = {} /\ StaleIds(objects, x.objects) = {}
  BY <1>2, SyncOfSame
<1>10. stale_access_ids(x) = {} /\ accesses_to_add(x) = {}
  BY <1>2 DEF stale_access_ids, accesses_to_add, NewRows, Ids
<1>11. deleted_node_ids(x) = {} /\ appended_nodes(x) = {}
  BY <1>6, <1>7, <1>9 DEF deleted_node_ids, appended_nodes, Ids
<1>12. deleted_edge_ids(x) = {}
  BY <1>6, <1>7, <1>9
     DEF deleted_edge_ids, deleted_file_edge_ids, deleted_dependency_edge_ids, deleted_code_edge_ids
<1>13. appended_edges(x) = {}
  BY <1>6, <1>7, <1>8, <1>10 DEF appended_edges, FileEdges, CallsEdges
<1>14. nodes' = nodes /\ edges' = edges
  BY <1>1, <1>10, <1>11, <1>12, <1>13
     DEF sync_current_index, sync_graph, kept_nodes, kept_edges, WithoutIds
<1> QED BY <1>3, <1>4, <1>5, <1>14 DEF rows, graph

\* A run settles the rows: another one over the same tree extracts the same.
LEMMA RunSettles ==
  ASSUME TypeOK, PrimaryKeys, EdgesInv, Loop, IndexTree
  PROVE  Settled'
<1> DEFINE x == Extracted
<1>1. x \in Extractions /\ sync_current_index(x) /\ UNCHANGED <<tree, layout>>
  BY ExtractedIsExtraction DEF IndexTree, world
<1>2. Extracted' = x
  <2>1. X!Extract(tree, layout, deps') = X!Extract(tree, layout, deps)
    BY RunRetains, ExtractOfImports
  <2> QED BY <1>1, <2>1 DEF Extracted
<1> HIDE DEF x
<1>3. modules' = x.modules /\ files' = x.files
  BY <1>1, TreeSync
<1>4. /\ Ids(deps') = Ids(x.deps) /\ Ids(symbols') = Ids(x.symbols) /\ Ids(calls') = Ids(x.calls)
      /\ Ids(apis') = Ids(x.apis) /\ Ids(objects') = Ids(x.objects)
  BY <1>1, TableSync DEF sync_current_index, sync_index_rows, sync_code_facts
<1>5. health' = FirstById(x.health)
  BY <1>1 DEF sync_current_index, replace_health_facts
<1>6. access_edges' = {AccessEdge(e) : e \in x.accesses}
  BY <1>1, AccessSync DEF EdgesInv, access_edges
<1> QED BY <1>2, <1>3, <1>4, <1>5, <1>6 DEF Settled

SettledOnceIndexed == indexed = world => Settled

\* Indexing again what was indexed writes a snapshot and nothing else, after any
\* history, and also when files do not parse.
THEOREM SecondRunIsNoOp == ReindexSpec => NoOpWhenUnchanged
<1>1. ReindexInit => SettledOnceIndexed
  BY ReindexAssumption DEF ReindexInit, SettledOnceIndexed, world
<1>2. TypeOK /\ PrimaryKeys /\ EdgesInv /\ Loop /\ SettledOnceIndexed /\ [ReindexNext]_reindexVars
      => SettledOnceIndexed'
  <2> SUFFICES ASSUME TypeOK, PrimaryKeys, EdgesInv, Loop, SettledOnceIndexed,
                      [ReindexNext]_reindexVars, (indexed = world)'
               PROVE  Settled'
    BY DEF SettledOnceIndexed
  <2>1. CASE IndexTree
    BY <2>1, RunSettles
  <2>2. CASE Edit \/ UNCHANGED reindexVars
    <3>1. UNCHANGED <<vars, indexed>> /\ (Edit => indexed = world)
      BY <2>2 DEF Edit, reindexVars
    <3>2. world' = world /\ Settled
      BY <2>2, <3>1 DEF SettledOnceIndexed, reindexVars
    <3>3. tree' = tree /\ layout' = layout
      BY <3>2 DEF world
    <3> QED BY <3>1, <3>2, <3>3 DEF Settled, Extracted, vars, rows, graph, access_edges
  <2> QED BY <2>1, <2>2 DEF ReindexNext
<1>3. TypeOK /\ PrimaryKeys /\ Loop /\ SettledOnceIndexed =>
        [IndexTree /\ indexed = world => UNCHANGED <<rows, graph>>]_reindexVars
  BY SettledSync DEF SettledOnceIndexed
<1> QED BY <1>1, <1>2, <1>3, LoopInvariance, RunsAreSyncs, TypeCorrect, KeysHold, EdgesInvariance, PTL
        DEF ReindexSpec, NoOpWhenUnchanged, reindexVars

================================================================================
