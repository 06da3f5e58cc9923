------------------------------- MODULE IndexSync -------------------------------
(***************************************************************************)
(* sync_current_index of ovecc-db: one transaction that brings the         *)
(* persisted index (rows of modules, files, dependencies and code facts,   *)
(* and the graph nodes and edges derived from them) from whatever an       *)
(* earlier run left to what the indexer has just extracted, touching only  *)
(* the rows whose id appeared, vanished or (for files) whose hash or       *)
(* module changed.                                                         *)
(*                                                                         *)
(* An id is the hash of the parts that identify a row; it is modelled as   *)
(* the tuple of those parts, so that two rows have one id exactly when     *)
(* their parts agree.                                                      *)
(***************************************************************************)
EXTENDS Naturals, Sequences, Sets

CONSTANTS
  Extractions,    \* the states an indexing run may hand to the sync
  None,           \* SQL NULL: no target file, unresolved callee or handler
  MaxSnapshots    \* bound of the model: number of syncs

AccessKinds == {"reads", "writes"}

(***************************************************************************)
(* What every extraction satisfies.  A path is discovered once, a module   *)
(* is recorded for every file, and the count in a call id makes calls      *)
(* distinct.  A symbol's id contains the path of its file.  Two APIs, or a *)
(* table seen as two kinds of object, may share an id within one batch.    *)
(***************************************************************************)
WellFormed(x) ==
  /\ Keyed(x.modules) /\ Keyed(x.files) /\ Keyed(x.calls)
  /\ \A f \in x.files : f.module \in Ids(x.modules)
  /\ \A s \in x.symbols : s.file \in Ids(x.files)
  /\ \A e \in x.accesses : e.kind \in AccessKinds

AllModules == UNION {x.modules : x \in Extractions}
AllFiles   == UNION {x.files : x \in Extractions}
AllSymbols == UNION {x.symbols : x \in Extractions}
AllApis    == UNION {x.apis : x \in Extractions}
AllObjects == UNION {x.objects : x \in Extractions}

\* An id starts with the kind of row it identifies.
IdsByKind ==
  /\ Ids(AllModules) \cap Ids(AllFiles \cup AllSymbols \cup AllApis \cup AllObjects) = {}
  /\ Ids(AllFiles) \cap Ids(AllSymbols \cup AllApis \cup AllObjects) = {}
  /\ Ids(AllSymbols) \cap Ids(AllApis \cup AllObjects) = {}
  /\ Ids(AllApis) \cap Ids(AllObjects) = {}

ASSUME ExtractionsAssumption ==
  /\ \A x \in Extractions : WellFormed(x)
  /\ \A s, t \in AllSymbols : s.id = t.id => s.file = t.file
  /\ IdsByKind

\* The rows the sync rewrites in place have the columns it compares and no other.
ASSUME ColumnsAssumption ==
  /\ \A m \in AllModules : m = [id |-> m.id, prefix |-> m.prefix]
  /\ \A f \in AllFiles : f = [id |-> f.id, hash |-> f.hash, module |-> f.module]

ASSUME MaxSnapshotsAssumption == MaxSnapshots \in Nat

VARIABLES
  repository,   \* when the repository row was created and last updated
  modules,      \* rows [id, prefix]
  files,        \* rows [id, hash, module]
  deps,         \* rows [id, specifier, source, target, sourceModule, targetModule]
  symbols,      \* rows [id, file, module]
  calls,        \* rows [id, caller, callee]
  apis,         \* rows [id, module, handler]
  objects,      \* schema objects, rows [id, kind]
  health,       \* complexity, exports and capability rows of the last run
  nodes,        \* graph_nodes, rows [id, kind]
  edges,        \* graph_edges, rows [id, source, target, kind]
  snapshots     \* the append-only snapshot tables, oldest first

rows == <<modules, files, deps, symbols, calls, apis, objects, health>>
graph == <<nodes, edges>>
vars == <<repository, rows, graph, snapshots>>

--------------------------------------------------------------------------------
(* Graph rows derived from the relational rows. *)

Edge(id, source, target, kind) ==
  [id |-> id, source |-> source, target |-> target, kind |-> kind]

Node(row, kind) == [id |-> row.id, kind |-> kind]

contains_edge_id(module, file) == <<"contains", module, file>>
depends_on_edge_id(source, target, dep) == <<"depends_on", source, target, dep>>
depends_on_file_edge_id(dep) == <<"depends_on_file", dep>>
code_edge_id(fact, kind) == <<kind, fact>>

ContainsEdge(f) ==
  Edge(contains_edge_id(f.module, f.id), f.module, f.id, "contains")

ModuleEdge(d) ==
  Edge(depends_on_edge_id(d.sourceModule, d.targetModule, d.id),
       d.sourceModule, d.targetModule, "depends_on")

\* Only an internal dependency on another file has a file edge.
HasFileEdge(d) == d.target # None /\ d.target # d.source
FileEdge(d) == Edge(depends_on_file_edge_id(d.id), d.source, d.target, "depends_on")

DeclaresEdge(s) == Edge(code_edge_id(s.id, "declares"), s.file, s.id, "declares")
CallsEdge(c) == Edge(code_edge_id(c.id, "calls"), c.caller, c.callee, "calls")
ExposesEdge(a) == Edge(code_edge_id(a.id, "exposes"), a.module, a.id, "exposes")
HandlesEdge(a) == Edge(code_edge_id(a.id, "handles"), a.id, a.handler, "handles")

AccessEdge(e) ==
  Edge(<<"access", e.source, e.target, e.kind>>, e.source, e.target, e.kind)

FileEdges(D) == {FileEdge(d) : d \in {d \in D : HasFileEdge(d)}}
CallsEdges(C) == {CallsEdge(c) : c \in {c \in C : c.callee # None}}

--------------------------------------------------------------------------------
(* The delta between the persisted rows and the extraction x. *)

files_to_add(x) == NewRows(x.files, files)
files_to_remove(x) == {f \in files : f.id \notin Ids(x.files)}

\* Faulty variant: only the content is compared.
files_to_update_by_hash(x) ==
  {p \in x.files \X files : p[1].id = p[2].id /\ p[1].hash # p[2].hash}

\* Pairs <<fresh, persisted>>: the hash or the module changed.
files_to_update(x) ==
  {p \in x.files \X files :
     p[1].id = p[2].id /\ (p[1].hash # p[2].hash \/ p[1].module # p[2].module)}

moved(x) == {p \in files_to_update(x) : p[1].module # p[2].module}

modules_to_add(x) == NewRows(x.modules, modules)
modules_to_remove(x) == {m \in modules : m.id \notin Ids(x.modules)}
modules_to_reprefix(x) ==
  {m \in x.modules : \E old \in modules : old.id = m.id /\ old.prefix # m.prefix}

\* A dependency is added or removed, never rewritten.
dependencies_to_add(x) == FirstById(NewRows(x.deps, deps))
dependencies_to_remove(x) == {d \in deps : d.id \notin Ids(x.deps)}

symbols_to_add(x) == FirstById(NewRows(x.symbols, symbols))
calls_to_add(x) == FirstById(NewRows(x.calls, calls))
apis_to_add(x) == FirstById(NewRows(x.apis, apis))
objects_to_add(x) == FirstById(NewRows(x.objects, objects))

\* The row that gives an API its handles edge: the appended row when its
\* handler is resolved, else another registration under the same id.
HandledRows(x) == {a \in NewRows(x.apis, apis) : a.handler # None}
handlers_to_link(x) ==
  LET resolved == {a \in apis_to_add(x) : a.handler # None}
  IN resolved \cup FirstById(WithoutIds(HandledRows(x), Ids(resolved)))

--------------------------------------------------------------------------------
(* What the transaction deletes from and appends to the graph. *)

\* Faulty variant: a moved file loses the edge of the module it moved to.
deleted_file_edge_ids_of_new_module(x) ==
  {contains_edge_id(f.module, f.id) : f \in files_to_remove(x)}
  \cup {contains_edge_id(p[1].module, p[1].id) : p \in moved(x)}

deleted_file_edge_ids(x) ==
  {contains_edge_id(f.module, f.id) : f \in files_to_remove(x)}
  \cup {contains_edge_id(p[2].module, p[2].id) : p \in moved(x)}

deleted_dependency_edge_ids(x) ==
  {depends_on_edge_id(d.sourceModule, d.targetModule, d.id) :
     d \in dependencies_to_remove(x)}
  \cup {depends_on_file_edge_id(d.id) : d \in dependencies_to_remove(x)}

\* Faulty variant: the declares edges of vanished symbols stay.
deleted_code_edge_ids_but_declares(x) ==
  {code_edge_id(i, "calls") : i \in StaleIds(calls, x.calls)}
  \cup {code_edge_id(i, kind) :
          i \in StaleIds(apis, x.apis), kind \in {"exposes", "handles"}}

deleted_code_edge_ids(x) ==
  {code_edge_id(i, "declares") : i \in StaleIds(symbols, x.symbols)}
  \cup {code_edge_id(i, "calls") : i \in StaleIds(calls, x.calls)}
  \cup {code_edge_id(i, kind) :
          i \in StaleIds(apis, x.apis), kind \in {"exposes", "handles"}}

deleted_edge_ids(x) ==
  deleted_file_edge_ids(x) \cup deleted_dependency_edge_ids(x) \cup deleted_code_edge_ids(x)

\* Access edges are diffed against the persisted access edges themselves.
access_edges == {e \in edges : e.kind \in AccessKinds}
stale_access_ids(x) == Ids(access_edges) \ {AccessEdge(e).id : e \in x.accesses}
accesses_to_add(x) == NewRows({AccessEdge(e) : e \in x.accesses}, access_edges)

appended_edges(x) ==
  {ContainsEdge(f) : f \in files_to_add(x)}
  \cup {ContainsEdge(p[1]) : p \in moved(x)}
  \cup {ModuleEdge(d) : d \in dependencies_to_add(x)}
  \cup FileEdges(dependencies_to_add(x))
  \cup {DeclaresEdge(s) : s \in symbols_to_add(x)}
  \cup CallsEdges(calls_to_add(x))
  \cup {ExposesEdge(a) : a \in apis_to_add(x)}
  \cup {HandlesEdge(a) : a \in handlers_to_link(x)}
  \cup accesses_to_add(x)

kept_edges(x) == WithoutIds(edges, deleted_edge_ids(x) \cup stale_access_ids(x))

\* Faulty variant: the node of a vanished API stays.
deleted_node_ids_but_apis(x) ==
  Ids(files_to_remove(x)) \cup Ids(modules_to_remove(x))
  \cup StaleIds(symbols, x.symbols) \cup StaleIds(objects, x.objects)

deleted_node_ids(x) ==
  Ids(files_to_remove(x)) \cup Ids(modules_to_remove(x))
  \cup StaleIds(symbols, x.symbols) \cup StaleIds(apis, x.apis)
  \cup StaleIds(objects, x.objects)

appended_nodes(x) ==
  {Node(m, "module") : m \in modules_to_add(x)}
  \cup {Node(f, "file") : f \in files_to_add(x)}
  \cup {Node(s, "symbol") : s \in symbols_to_add(x)}
  \cup {Node(a, "api") : a \in apis_to_add(x)}
  \cup {Node(o, o.kind) : o \in objects_to_add(x)}

kept_nodes(x) == WithoutIds(nodes, deleted_node_ids(x))

\* An appended row whose primary key is taken poisons the transaction.
KeyConflict(x) ==
  \/ ~ Keyed(kept_nodes(x) \cup appended_nodes(x))
  \/ ~ Keyed(kept_edges(x) \cup appended_edges(x))
  \/ Ids(kept_edges(x)) \cap Ids(appended_edges(x)) # {}
  \/ Ids(kept_nodes(x)) \cap Ids(appended_nodes(x)) # {}

--------------------------------------------------------------------------------
(* The rows of one appended snapshot. *)
SnapshotOf(x) ==
  [modules |-> Ids(x.modules),
   files   |-> {<<f.id, f.hash>> : f \in x.files},
   deps    |-> {<<d.sourceModule, d.targetModule, d.target = None>> : d \in x.deps}]

Init ==
  /\ repository = None
  /\ modules = {} /\ files = {} /\ deps = {}
  /\ symbols = {} /\ calls = {} /\ apis = {} /\ objects = {} /\ health = {}
  /\ nodes = {} /\ edges = {}
  /\ snapshots = <<>>

\* created_at survives re-indexing.
upsert_repository ==
  LET now == Len(snapshots) + 1
  IN repository' = [created |-> IF repository = None THEN now ELSE repository.created,
                    updated |-> now]

sync_index_rows(x) ==
  /\ modules' = WithoutIds(modules, Ids(modules_to_remove(x) \cup modules_to_reprefix(x)))
                  \cup modules_to_add(x) \cup modules_to_reprefix(x)
  /\ files' = WithoutIds(files, Ids(files_to_remove(x))
                                  \cup {p[1].id : p \in files_to_update(x)})
                \cup files_to_add(x) \cup {p[1] : p \in files_to_update(x)}
  /\ deps' = Synced(deps, x.deps)

sync_code_facts(x) ==
  /\ symbols' = Synced(symbols, x.symbols)
  /\ calls' = Synced(calls, x.calls)
  /\ apis' = Synced(apis, x.apis)
  /\ objects' = Synced(objects, x.objects)

sync_graph(x) ==
  /\ nodes' = kept_nodes(x) \cup appended_nodes(x)
  /\ edges' = kept_edges(x) \cup appended_edges(x)

replace_health_facts(x) == health' = FirstById(x.health)

append_snapshot_rows(x) == snapshots' = Append(snapshots, SnapshotOf(x))

\* One committed transaction; an aborted one leaves the store as it was.
sync_current_index(x) ==
  /\ Len(snapshots) < MaxSnapshots
  /\ ~ KeyConflict(x)
  /\ upsert_repository
  /\ sync_index_rows(x)
  /\ sync_code_facts(x)
  /\ sync_graph(x)
  /\ replace_health_facts(x)
  /\ append_snapshot_rows(x)

Next == \E x \in Extractions : sync_current_index(x)

Spec == Init /\ [][Next]_vars
--------------------------------------------------------------------------------
(* Properties. *)

\* Every persisted row was extracted by some run: the sync invents no row.
TypeOK ==
  /\ repository \in {None} \cup [created : Nat, updated : Nat]
  /\ modules \subseteq AllModules
  /\ files \subseteq AllFiles
  /\ deps \subseteq UNION {x.deps : x \in Extractions}
  /\ symbols \subseteq AllSymbols
  /\ calls \subseteq UNION {x.calls : x \in Extractions}
  /\ apis \subseteq AllApis
  /\ objects \subseteq AllObjects
  /\ health \subseteq UNION {x.health : x \in Extractions}
  /\ snapshots \in Seq({SnapshotOf(x) : x \in Extractions})

\* No table ever holds two rows under one primary key, in particular not the
\* graph tables, whose rows are appended and deleted by recomputed ids.
PrimaryKeys ==
  /\ Keyed(modules) /\ Keyed(files) /\ Keyed(deps)
  /\ Keyed(symbols) /\ Keyed(calls) /\ Keyed(apis) /\ Keyed(objects)
  /\ Keyed(nodes) /\ Keyed(edges)

\* graph_nodes mirrors the rows: every row of a table that has nodes has its
\* node, and no node outlives its row (append_index_graph_nodes,
\* append_code_graph_nodes against the deletes).
RowNodes ==
  {Node(m, "module") : m \in modules} \cup {Node(f, "file") : f \in files}
  \cup {Node(s, "symbol") : s \in symbols} \cup {Node(a, "api") : a \in apis}
  \cup {Node(o, o.kind) : o \in objects}

NodesMirrorRows == nodes = RowNodes

\* graph_edges mirrors the rows: the edges owned by a row are exactly those
\* derived from the columns persisted in it, so a delete that recomputes an
\* edge id from persisted columns always finds its edge and leaves no orphan.
RowEdges ==
  {ContainsEdge(f) : f \in files}
  \cup {ModuleEdge(d) : d \in deps} \cup FileEdges(deps)
  \cup {DeclaresEdge(s) : s \in symbols}
  \cup CallsEdges(calls)
  \cup {ExposesEdge(a) : a \in apis}

MirroredKinds == {"contains", "depends_on", "declares", "calls", "exposes"}

EdgesMirrorRows == {e \in edges : e.kind \in MirroredKinds} = RowEdges

\* The graph tables and the rows say the same, whatever was moved, renamed, removed and
\* added again in between.
GraphMirrorsRows == NodesMirrorRows /\ EdgesMirrorRows

\* A handles edge starts at a persisted API, and every persisted API with a
\* handler has one.
HandlesOwned ==
  /\ \A e \in edges : e.kind = "handles" =>
       \E a \in apis : e.id = code_edge_id(a.id, "handles") /\ e.source = a.id
  /\ \A a \in apis : a.handler # None => HandlesEdge(a) \in edges

\* The containment and declaration edges connect existing nodes, after any
\* history of moved, removed and re-added files.
StructureResolves ==
  \A e \in edges : e.kind \in {"contains", "declares"} =>
    e.source \in Ids(nodes) /\ e.target \in Ids(nodes)

\* No edge is left without what it hangs on.
EdgesResolve == StructureResolves /\ HandlesOwned

--------------------------------------------------------------------------------
(* The differential sync implements the rebuild of IndexContract. *)

StructureKinds == {"contains", "declares"} \cup AccessKinds

StructureOf(x) ==
  {ContainsEdge(f) : f \in x.files} \cup {DeclaresEdge(s) : s \in x.symbols}
  \cup {AccessEdge(e) : e \in x.accesses}

NodeIdsOf(x) ==
  Ids(x.modules) \cup Ids(x.files) \cup Ids(x.symbols) \cup Ids(x.apis) \cup Ids(x.objects)

HealthOf(x) == FirstById(x.health)

Contract == INSTANCE IndexContract WITH
  depIds <- Ids(deps), symbolIds <- Ids(symbols), callIds <- Ids(calls),
  apiIds <- Ids(apis), objectIds <- Ids(objects),
  structure <- {e \in edges : e.kind \in StructureKinds},
  nodeIds <- Ids(nodes),
  history <- snapshots

\* Seen through ids and structure, no history of differential runs can be told
\* from deleting everything and inserting the last extraction.
ImplementsContract == Contract!Spec

================================================================================
