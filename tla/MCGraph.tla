-------------------------------- MODULE MCGraph ---------------------------------
(***************************************************************************)
(* Every graph of runtime imports over four modules of one file each, and  *)
(* over three modules every choice of imports among several files, with    *)
(* type-only, external and intra-module ones.                              *)
(***************************************************************************)
EXTENDS Cycles, Acdc, Diagnose

MCModules == 1 .. 4

\* File n of module m is in the directory <<m, n>>; its path is number 10m + n.
File(m, n) == [dir |-> <<m, n>>, name |-> 1]
PathOf(f) == 10 * f.dir[1] + f.dir[2]

Import(m, f, n, g) ==
  [source |-> m, target |-> n, kind |-> "import", external |-> FALSE,
   from |-> File(m, f), to |-> File(n, g), line |-> 1]
TypeOnly(m, n) == [Import(m, 1, n, 1) EXCEPT !.kind = "type_import", !.line = 2]
External(m) == [Import(m, 1, m, 1) EXCEPT !.external = TRUE, !.target = 9, !.to = NoFile]
Unresolved(m, n) == [Import(m, 2, n, 1) EXCEPT !.to = NoFile, !.line = 3]

PlainRows ==
  <<Import(1, 1, 2, 1), Import(1, 1, 3, 1), Import(1, 1, 4, 1), Import(2, 1, 1, 1),
    Import(2, 1, 3, 1), Import(2, 1, 4, 1), Import(3, 1, 1, 1), Import(3, 1, 2, 1),
    Import(3, 1, 4, 1), Import(4, 1, 1, 1), Import(4, 1, 2, 1), Import(4, 1, 3, 1)>>
RichRows ==
  <<Import(1, 1, 2, 1), Import(1, 2, 2, 2), Import(2, 1, 3, 1), Import(2, 2, 3, 1),
    Import(3, 1, 1, 2), TypeOnly(3, 1), Import(2, 1, 1, 1), Unresolved(3, 2),
    External(2), Import(1, 1, 1, 2), Import(1, 2, 1, 1)>>

\* The rich ones in both orders, so that a successor may come before a smaller one.
MCInputs ==
  LET Of(rows) == {SelectSeq(rows, LAMBDA d : d \in chosen) : chosen \in SUBSET Range(rows)}
  IN Of(PlainRows) \cup Of(RichRows) \cup Of(Reverse(RichRows))

--------------------------------------------------------------------------------
(* The graph that is persisted for these dependencies, with a symbol, a    *)
(* route and a table behind the first files.                               *)

Files == {File(m, n) : m \in MCModules, n \in 1 .. 2}
LocalFileRows(rows) == {d \in Range(rows) : ~ d.external /\ d.to # NoFile /\ d.from # d.to}

Node(id, kind, label) == [id |-> id, kind |-> kind, label |-> label]
FileNode(m, n) == Node(10 * m + n, "file", {500 + 10 * m + n})
core == 901
api == 902
db == 903
MCNodes ==
  <<Node(1, "module", {core}), Node(2, "module", {core, api}), Node(3, "module", {api}),
    Node(4, "module", {db}), Node(101, "symbol", {core}), Node(102, "api", {api}),
    Node(103, "table", {core, db}), Node(104, "table", {db}),
    FileNode(1, 1), FileNode(1, 2), FileNode(2, 1), FileNode(2, 2),
    FileNode(3, 1), FileNode(3, 2), FileNode(4, 1), FileNode(4, 2)>>

GraphEdge(s, t, kind) == [source |-> s, target |-> t, kind |-> kind]
MCEdges(rows) ==
  {GraphEdge(e[1], e[2], "depends_on") : e \in local_dependency_edges(rows)}
  \cup {GraphEdge(PathOf(d.from), PathOf(d.to), "depends_on") : d \in LocalFileRows(rows)}
  \cup {GraphEdge(d.source, PathOf(d.from), "contains") : d \in Range(rows)}
  \cup {GraphEdge(102, 101, "handles"), GraphEdge(101, 103, "reads"), GraphEdge(11, 102, "exposes")}

\* The first two modules, a symbol, a table and a file.
MCStarts == {MCNodes[i].id : i \in {1, 2, 5, 7, 9}}
MCDepths == {1, 3}

--------------------------------------------------------------------------------

MCDirectory == [f \in {11, 12, 21, 22, 31, 32, 41, 42} |-> 10 * (f \div 10)]
MCStems == [f \in {31, 32} |-> "pair"]

\* Files are clustered as ClusteringSound says, whatever imports what.
ClustersAreContainment ==
  Done =>
    LET files == {PathOf(f) : f \in Files}
        units == Units(files)
        edges == UnitEdges(files, {<<PathOf(d.from), PathOf(d.to)>> : d \in LocalFileRows(deps)})
    IN ClusteringSound(units, edges, cluster(units, edges))

--------------------------------------------------------------------------------

\* By directory, by package, with the `src` layer of two packages dropped, and
\* without one package.
MCDiagnose ==
  LET by_directory == [component_depth |-> 0, exclude_names |-> {}, exclude_dirs |-> {},
                       component_roots |-> {}]
  IN {by_directory, [by_directory EXCEPT !.component_depth = 1],
      [by_directory EXCEPT !.component_roots = {<<1>>, <<3>>}],
      [by_directory EXCEPT !.component_depth = 1, !.exclude_dirs = {4}]}

DiagnoseInput ==
  [files |-> Files, deps |-> deps, co_change |-> {}, churn |-> [f \in Files |-> 0],
   complexity |-> [f \in Files |-> 0], abstract |-> [f \in Files |-> 0], total |-> [f \in Files |-> 0]]

\* The ends of a runtime import that lies on a loop of imports are in one reported
\* loop of files, or their components in one of components.  Each report shows a loop, a
\* closed walk of such imports, each from where the one before it leads; or none, if all
\* loops of its members are longer than is looked for.
LoopsAreDiagnosed ==
  Done =>
    \A config \in MCDiagnose :
      LET of_components == detect_cyclic_dependency(build_graph(DiagnoseInput, config), DiagnoseInput, config)
          of_files == detect_file_cycle(DiagnoseInput, config)
          used == {d \in Range(load_component_inputs(deps)) :
                     is_runtime_edge(d) /\ ~ is_excluded(d.from, config) /\ ~ is_excluded(d.to, config)}
          imports == {<<d.from, d.to>> : d \in used}
          component == [f \in Files |-> component_for(f, config)]
          Number(f) == PathNumber(Path(f))
          Closed(w, members, group(_)) ==
            /\ w = <<>> =>
                 LET hops == {e \in {<<group(i[1]), group(i[2])>> : i \in imports} :
                                e[1] # e[2] /\ {e[1], e[2]} \subseteq members}
                 IN \A e \in hops : e[1] \notin AtMost(hops, e[2], MaxCycleDepth - 1)
            /\ Len(w) # 1
            /\ \A i \in DOMAIN w : LET next == w[(i % Len(w)) + 1] IN
                 /\ <<w[i].from, w[i].to>> \in imports
                 /\ group(w[i].to) = group(next.from) /\ group(w[i].from) # group(w[i].to)
      IN /\ \A e \in imports : e[1] # e[2] /\ e[1] \in ReachableFrom(e[2], imports) =>
              \/ /\ component[e[1]] = component[e[2]]
                 /\ \E x \in of_files : {Number(e[1]), Number(e[2])} \subseteq x.members
              \/ \E x \in of_components : {component[e[1]], component[e[2]]} \subseteq x.members
         /\ \A x \in of_components : Closed(x.evidence, x.members, LAMBDA f : component[f])
         /\ \A x \in of_files : Closed(x.evidence, x.members, Number)

================================================================================
