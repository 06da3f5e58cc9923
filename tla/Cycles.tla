-------------------------------- MODULE Cycles ---------------------------------
(***************************************************************************)
(* The report of dependency cycles.  Tarjan's algorithm, iterative, one    *)
(* action for each turn of its loop, finds the components; a bounded       *)
(* search enumerates the elementary cycles of each, the shortest first;    *)
(* each cycle gets file-level imports as witnesses.                        *)
(***************************************************************************)
EXTENDS ModuleGraph

CONSTANTS
  Inputs,           \* the dependency sequences a run of the analysis may meet
  graph_nodes,      \* the nodes of the persisted graph, in order of id
  graph_edges(_),   \* dependencies -> the edges that an index run persists for them
  BlastStarts,      \* ids whose blast radius is asked for
  BlastDepths       \* the depth limits it is asked with

ASSUME ModulesAreFinite == IsFiniteSet(Modules)
ASSUME ModulesAreNames == Modules \subseteq Nat
ASSUME ReportsAreCut == MaxPaths \in Nat
ASSUME InputsAreSequences == \A input \in Inputs : input \in Seq(Range(input))
ASSUME InputsJoinNames == \A input \in Inputs : \A d \in Range(input) : d.source \in Nat /\ d.target \in Nat

\* Ids have an order, too; no label reads like an id.
ASSUME NodesHaveIds ==
  /\ graph_nodes \in Seq(Range(graph_nodes))
  /\ \A n \in Range(graph_nodes) : n.id \in Nat /\ \A m \in Range(graph_nodes) : m.label # {n.id}
ASSUME EdgesJoinIds ==
  \A input \in Inputs :
    /\ IsFiniteSet(graph_edges(input))
    /\ \A e \in graph_edges(input) : e.source \in Nat /\ e.target \in Nat
ASSUME RadiusOfNodes ==
  BlastStarts \subseteq {n.id : n \in Range(graph_nodes)} /\ BlastDepths \subseteq Nat

VARIABLES
  deps,       \* the dependencies of the snapshot
  index,      \* module -> order of discovery, or Undiscovered
  lowlink,
  stack,      \* modules of components that are still open
  dfs,        \* frames [node, pos]
  sccs,       \* closed components of two modules or more
  cycles      \* the report, or Pending

cycles_vars == <<deps, index, lowlink, stack, dfs, sccs, cycles>>

Undiscovered == -1
Pending == <<<<>>>>

succ(m) == successors(m, Modules, deps)

CyclesInit ==
  /\ deps \in Inputs
  /\ index = [m \in Modules |-> Undiscovered] /\ lowlink = [m \in Modules |-> 0]
  /\ stack = <<>> /\ dfs = <<>> /\ sccs = <<>> /\ cycles = Pending

counter == Cardinality({m \in Modules : index[m] # Undiscovered})

discover(m) ==
  /\ index' = [index EXCEPT ![m] = counter]
  /\ lowlink' = [lowlink EXCEPT ![m] = counter]
  /\ stack' = Append(stack, m)
  /\ UNCHANGED <<deps, sccs, cycles>>

\* The next start of the outer loop.
visit ==
  /\ dfs = <<>>
  /\ \E m \in Modules :
       /\ index[m] = Undiscovered
       /\ \A n \in Modules : n < m => index[n] # Undiscovered
       /\ discover(m)
       /\ dfs' = <<[node |-> m, pos |-> 1]>>

Top == Last(dfs)

\* The next successor of the node in the top frame.
advance ==
  /\ dfs # <<>> /\ Top.pos <= Len(succ(Top.node))
  /\ LET next == succ(Top.node)[Top.pos]
         moved == Append(Front(dfs), [Top EXCEPT !.pos = @ + 1])
     IN IF index[next] = Undiscovered
        THEN discover(next) /\ dfs' = Append(moved, [node |-> next, pos |-> 1])
        ELSE /\ dfs' = moved
             /\ lowlink' = IF next \in Range(stack)
                           THEN [lowlink EXCEPT ![Top.node] = Smaller(@, index[next])]
                           ELSE lowlink
             /\ UNCHANGED <<deps, index, stack, sccs, cycles>>

\* Faulty variant: the component is taken from the bottom of the stack.
close_scc_all(node) == [scc |-> stack, rest |-> <<>>]

\* What is popped, with the node last, and what stays.
close_scc(node) ==
  LET at == CHOOSE i \in DOMAIN stack : stack[i] = node
  IN [scc |-> Reverse(SubSeq(stack, at, Len(stack))), rest |-> SubSeq(stack, 1, at - 1)]

\* The top frame has no successor left.
retreat ==
  /\ dfs # <<>> /\ Top.pos > Len(succ(Top.node))
  /\ dfs' = Front(dfs)
  /\ lowlink' = IF Len(dfs) = 1 THEN lowlink
                ELSE [lowlink EXCEPT ![dfs[Len(dfs) - 1].node] = Smaller(@, lowlink[Top.node])]
  /\ IF lowlink[Top.node] = index[Top.node]
     THEN LET closed == close_scc(Top.node)
          IN /\ stack' = closed.rest
             /\ sccs' = IF Len(closed.scc) >= 2 THEN Append(sccs, closed.scc) ELSE sccs
     ELSE UNCHANGED <<stack, sccs>>
  /\ UNCHANGED <<deps, index, cycles>>

\* By length, then by first member; the sort is stable.
cycles_from_adjacency(components) ==
  LET listed == FlattenSeq([i \in DOMAIN components |->
                  IF Len(components[i]) = 2 THEN <<canonical(components[i])>>
                  ELSE enumerate_scc_cycles(Range(components[i]), deps)])
      before(i, j) ==
        \/ Len(listed[i]) < Len(listed[j])
        \/ Len(listed[i]) = Len(listed[j]) /\ listed[i][1] < listed[j][1]
        \/ Len(listed[i]) = Len(listed[j]) /\ listed[i][1] = listed[j][1] /\ i < j
      order == Sorted(DOMAIN listed, before)
  IN [i \in DOMAIN order |-> listed[order[i]]]

elementary_cycles ==
  /\ dfs = <<>> /\ cycles = Pending
  /\ \A m \in Modules : index[m] # Undiscovered
  /\ cycles' = cycles_from_adjacency(sccs)
  /\ UNCHANGED <<deps, index, lowlink, stack, dfs, sccs>>

CyclesNext == visit \/ advance \/ retreat \/ elementary_cycles

CyclesSpec == CyclesInit /\ [][CyclesNext]_cycles_vars

--------------------------------------------------------------------------------
(* Loops between sibling directories inside one module. *)

Nests(outer, inner) == IsStrictPrefix(outer, inner)

IntraEdges ==
  {e \in {<<d.from.dir, d.to.dir>> : d \in {r \in Range(deps) :
            ~ r.external /\ is_runtime_edge(r) /\ r.source = r.target /\ r.to # NoFile}} :
     e[1] # e[2] /\ ~ Nests(e[1], e[2]) /\ ~ Nests(e[2], e[1])}

\* strongly_connected again, as a function of the directories.
intra_module_cycle_count ==
  Cardinality(kosaraju_scc({e[1] : e \in IntraEdges} \cup {e[2] : e \in IntraEdges}, IntraEdges))

--------------------------------------------------------------------------------
(* Properties. *)

Runtime == Within(runtime_edges(deps), Modules)
Done == cycles # Pending

\* Whatever the order of discovery, each closed component is a maximal set of
\* modules that reach each other, and none is closed twice.  At the end there are
\* as many as the summary counts by another algorithm.
ComponentsExact ==
  /\ \A i \in DOMAIN sccs :
       IsInjective(sccs[i]) /\ Range(sccs[i]) \in kosaraju_scc(Modules, Runtime)
  /\ IsInjective([i \in DOMAIN sccs |-> Range(sccs[i])])
  /\ Done => Len(sccs) = cycle_count(deps)

\* Where a cycle is listed the summary calls the risk high, and a module of a
\* component is a hotspot unless as many others, all that are shown, score as high.
SummaryAgrees ==
  Done => LET top == hotspots(deps) IN
    /\ cycles # <<>> => summary_risk(deps) \in {"high", "critical"}
    /\ \A i \in DOMAIN sccs : \A m \in Range(sccs[i]) \ Range(top) :
         Len(top) = MaxHotspots
         /\ \A k \in DOMAIN top : HotspotScore(top[k], deps) >= HotspotScore(m, deps)

IsCycle(c) ==
  /\ IsInjective(c) /\ Len(c) >= 2 /\ canonical(c) = c
  /\ \A i \in DOMAIN c : <<c[i], c[(i % Len(c)) + 1]>> \in Runtime

ElementaryCycles ==
  {c \in UNION {[1 .. n -> Modules] : n \in 2 .. Cardinality(Modules)} : IsCycle(c)}

\* The report lists elementary cycles of up to MaxCycleDepth modules, each once, and
\* for each component all of them, or the most that it may with none shorter left out.
\* A component whose cycles are all longer has none listed, although it is counted.
LoopsExact ==
  Done =>
    /\ \A i \in DOMAIN cycles : IsCycle(cycles[i]) /\ Len(cycles[i]) <= MaxCycleDepth
    /\ IsInjective(cycles)
    /\ \A k \in DOMAIN sccs :
         LET own == {c \in Range(cycles) : Range(c) \subseteq Range(sccs[k])}
             left == {c \in ElementaryCycles : Range(c) \subseteq Range(sccs[k])} \ own
         IN /\ Cardinality(own) <= MaxCyclesPerScc
            /\ \A c \in left : Len(c) > MaxCycleDepth
                 \/ (Cardinality(own) = MaxCyclesPerScc /\ \A o \in own : Len(o) <= Len(c))

\* Every hop of a reported cycle has an import as its witness; a loop that
\* passes through a changed file names an import of such a file; and a hop
\* starts at the file the one before arrived at whenever that file goes on.
WitnessesConnect ==
  Done => \A c \in Range(cycles), changed \in {{f} : f \in {d.from : d \in Range(deps)}} \cup {{}} :
    LET w == witness_walk_preferring(c, deps, changed)
        OnTheWay(d) == Crossing(d) /\ is_runtime_edge(d)
                       /\ \E i \in DOMAIN c : d.source = c[i] /\ d.target = c[(i % Len(c)) + 1]
        Breaks == {i \in DOMAIN w : LET n == w[(i % Len(c)) + 1] IN
                     /\ n.from # w[i].to
                     /\ \E d \in Range(deps) : OnTheWay(d) /\ d.from = w[i].to /\ d.source = n.source}
    IN /\ Len(w) = Len(c)
       /\ \A i \in DOMAIN w : OnTheWay(w[i]) /\ w[i].source = c[i]
       /\ (\E d \in Range(deps) : OnTheWay(d) /\ d.from \in changed)
            => \E i \in DOMAIN w : w[i].from \in changed
       /\ Cardinality(Breaks) <= 1

\* The loops of each component are listed as far as the limits allow, with imports that
\* witness them, and the summary agrees with the list.
CyclesExact == SummaryAgrees /\ LoopsExact /\ WitnessesConnect

\* The name that is printed for a node leads back to a node of that label.
TargetsResolve ==
  \A n \in Range(graph_nodes) :
    \E found \in resolve_target(target_syntax(n), graph_nodes) : found.label = n.label

\* Blast radius and impact reach exactly what the depth allows, each node by a shortest
\* path, whichever way they look; and where impact cuts its paths, what they leave out
\* is no nearer than what they show.  (Blast radius cuts its own by label, not by
\* length.)
BlastExact ==
  /\ TargetsResolve
  /\ Done =>
       \A direction \in Directions, k \in BlastDepths :
         /\ \A n \in BlastStarts :
              LET b == blast_radius(Range(graph_nodes), graph_edges(deps), n, direction, k)
                  edges == Directed(ImpactEdges(graph_edges(deps)), direction)
              IN /\ b.visited = AtMost(edges, n, k) \ {n}
                 /\ Ends(b.found) = b.visited /\ ShortestPaths(b.found, n, edges)
         /\ \A m \in BlastStarts \cap Modules :
              LET i == impact(m, direction, k, deps)
                  edges == Directed(local_dependency_edges(deps), direction)
              IN /\ i.affected = AtMost(edges, m, k) \ {m}
                 /\ Ends(i.paths) \subseteq i.affected /\ ShortestPaths(i.paths, m, edges)
                 /\ \A n \in i.affected \ Ends(i.paths), j \in DOMAIN i.paths :
                      n \notin AtMost(edges, m, Len(i.paths[j]) - 2)

================================================================================
