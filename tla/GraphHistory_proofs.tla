------------------------------ MODULE GraphHistory_proofs ------------------------------
(***************************************************************************)
(* What a review reads beside the code.  Tarjan's search closes the        *)
(* strongly connected components of the modules and nothing else, and      *)
(* blast radius and impact find what their depth allows by shortest paths, *)
(* for every graph of dependencies.  Verdicts on commits are kept, and     *)
(* what the index stores of the history follows the files through their    *)
(* names, for any repository, thresholds and number of commits, runs,      *)
(* upgrades and interruptions; to a diagnosis that history only adds.      *)
(***************************************************************************)
EXTENDS Cycles, History, Closure_proofs

--------------------------------------------------------------------------------
(* Reachability, and the components that are made of it. *)

HasPath(x, y, edges) == y \in Closure({x}, edges)
Component(m, nodes, edges) == {x \in nodes : HasPath(m, x, edges) /\ HasPath(x, m, edges)}

LEMMA SourcesAreFinite ==
  ASSUME NEW nodes, NEW edges, IsGraph(nodes, edges)
  PROVE  IsFiniteSet(Sources(edges))
<1>1. Sources(edges) \in SUBSET nodes
  BY DEF Sources, IsGraph
<1> QED BY <1>1, FS_Subset DEF IsGraph

LEMMA HasPathIsLeast ==
  ASSUME NEW nodes, NEW edges, IsGraph(nodes, edges), NEW x
  PROVE  /\ HasPath(x, x, edges)
         /\ \A e \in edges : HasPath(x, e[1], edges) => HasPath(x, e[2], edges)
         /\ \A T, y : x \in T /\ Closed(T, edges) /\ HasPath(x, y, edges) => y \in T
<1>1. IsFiniteSet(Sources(edges))
  BY SourcesAreFinite
<1>2. /\ {x} \subseteq Closure({x}, edges)
      /\ Closed(Closure({x}, edges), edges)
      /\ \A T : {x} \subseteq T /\ Closed(T, edges) => Closure({x}, edges) \subseteq T
  BY <1>1, ClosureIsLeast
<1> QED BY <1>2 DEF HasPath, Closed

LEMMA HasPathOneStep ==
  ASSUME NEW nodes, NEW edges, IsGraph(nodes, edges), NEW x, NEW y, <<x, y>> \in edges
  PROVE  HasPath(x, y, edges)
<1> DEFINE e == <<x, y>>
<1>1. e \in edges /\ e[1] = x /\ e[2] = y
  OBVIOUS
<1> HIDE DEF e
<1> QED BY <1>1, HasPathIsLeast

LEMMA HasPathIsTransitive ==
  ASSUME NEW nodes, NEW edges, IsGraph(nodes, edges), NEW x, NEW y, NEW z,
         HasPath(x, y, edges), HasPath(y, z, edges)
  PROVE  HasPath(x, z, edges)
<1> DEFINE T == {w \in Closure({x}, edges) : HasPath(x, w, edges)}
<1>1. y \in T /\ Closed(T, edges)
  BY HasPathIsLeast DEF Closed, HasPath
<1>2. z \in T
  BY <1>1, HasPathIsLeast
<1> QED BY <1>2

LEMMA HasPathStaysInside ==
  ASSUME NEW nodes, NEW edges, IsGraph(nodes, edges), NEW x \in nodes, NEW y, HasPath(x, y, edges)
  PROVE  y \in nodes
<1>1. Closed(nodes, edges)
  BY DEF IsGraph, Closed
<1> QED BY <1>1, HasPathIsLeast

\* To other nodes it does not matter whether a path may be empty.
LEMMA ReachableIsPath ==
  ASSUME NEW nodes, NEW edges, IsGraph(nodes, edges), NEW x, NEW y, x # y
  PROVE  y \in ReachableFrom(x, edges) <=> HasPath(x, y, edges)
<1> DEFINE next == {e[2] : e \in {f \in edges : f[1] = x}}
           R == Closure(next, edges)
<1>1. /\ next \subseteq R /\ Closed(R, edges)
      /\ \A T : next \subseteq T /\ Closed(T, edges) => R \subseteq T
  BY SourcesAreFinite, ClosureIsLeast
<1>2. R = ReachableFrom(x, edges)
  BY DEF ReachableFrom
<1>3. ASSUME HasPath(x, y, edges) PROVE y \in R
  <2> DEFINE T == {x} \cup R
  <2>1. Closed(T, edges)
    BY <1>1 DEF Closed
  <2> HIDE DEF R
  <2>2. y \in T
    BY <1>3, <2>1, HasPathIsLeast
  <2> QED BY <2>2
<1>4. R \subseteq Closure({x}, edges)
  <2>1. Closed(Closure({x}, edges), edges)
    BY HasPathIsLeast DEF Closed, HasPath
  <2>2. next \subseteq Closure({x}, edges)
    BY HasPathIsLeast DEF HasPath
  <2> QED BY <1>1, <2>1, <2>2
<1> HIDE DEF R
<1> QED BY <1>2, <1>3, <1>4 DEF HasPath

\* The components that kosaraju_scc finds are those of the nodes with a mate.
LEMMA KosarajuFindsComponents ==
  ASSUME NEW nodes, NEW edges, IsGraph(nodes, edges)
  PROVE  kosaraju_scc(nodes, edges) =
           {Component(m, nodes, edges) : m \in {k \in nodes : \E n \in Component(k, nodes, edges) : n # k}}
<1> DEFINE reaches == UNION {{<<n, m>> : m \in ReachableFrom(n, edges)} : n \in nodes}
           mates == {p \in reaches : p[1] # p[2] /\ <<p[2], p[1]>> \in reaches}
           around(p) == {p[1]} \cup {q[2] : q \in {r \in mates : r[1] = p[1]}}
           paired == {k \in nodes : \E n \in Component(k, nodes, edges) : n # k}
<1>1. kosaraju_scc(nodes, edges) = {around(p) : p \in mates}
  BY DEF kosaraju_scc
<1>2. \A n, m : <<n, m>> \in reaches <=> n \in nodes /\ m \in ReachableFrom(n, edges)
  OBVIOUS
<1>3. \A p \in reaches : p = <<p[1], p[2]>>
  OBVIOUS
<1> HIDE DEF reaches
<1>4. \A n, m : <<n, m>> \in mates <=> n # m /\ n \in nodes /\ m \in Component(n, nodes, edges)
  <2> TAKE n, m
  <2>1. ASSUME n # m PROVE /\ m \in ReachableFrom(n, edges) <=> HasPath(n, m, edges)
                           /\ n \in ReachableFrom(m, edges) <=> HasPath(m, n, edges)
    BY <2>1, ReachableIsPath
  <2>2. <<n, m>> \in mates <=> <<n, m>> \in reaches /\ n # m /\ <<m, n>> \in reaches
    OBVIOUS
  <2> QED BY <1>2, <2>1, <2>2, HasPathStaysInside DEF Component
<1>5. \A p \in mates : p = <<p[1], p[2]>>
  BY <1>3
<1> HIDE DEF mates
<1>6. \A p \in mates : p[1] \in paired /\ around(p) = Component(p[1], nodes, edges)
  <2> TAKE p \in mates
  <2>1. p[1] # p[2] /\ p[1] \in nodes /\ p[2] \in Component(p[1], nodes, edges)
    BY <1>4, <1>5
  <2>2. p[1] \in Component(p[1], nodes, edges)
    BY <2>1, HasPathIsLeast DEF Component
  <2>3. \A x : x \in around(p) <=> x = p[1] \/ <<p[1], x>> \in mates
    BY <1>5
  <2>4. \A x : x \in around(p) <=> x \in Component(p[1], nodes, edges)
    BY <1>4, <2>1, <2>2, <2>3
  <2> HIDE DEF around
  <2> QED BY <2>1, <2>4
<1>7. \A k \in paired : \E p \in mates : p[1] = k
  <2> TAKE k \in paired
  <2>1. PICK n \in Component(k, nodes, edges) : n # k
    OBVIOUS
  <2> DEFINE p == <<k, n>>
  <2>2. p \in mates
    BY <1>4, <2>1
  <2>3. p[1] = k
    OBVIOUS
  <2> QED BY <2>2, <2>3
<1> HIDE DEF around, paired
<1>8. {around(p) : p \in mates} = {Component(m, nodes, edges) : m \in paired}
  BY <1>6, <1>7
<1> QED BY <1>1, <1>8 DEF paired

LEMMA ComponentsAreClasses ==
  ASSUME NEW nodes, NEW edges, IsGraph(nodes, edges), NEW m \in nodes,
         NEW n \in Component(m, nodes, edges)
  PROVE  /\ m \in Component(m, nodes, edges)
         /\ Component(n, nodes, edges) = Component(m, nodes, edges)
<1>1. m \in Component(m, nodes, edges)
  BY HasPathIsLeast DEF Component
<1>2. HasPath(m, n, edges) /\ HasPath(n, m, edges)
  BY DEF Component
<1>3. \A x : /\ HasPath(m, x, edges) <=> HasPath(n, x, edges)
             /\ HasPath(x, m, edges) <=> HasPath(x, n, edges)
  BY <1>2, HasPathIsTransitive
<1> QED BY <1>1, <1>3 DEF Component

--------------------------------------------------------------------------------
(* The successors of a module, in the order of the dependencies, are those *)
(* that its edges lead to.                                                 *)

RuntimeOf(d) == Within(runtime_edges(d), Modules)

LEMMA SuccessorsAreTargets ==
  ASSUME NEW d, d \in Seq(Range(d)), NEW m \in Modules
  PROVE  /\ successors(m, Modules, d) \in Seq(Modules)
         /\ Range(successors(m, Modules, d)) = {n \in Modules : <<m, n>> \in RuntimeOf(d)}
<1> DEFINE at(n) == {i \in DOMAIN d : d[i].source = m /\ d[i].target = n
                                      /\ ~ d[i].external /\ is_runtime_edge(d[i])}
           S == {n \in Modules \ {m} : at(n) # {}}
           before(n, k) == Min(at(n)) < Min(at(k))
           size == Cardinality(S)
           at_place(i) == CHOOSE x \in S : Cardinality({y \in S : before(y, x)}) = i - 1
           s == [i \in 1 .. size |-> at_place(i)]
           rank == [n \in S |-> Min(at(n))]
<1>1. successors(m, Modules, d) = s
  BY DEF successors, Sorted
<1>2. S = {n \in Modules : <<m, n>> \in RuntimeOf(d)}
  <2>1. ASSUME NEW n \in Modules PROVE n \in S <=> <<m, n>> \in RuntimeOf(d)
    <3>1. <<m, n>> \in RuntimeOf(d)
            <=> \E i \in DOMAIN d : /\ d[i].source = m /\ d[i].target = n
                                    /\ Crossing(d[i]) /\ is_runtime_edge(d[i])
      BY DEF RuntimeOf, Within, runtime_edges, Range
    <3> QED BY <3>1 DEF Crossing
  <2> QED BY <2>1
<1>3. IsFiniteSet(S) /\ size \in Nat
  BY ModulesAreFinite, FS_Subset, FS_CardinalityType
<1>4. DOMAIN d \subseteq Nat
  OBVIOUS
<1>5. \A n \in S : at(n) # {} /\ at(n) \subseteq Nat /\ Min(at(n)) \in at(n)
  BY <1>4, LeastOfNumbers
<1>6. rank \in [S -> Nat] /\ \A x, y \in S : rank[x] = rank[y] => x = y
  <2>1. \A x, y, i : i \in at(x) /\ i \in at(y) => x = y
    OBVIOUS
  <2> HIDE DEF at
  <2> QED BY <1>5, <2>1
<1>7. \A x \in S : {y \in S : before(y, x)} = {y \in S : rank[y] < rank[x]}
  <2> HIDE DEF at
  <2> QED OBVIOUS
<1> HIDE DEF S, rank, before
<1>8. /\ \A x \in S : Cardinality({y \in S : before(y, x)}) + 1 \in 1 .. size
      /\ \A x, y \in S : Cardinality({z \in S : before(z, x)}) = Cardinality({z \in S : before(z, y)}) => x = y
      /\ \A i \in 1 .. size : \E x \in S : Cardinality({y \in S : before(y, x)}) = i - 1
  <2> DEFINE lower(x) == {y \in S : before(y, x)}
  <2>1. /\ \A x \in S : Cardinality(Lower(x, S, rank)) + 1 \in 1 .. size
        /\ \A x, y \in S : Cardinality(Lower(x, S, rank)) = Cardinality(Lower(y, S, rank)) => x = y
        /\ \A i \in 1 .. size : \E x \in S : Cardinality(Lower(x, S, rank)) = i - 1
    BY <1>3, <1>6, PlacesAreTaken
  <2>2. \A x \in S : lower(x) = Lower(x, S, rank)
    BY <1>7 DEF Lower
  <2> HIDE DEF lower, size
  <2>3. /\ \A x \in S : Cardinality(lower(x)) + 1 \in 1 .. size
        /\ \A x, y \in S : Cardinality(lower(x)) = Cardinality(lower(y)) => x = y
        /\ \A i \in 1 .. size : \E x \in S : Cardinality(lower(x)) = i - 1
    BY <2>1, <2>2
  <2> QED BY <2>3 DEF lower
<1>9. \A i \in 1 .. size : s[i] \in S /\ Cardinality({y \in S : before(y, s[i])}) = i - 1
  BY <1>8
<1>10. ASSUME NEW x \in S PROVE \E i \in 1 .. size : s[i] = x
  <2> DEFINE k == Cardinality({y \in S : before(y, x)})
  <2>1. k + 1 \in 1 .. size
    BY <1>8
  <2>2. k \in Nat
    <3>1. {y \in S : before(y, x)} \in SUBSET S
      OBVIOUS
    <3> QED BY <3>1, <1>3, FS_Subset, FS_CardinalityType
  <2>3. s[k + 1] \in S /\ Cardinality({y \in S : before(y, s[k + 1])}) = k
    <3> HIDE DEF s, k
    <3> QED BY <1>9, <2>1, <2>2
  <2> HIDE DEF s
  <2>4. s[k + 1] = x
    BY <1>8, <2>3
  <2> QED BY <2>1, <2>4
<1>11. DOMAIN s = 1 .. size
  OBVIOUS
<1>12. S \subseteq Modules
  BY DEF S
<1>13. s = [i \in 1 .. size |-> s[i]]
  <2> HIDE DEF at_place
  <2> QED OBVIOUS
<1> HIDE DEF s
<1>14. s \in Seq(Modules)
  <2>1. s \in [1 .. size -> Modules]
    BY <1>9, <1>12, <1>13
  <2> QED BY <1>3, <2>1, SeqDef DEF size
<1>15. Range(s) = S
  BY <1>9, <1>10, <1>11 DEF Range
<1> QED BY <1>1, <1>2, <1>14, <1>15

--------------------------------------------------------------------------------
(* What holds between two turns of the loop.                               *)

Seen == {m \in Modules : index[m] # Undiscovered}
Open == Range(stack)
Shut == Seen \ Open
ComponentOf(m) == Component(m, Modules, Runtime)

\* The open modules that were discovered below a frame and not below the next one.
Segment(i) ==
  {m \in Open : /\ index[dfs[i].node] <= index[m]
                /\ i + 1 \in DOMAIN dfs => index[m] < index[dfs[i + 1].node]}

Types ==
  /\ deps \in Inputs
  /\ index \in [Modules -> Nat \cup {Undiscovered}] /\ lowlink \in [Modules -> Nat]
  /\ stack \in Seq(Modules)
  /\ dfs \in Seq([node : Modules, pos : Nat \ {0}])
  /\ sccs \in Seq(Seq(Modules))

\* Stack and frames are in the order of discovery, and the first frame is at the bottom.
Order ==
  /\ \A m \in Seen : index[m] < counter
  /\ Open \subseteq Seen
  /\ \A i, j \in DOMAIN stack : i < j => index[stack[i]] < index[stack[j]]
  /\ \A i \in DOMAIN dfs : dfs[i].node \in Open
  /\ \A i, j \in DOMAIN dfs : i < j => index[dfs[i].node] < index[dfs[j].node]
  /\ \A m \in Open : 1 \in DOMAIN dfs /\ index[dfs[1].node] <= index[m]

\* The frames are a path, and each reaches its segment and is reached from there.
Linked ==
  /\ \A i \in DOMAIN dfs : i + 1 \in DOMAIN dfs => <<dfs[i].node, dfs[i + 1].node>> \in Runtime
  /\ \A i \in DOMAIN dfs : \A m \in Segment(i) :
       HasPath(dfs[i].node, m, Runtime) /\ HasPath(m, dfs[i].node, Runtime)

\* The low link of a frame is the index of an open module that it reaches.
Attained ==
  \A i \in DOMAIN dfs :
    /\ lowlink[dfs[i].node] <= index[dfs[i].node]
    /\ \E w \in Open : index[w] = lowlink[dfs[i].node] /\ HasPath(dfs[i].node, w, Runtime)

\* What an edge leads to that was followed from the segment of a frame.
Followed(i, w) == w \in Seen /\ (w \in Open => lowlink[dfs[i].node] <= index[w])

\* All edges of the modules between the frames were followed, and those of a frame up to
\* its position.
Explored ==
  \A i \in DOMAIN dfs :
    /\ \A u \in Segment(i) \ {dfs[i].node} : \A w \in Range(succ(u)) : Followed(i, w)
    /\ \A k \in DOMAIN succ(dfs[i].node) : k < dfs[i].pos => Followed(i, succ(dfs[i].node)[k])

\* No edge leaves what is closed, and its components are those that were reported.
Closing ==
  /\ Closed(Shut, Runtime)
  /\ \A i \in DOMAIN sccs :
       /\ IsInjective(sccs[i])
       /\ \E m \in Shut : Range(sccs[i]) = ComponentOf(m) /\ \E n \in ComponentOf(m) : n # m
  /\ \A i, j \in DOMAIN sccs : Range(sccs[i]) = Range(sccs[j]) => i = j
  /\ \A m \in Shut : (\E n \in ComponentOf(m) : n # m) => \E i \in DOMAIN sccs : Range(sccs[i]) = ComponentOf(m)

Finished == Done => dfs = <<>> /\ Seen = Modules

SearchInv == Types /\ Order /\ Linked /\ Attained /\ Explored /\ Closing /\ Finished

LEMMA GraphOfModules ==
  ASSUME Types
  PROVE  /\ IsGraph(Modules, Runtime)
         /\ \A m \in Modules : /\ succ(m) \in Seq(Modules)
                               /\ \A w : w \in Range(succ(m)) <=> <<m, w>> \in Runtime
<1>1. Runtime = RuntimeOf(deps)
  BY DEF Runtime, RuntimeOf
<1>2. IsGraph(Modules, Runtime)
  BY ModulesAreFinite DEF IsGraph, Runtime, Within, runtime_edges
<1>3. deps \in Seq(Range(deps))
  BY InputsAreSequences DEF Types
<1>4. ASSUME NEW m \in Modules
      PROVE  succ(m) \in Seq(Modules) /\ \A w : w \in Range(succ(m)) <=> <<m, w>> \in Runtime
  <2>1. succ(m) \in Seq(Modules) /\ Range(succ(m)) = {n \in Modules : <<m, n>> \in RuntimeOf(deps)}
    BY <1>3, SuccessorsAreTargets DEF succ
  <2>2. ASSUME NEW w, <<m, w>> \in Runtime PROVE w \in Modules
    <3> DEFINE e == <<m, w>>
    <3>1. e \in Runtime /\ e[2] = w
      BY <2>2
    <3> HIDE DEF e
    <3> QED BY <3>1, <1>2 DEF IsGraph
  <2> QED BY <1>1, <2>1, <2>2
<1> QED BY <1>2, <1>4

LEMMA Appended ==
  ASSUME NEW S, NEW s \in Seq(S), NEW x \in S
  PROVE  LET t == Append(s, x)
         IN /\ t \in Seq(S) /\ Len(t) = Len(s) + 1 /\ DOMAIN t = 1 .. Len(s) + 1
            /\ t[Len(s) + 1] = x /\ \A k \in DOMAIN s : t[k] = s[k]
            /\ Range(t) = Range(s) \cup {x}
<1> DEFINE t == Append(s, x)
<1>1. /\ t \in Seq(S) /\ Len(t) = Len(s) + 1 /\ DOMAIN t = 1 .. Len(s) + 1
      /\ t[Len(s) + 1] = x /\ \A k \in DOMAIN s : t[k] = s[k]
  OBVIOUS
<1>2. DOMAIN s = 1 .. Len(s) /\ Len(s) \in Nat
  OBVIOUS
<1> HIDE DEF t
<1>3. Range(t) = Range(s) \cup {x}
  BY <1>1, <1>2 DEF Range
<1> QED BY <1>1, <1>3 DEF t

\* The next states see the same graph.
LEMMA SameGraph ==
  ASSUME deps' = deps
  PROVE  Runtime' = Runtime /\ \A m : succ(m)' = succ(m) /\ ComponentOf(m)' = ComponentOf(m)
BY DEF Runtime, succ, ComponentOf

LEMMA Domains ==
  ASSUME Types
  PROVE  /\ Len(dfs) \in Nat /\ DOMAIN dfs = 1 .. Len(dfs)
         /\ \A i \in DOMAIN dfs : dfs[i].node \in Modules /\ dfs[i].pos \in Nat \ {0}
         /\ Len(stack) \in Nat /\ DOMAIN stack = 1 .. Len(stack) /\ Open \subseteq Modules
         /\ \A i \in DOMAIN stack : stack[i] \in Modules
         /\ \A m \in Modules : index[m] \in Nat \cup {Undiscovered} /\ lowlink[m] \in Nat
         /\ \A m \in Seen : index[m] \in Nat
         /\ IsFiniteSet(Seen) /\ counter \in Nat
<1>1. \A i \in DOMAIN dfs : dfs[i] \in [node : Modules, pos : Nat \ {0}]
  <2> DEFINE frames == [node : Modules, pos : Nat \ {0}]
  <2>1. dfs \in Seq(frames)
    BY DEF Types
  <2> HIDE DEF frames
  <2>2. \A i \in DOMAIN dfs : dfs[i] \in frames
    BY <2>1
  <2> QED BY <2>2 DEF frames
<1>2. IsFiniteSet(Seen) /\ counter \in Nat
  <2>1. Seen \in SUBSET Modules
    BY DEF Seen
  <2>2. counter = Cardinality(Seen)
    BY DEF counter, Seen
  <2> QED BY <2>1, <2>2, ModulesAreFinite, FS_Subset, FS_CardinalityType
<1>3. \A i \in DOMAIN stack : stack[i] \in Modules
  BY DEF Types
<1>4. Open \subseteq Modules
  BY <1>3 DEF Open, Range
<1>5. \A m \in Modules : index[m] \in Nat \cup {Undiscovered} /\ lowlink[m] \in Nat
  BY DEF Types
<1>6. \A m \in Seen : index[m] \in Nat
  BY <1>5 DEF Seen
<1>7. Len(dfs) \in Nat /\ DOMAIN dfs = 1 .. Len(dfs) /\ Len(stack) \in Nat /\ DOMAIN stack = 1 .. Len(stack)
  BY DEF Types
<1> QED BY <1>1, <1>2, <1>3, <1>4, <1>5, <1>6, <1>7

\* Each open module is in the segment of a frame, each frame in its own.
LEMMA SegmentsCover ==
  ASSUME Types, Order
  PROVE  /\ \A m \in Open : \E i \in DOMAIN dfs : m \in Segment(i)
         /\ \A i \in DOMAIN dfs : dfs[i].node \in Segment(i)
<1>1. ASSUME NEW m \in Open PROVE \E i \in DOMAIN dfs : m \in Segment(i)
  <2> DEFINE S == {k \in Nat : \E i \in DOMAIN dfs : index[dfs[i].node] <= index[m] /\ k = Len(dfs) - i}
  <2>1. 1 \in DOMAIN dfs /\ index[dfs[1].node] <= index[m]
    BY DEF Order
  <2>2. Len(dfs) - 1 \in S
    BY <2>1, Domains
  <2> HIDE DEF S
  <2>3. PICK k \in S : \A l \in S : k <= l
    BY <2>2, LeastNumber DEF S
  <2>4. PICK i \in DOMAIN dfs : index[dfs[i].node] <= index[m] /\ k = Len(dfs) - i
    BY <2>3 DEF S
  <2>5. ASSUME i + 1 \in DOMAIN dfs PROVE index[m] < index[dfs[i + 1].node]
    <3>1. Len(dfs) - (i + 1) \in Nat /\ ~ (k <= Len(dfs) - (i + 1))
      BY <2>4, <2>5, Domains
    <3>2. ~ (index[dfs[i + 1].node] <= index[m])
      BY <2>3, <2>5, <3>1 DEF S
    <3>3. index[m] \in Nat /\ index[dfs[i + 1].node] \in Nat
      BY <2>5, Domains DEF Order
    <3> QED BY <3>2, <3>3
  <2> QED BY <2>4, <2>5 DEF Segment
<1>2. ASSUME NEW i \in DOMAIN dfs PROVE dfs[i].node \in Segment(i)
  <2>1. dfs[i].node \in Open /\ index[dfs[i].node] \in Nat
    BY Domains DEF Order
  <2>2. i + 1 \in DOMAIN dfs => index[dfs[i].node] < index[dfs[i + 1].node]
    BY Domains DEF Order
  <2> QED BY <2>1, <2>2 DEF Segment
<1> QED BY <1>1, <1>2

\* Each frame reaches those above it.
LEMMA FramesHavePaths ==
  ASSUME Types, Linked, NEW i \in DOMAIN dfs, NEW j \in DOMAIN dfs, i <= j
  PROVE  HasPath(dfs[i].node, dfs[j].node, Runtime)
<1> DEFINE S == {k \in Nat : i + k \in DOMAIN dfs => HasPath(dfs[i].node, dfs[i + k].node, Runtime)}
<1>1. IsGraph(Modules, Runtime)
  BY GraphOfModules
<1>2. 0 \in S
  BY <1>1, HasPathIsLeast, Domains
<1>3. ASSUME NEW k \in Nat, k \in S PROVE k + 1 \in S
  <2> SUFFICES ASSUME i + (k + 1) \in DOMAIN dfs
               PROVE  HasPath(dfs[i].node, dfs[i + (k + 1)].node, Runtime)
    OBVIOUS
  <2>1. i + k \in DOMAIN dfs /\ (i + k) + 1 = i + (k + 1)
    BY Domains
  <2>2. HasPath(dfs[i].node, dfs[i + k].node, Runtime)
    BY <1>3, <2>1
  <2>3. <<dfs[i + k].node, dfs[i + (k + 1)].node>> \in Runtime
    BY <2>1 DEF Linked
  <2> HIDE DEF S
  <2>4. HasPath(dfs[i + k].node, dfs[i + (k + 1)].node, Runtime)
    BY <1>1, <2>3, HasPathOneStep
  <2> QED BY <1>1, <2>2, <2>4, HasPathIsTransitive
<1> HIDE DEF S
<1>4. \A k \in Nat : k \in S
  BY <1>2, <1>3, AllNumbers
<1>5. j - i \in Nat /\ i + (j - i) = j
  BY Domains
<1>6. j - i \in S
  BY <1>4, <1>5
<1> QED BY <1>5, <1>6 DEF S

--------------------------------------------------------------------------------
(* A module is discovered, and its frame is pushed.                        *)

\* The frames get one for m, to which an edge of the last one before it leads.
Pushed(m) ==
  LET n == Len(dfs) IN
  /\ dfs' \in Seq([node : Modules, pos : Nat \ {0}]) /\ Len(dfs') = n + 1
  /\ dfs'[n + 1] = [node |-> m, pos |-> 1]
  /\ \A i \in 1 .. n : /\ dfs'[i].node = dfs[i].node
                       /\ \A k \in DOMAIN succ(dfs[i].node) :
                            k < dfs'[i].pos => k < dfs[i].pos \/ (i = n /\ succ(dfs[i].node)[k] = m)
  /\ n # 0 => <<dfs[n].node, m>> \in Runtime

LEMMA Push ==
  ASSUME SearchInv, NEW m \in Modules, index[m] = Undiscovered, discover(m), cycles' = cycles, Pushed(m)
  PROVE  SearchInv'
<1>0. PICK n :
        /\ n = Len(dfs)
        /\ dfs' \in Seq([node : Modules, pos : Nat \ {0}]) /\ Len(dfs') = n + 1
        /\ dfs'[n + 1] = [node |-> m, pos |-> 1]
        /\ \A i \in 1 .. n : /\ dfs'[i].node = dfs[i].node
                             /\ \A k \in DOMAIN succ(dfs[i].node) :
                                  k < dfs'[i].pos => k < dfs[i].pos \/ (i = n /\ succ(dfs[i].node)[k] = m)
        /\ n # 0 => <<dfs[n].node, m>> \in Runtime
  BY DEF Pushed
<1>1. /\ n \in Nat /\ DOMAIN dfs = 1 .. n /\ DOMAIN dfs' = 1 .. n + 1
      /\ \A i \in 1 .. n : dfs'[i].node = dfs[i].node /\ dfs[i].node \in Modules
      /\ dfs'[n + 1].node = m
  <2>1. n \in Nat /\ DOMAIN dfs = 1 .. n /\ \A i \in 1 .. n : dfs[i].node \in Modules
    BY <1>0, Domains DEF SearchInv
  <2>2. DOMAIN dfs' = 1 .. n + 1
    BY <1>0
  <2>3. dfs'[n + 1].node = m
    BY <1>0
  <2> QED BY <1>0, <2>1, <2>2, <2>3
<1> USE <1>0
<1>2. /\ deps' = deps /\ sccs' = sccs
      /\ index' = [index EXCEPT ![m] = counter] /\ lowlink' = [lowlink EXCEPT ![m] = counter]
      /\ stack' = Append(stack, m)
  BY DEF discover
<1>3. Runtime' = Runtime /\ \A u : succ(u)' = succ(u) /\ ComponentOf(u)' = ComponentOf(u)
  BY <1>2, SameGraph
<1>4. counter \in Nat /\ m \notin Seen /\ Seen' = Seen \cup {m}
  BY <1>2, Domains DEF SearchInv, Seen, Types, Undiscovered
<1>5. counter' = counter + 1
  <2>1. counter = Cardinality(Seen) /\ counter' = Cardinality(Seen')
    BY DEF counter, Seen
  <2> QED BY <1>4, <2>1, Domains, FS_AddElement DEF SearchInv
<1>6. Open' = Open \cup {m} /\ m \notin Open /\ Shut' = Shut
  <2>1. Open \subseteq Seen
    BY DEF SearchInv, Order
  <2>2. Open' = Open \cup {m}
    <3>1. stack \in Seq(Modules)
      BY DEF SearchInv, Types
    <3> QED BY <1>2, <3>1, Appended DEF Open
  <2> QED BY <1>4, <2>1, <2>2 DEF Shut
<1>7. /\ index'[m] = counter /\ lowlink'[m] = counter
      /\ \A x \in Modules \ {m} : index'[x] = index[x] /\ lowlink'[x] = lowlink[x]
      /\ \A x \in Seen : x \in Modules \ {m} /\ index[x] \in Nat /\ index[x] < counter
  BY <1>2, <1>4, Domains DEF SearchInv, Types, Order, Seen
<1>8. \A i \in 1 .. n : dfs[i].node \in Open /\ dfs[i].node \in Seen /\ dfs[i].node # m
  BY <1>1, <1>6 DEF SearchInv, Order
<1>9. Open \subseteq Seen
  BY DEF SearchInv, Order
<1>10. \A i \in 1 .. n : Segment(i)' = Segment(i)
  <2> TAKE i \in 1 .. n
  <2>1. i + 1 \in DOMAIN dfs' /\ (i + 1 \in DOMAIN dfs \/ i = n)
    BY <1>1
  <2>2. index'[dfs'[i].node] = index[dfs[i].node]
    BY <1>1, <1>7, <1>8
  <2>3. CASE i + 1 \in DOMAIN dfs
    <3>1. index'[dfs'[i + 1].node] = index[dfs[i + 1].node] /\ index[dfs[i + 1].node] < counter
      BY <1>1, <1>7, <1>8, <2>3
    <3>2. \A x \in Open : index'[x] = index[x]
      BY <1>7, <1>9
    <3>3. index[dfs[i + 1].node] \in Nat
      BY <1>1, <1>7, <1>8, <2>3
    <3> QED BY <1>4, <1>6, <1>7, <2>1, <2>2, <2>3, <3>1, <3>2, <3>3 DEF Segment
  <2>4. CASE i = n
    <3>1. index'[dfs'[i + 1].node] = counter /\ i + 1 \notin DOMAIN dfs
      BY <1>1, <1>7, <2>4
    <3>2. \A x \in Open : index'[x] = index[x] /\ index[x] < counter
      BY <1>7, <1>9
    <3> QED BY <1>4, <1>6, <1>7, <2>1, <2>2, <3>1, <3>2 DEF Segment
  <2> QED BY <2>1, <2>3, <2>4
<1>11. Segment(n + 1)' = {m}
  <2>1. (n + 1) + 1 \notin DOMAIN dfs'
    BY <1>1
  <2>2. \A x \in Open : index'[x] = index[x] /\ index[x] \in Nat /\ index[x] < counter
    BY <1>7, <1>9
  <2> QED BY <1>1, <1>4, <1>6, <1>7, <2>1, <2>2 DEF Segment
<1>12. Types'
  <2>1. index' \in [Modules -> Nat \cup {Undiscovered}] /\ lowlink' \in [Modules -> Nat]
    BY <1>2, <1>4 DEF SearchInv, Types
  <2>2. stack' \in Seq(Modules)
    BY <1>2 DEF SearchInv, Types
  <2> QED BY <1>2, <2>1, <2>2 DEF SearchInv, Types
<1>13. Order'
  <2>1. \A x \in Seen' : index'[x] < counter'
    BY <1>4, <1>5, <1>7
  <2>2. Open' \subseteq Seen'
    BY <1>4, <1>6, <1>9
  <2>3. \A i, j \in DOMAIN stack' : i < j => index'[stack'[i]] < index'[stack'[j]]
    <3> SUFFICES ASSUME NEW i \in DOMAIN stack', NEW j \in DOMAIN stack', i < j
                 PROVE  index'[stack'[i]] < index'[stack'[j]]
      OBVIOUS
    <3>1. /\ Len(stack) \in Nat /\ DOMAIN stack = 1 .. Len(stack) /\ DOMAIN stack' = 1 .. Len(stack) + 1
          /\ stack'[Len(stack) + 1] = m /\ \A k \in DOMAIN stack : stack'[k] = stack[k] /\ stack[k] \in Open
      <4>1. stack \in Seq(Modules) /\ Len(stack) \in Nat /\ DOMAIN stack = 1 .. Len(stack)
        BY DEF SearchInv, Types
      <4>2. \A k \in DOMAIN stack : stack[k] \in Open
        BY DEF Open, Range
      <4> QED BY <1>2, <4>1, <4>2, Appended
    <3>2. i \in DOMAIN stack /\ index'[stack'[i]] = index[stack[i]] /\ index[stack[i]] < counter
      BY <1>7, <1>9, <3>1
    <3>3. CASE j \in DOMAIN stack
      <4>1. index'[stack'[j]] = index[stack[j]]
        BY <1>7, <1>9, <3>1, <3>3
      <4> QED BY <3>2, <3>3, <4>1 DEF SearchInv, Order
    <3>4. CASE j = Len(stack) + 1
      BY <1>7, <3>1, <3>2, <3>4
    <3> QED BY <3>1, <3>3, <3>4
  <2>4. \A i \in DOMAIN dfs' : dfs'[i].node \in Open'
    BY <1>1, <1>6, <1>8
  <2>5. \A i, j \in DOMAIN dfs' : i < j => index'[dfs'[i].node] < index'[dfs'[j].node]
    <3> SUFFICES ASSUME NEW i \in 1 .. n + 1, NEW j \in 1 .. n + 1, i < j
                 PROVE  index'[dfs'[i].node] < index'[dfs'[j].node]
      BY <1>1
    <3>1. i \in 1 .. n /\ index'[dfs'[i].node] = index[dfs[i].node] /\ index[dfs[i].node] < counter
      BY <1>1, <1>7, <1>8
    <3>2. CASE j \in 1 .. n
      <4>1. index'[dfs'[j].node] = index[dfs[j].node]
        BY <1>1, <1>7, <1>8, <3>2
      <4> QED BY <1>1, <3>1, <3>2, <4>1 DEF SearchInv, Order
    <3>3. CASE j = n + 1
      BY <1>1, <1>7, <3>1, <3>3
    <3> QED BY <1>1, <3>2, <3>3
  <2>6. \A x \in Open' : 1 \in DOMAIN dfs' /\ index'[dfs'[1].node] <= index'[x]
    <3> SUFFICES ASSUME NEW x \in Open' PROVE index'[dfs'[1].node] <= index'[x]
      BY <1>1
    <3>1. CASE x \in Open
      <4>1. 1 \in DOMAIN dfs /\ index[dfs[1].node] <= index[x]
        BY <3>1 DEF SearchInv, Order
      <4> QED BY <1>1, <1>7, <1>8, <1>9, <3>1, <4>1
    <3>2. CASE x = m /\ n = 0
      BY <1>1, <1>4, <1>7, <3>2
    <3>3. CASE x = m /\ n # 0
      <4>1. 1 \in 1 .. n
        BY <1>1, <3>3
      <4> QED BY <1>1, <1>4, <1>7, <1>8, <3>3, <4>1
    <3> QED BY <1>6, <3>1, <3>2, <3>3
  <2> QED BY <2>1, <2>2, <2>3, <2>4, <2>5, <2>6 DEF Order
<1>14. IsGraph(Modules, Runtime)
  BY GraphOfModules DEF SearchInv
<1>15. Linked'
  <2>1. \A i \in DOMAIN dfs' : i + 1 \in DOMAIN dfs' => <<dfs'[i].node, dfs'[i + 1].node>> \in Runtime'
    <3> SUFFICES ASSUME NEW i \in 1 .. n PROVE <<dfs'[i].node, dfs'[i + 1].node>> \in Runtime
      BY <1>1, <1>3
    <3>1. CASE i = n
      BY <1>1, <3>1
    <3>2. CASE i # n
      BY <1>1, <3>2 DEF SearchInv, Linked
    <3> QED BY <3>1, <3>2
  <2>2. \A i \in DOMAIN dfs' : \A x \in Segment(i)' :
          HasPath(dfs'[i].node, x, Runtime') /\ HasPath(x, dfs'[i].node, Runtime')
    <3> SUFFICES ASSUME NEW i \in 1 .. n + 1, NEW x \in Segment(i)'
                 PROVE  HasPath(dfs'[i].node, x, Runtime) /\ HasPath(x, dfs'[i].node, Runtime)
      BY <1>1, <1>3
    <3>1. CASE i = n + 1
      BY <1>1, <1>11, <1>14, <3>1, HasPathIsLeast
    <3>2. CASE i \in 1 .. n
      BY <1>1, <1>10, <3>2 DEF SearchInv, Linked
    <3> QED BY <1>1, <3>1, <3>2
  <2> QED BY <2>1, <2>2 DEF Linked
<1>16. Attained'
  <2> SUFFICES ASSUME NEW i \in 1 .. n + 1
               PROVE  /\ lowlink'[dfs'[i].node] <= index'[dfs'[i].node]
                      /\ \E w \in Open' : index'[w] = lowlink'[dfs'[i].node] /\ HasPath(dfs'[i].node, w, Runtime)
    BY <1>1, <1>3 DEF Attained
  <2>1. CASE i = n + 1
    BY <1>1, <1>4, <1>6, <1>7, <1>14, <2>1, HasPathIsLeast
  <2>2. CASE i \in 1 .. n
    <3>1. PICK w \in Open : index[w] = lowlink[dfs[i].node] /\ HasPath(dfs[i].node, w, Runtime)
      BY <1>1, <2>2 DEF SearchInv, Attained
    <3>2. lowlink[dfs[i].node] <= index[dfs[i].node]
      BY <1>1, <2>2 DEF SearchInv, Attained
    <3> QED BY <1>1, <1>6, <1>7, <1>8, <1>9, <2>2, <3>1, <3>2
  <2> QED BY <1>1, <2>1, <2>2
<1> DEFINE After(i, w) == w \in Seen' /\ (w \in Open' => lowlink'[dfs'[i].node] <= index'[w])
<1>17. ASSUME NEW i \in 1 .. n, NEW w, Followed(i, w) PROVE After(i, w)
  BY <1>1, <1>4, <1>6, <1>7, <1>8, <1>9, <1>17 DEF Followed
<1>18. Explored'
  <2> SUFFICES ASSUME NEW i \in 1 .. n + 1
               PROVE  /\ \A u \in Segment(i)' \ {dfs'[i].node} : \A w \in Range(succ(u)) : After(i, w)
                      /\ \A k \in DOMAIN succ(dfs'[i].node) :
                           k < dfs'[i].pos => After(i, succ(dfs'[i].node)[k])
    BY <1>1, <1>3 DEF Explored, Followed
  <2> HIDE DEF After
  <2>1. CASE i = n + 1
    <3>1. dfs'[i].pos = 1
      BY <2>1
    <3>2. succ(m) \in Seq(Modules)
      BY GraphOfModules DEF SearchInv
    <3>3. \A k \in DOMAIN succ(m) : ~ (k < 1)
      BY <3>2
    <3> QED BY <1>1, <1>11, <2>1, <3>1, <3>3
  <2>2. CASE i \in 1 .. n
    <3>1. \A u \in Segment(i)' \ {dfs'[i].node} : \A w \in Range(succ(u)) : After(i, w)
      BY <1>1, <1>10, <1>17, <2>2 DEF SearchInv, Explored
    <3>2. ASSUME NEW k \in DOMAIN succ(dfs[i].node), k < dfs'[i].pos
          PROVE  After(i, succ(dfs[i].node)[k])
      <4>1. CASE k < dfs[i].pos
        <5>1. Followed(i, succ(dfs[i].node)[k])
          BY <1>1, <2>2, <4>1 DEF SearchInv, Explored
        <5> QED BY <1>17, <2>2, <5>1
      <4>2. CASE i = n /\ succ(dfs[i].node)[k] = m
        <5>1. lowlink[dfs[i].node] <= index[dfs[i].node]
          BY <1>1, <2>2 DEF SearchInv, Attained
        <5>2. lowlink'[dfs'[i].node] <= index'[m]
          <6>1. lowlink'[dfs'[i].node] = lowlink[dfs[i].node] /\ lowlink[dfs[i].node] \in Nat
            BY <1>1, <1>7, <1>8, <2>2, Domains DEF SearchInv
          <6> QED BY <1>4, <1>7, <1>8, <2>2, <5>1, <6>1
        <5> QED BY <1>4, <4>2, <5>2 DEF After
      <4> QED BY <2>2, <3>2, <4>1, <4>2
    <3> QED BY <1>1, <2>2, <3>1, <3>2
  <2> QED BY <1>1, <2>1, <2>2
<1>19. Closing'
  BY <1>2, <1>3, <1>6 DEF SearchInv, Closing
<1>20. Finished'
  BY <1>4 DEF SearchInv, Finished, Done
<1> QED BY <1>12, <1>13, <1>15, <1>16, <1>18, <1>19, <1>20 DEF SearchInv

LEMMA VisitStep ==
  ASSUME SearchInv, visit
  PROVE  SearchInv'
<1>1. PICK m \in Modules : /\ index[m] = Undiscovered /\ discover(m)
                           /\ dfs' = <<[node |-> m, pos |-> 1]>>
  BY DEF visit
<1>2. Len(dfs) = 0
  BY DEF visit
<1> DEFINE frames == [node : Modules, pos : Nat \ {0}]
<1>3. [node |-> m, pos |-> 1] \in frames
  OBVIOUS
<1> HIDE DEF frames
<1>4. /\ dfs' \in Seq(frames) /\ Len(dfs') = 0 + 1 /\ dfs'[0 + 1] = [node |-> m, pos |-> 1]
  BY <1>1, <1>3
<1>5. cycles' = cycles
  BY <1>1 DEF discover
<1>6. Pushed(m)
  BY <1>2, <1>4 DEF Pushed, frames
<1> QED BY <1>1, <1>5, <1>6, Push

\* The frames after the top one has advanced.
LEMMA Moved ==
  ASSUME Types, dfs # <<>>
  PROVE  LET n == Len(dfs)
             moved == Append(Front(dfs), [Top EXCEPT !.pos = @ + 1])
         IN /\ n \in DOMAIN dfs /\ Top = dfs[n]
            /\ moved \in Seq([node : Modules, pos : Nat \ {0}]) /\ Len(moved) = n
            /\ \A i \in 1 .. n - 1 : moved[i] = dfs[i]
            /\ moved[n].node = dfs[n].node /\ moved[n].pos = dfs[n].pos + 1
<1> DEFINE n == Len(dfs)
           frames == [node : Modules, pos : Nat \ {0}]
           top == [Top EXCEPT !.pos = @ + 1]
           moved == Append(Front(dfs), top)
<1>1. dfs \in Seq(frames)
  BY DEF Types
<1>2. \A f \in frames : LET g == [f EXCEPT !.pos = @ + 1] IN g \in frames /\ g.node = f.node /\ g.pos = f.pos + 1
  OBVIOUS
<1> HIDE DEF frames
<1>3. n \in Nat /\ n # 0 /\ DOMAIN dfs = 1 .. n /\ Top = dfs[n] /\ dfs[n] \in frames
  BY <1>1 DEF Top, Last
<1>4. top \in frames /\ top.node = dfs[n].node /\ top.pos = dfs[n].pos + 1
  BY <1>2, <1>3
<1>5. Front(dfs) \in Seq(frames) /\ Len(Front(dfs)) = n - 1 /\ \A i \in 1 .. n - 1 : Front(dfs)[i] = dfs[i]
  BY <1>1, <1>3 DEF Front
<1> DEFINE front == Front(dfs)
<1> HIDE DEF top, n, front
<1>6. moved \in Seq(frames) /\ Len(moved) = n /\ moved[n] = top /\ \A i \in 1 .. n - 1 : moved[i] = dfs[i]
  <2>1. front \in Seq(frames) /\ Len(front) = n - 1 /\ DOMAIN front = 1 .. n - 1
    BY <1>5 DEF front
  <2>2. moved = Append(front, top)
    BY DEF front
  <2>3. (n - 1) + 1 = n
    BY <1>3
  <2> HIDE DEF moved
  <2> QED BY <1>4, <1>5, <2>1, <2>2, <2>3, Appended DEF front
<1> HIDE DEF moved
<1>7. /\ n \in DOMAIN dfs /\ Top = dfs[n]
      /\ moved \in Seq(frames) /\ Len(moved) = n
      /\ \A i \in 1 .. n - 1 : moved[i] = dfs[i]
      /\ moved[n].node = dfs[n].node /\ moved[n].pos = dfs[n].pos + 1
  BY <1>3, <1>4, <1>6
<1> QED BY <1>7 DEF frames, moved, n, top

\* The next successor of the top frame is discovered.
LEMMA DescendStep ==
  ASSUME SearchInv, advance, index[succ(Top.node)[Top.pos]] = Undiscovered
  PROVE  SearchInv'
<1> DEFINE n == Len(dfs)
           m == succ(Top.node)[Top.pos]
           frame == [node |-> m, pos |-> 1]
           frames == [node : Modules, pos : Nat \ {0}]
           moved == Append(Front(dfs), [Top EXCEPT !.pos = @ + 1])
<1>1. /\ dfs # <<>> /\ Top.pos <= Len(succ(Top.node))
      /\ discover(m) /\ dfs' = Append(moved, frame) /\ cycles' = cycles
  BY DEF advance, discover
<1>2. /\ n \in DOMAIN dfs /\ Top = dfs[n]
      /\ moved \in Seq(frames) /\ Len(moved) = n
      /\ \A i \in 1 .. n - 1 : moved[i] = dfs[i]
      /\ moved[n].node = dfs[n].node /\ moved[n].pos = dfs[n].pos + 1
  BY <1>1, Moved DEF SearchInv
<1>3. n \in Nat /\ n # 0 /\ DOMAIN dfs = 1 .. n /\ dfs[n].node \in Modules /\ dfs[n].pos \in Nat \ {0}
  BY <1>2, Domains DEF SearchInv
<1>4. /\ succ(dfs[n].node) \in Seq(Modules)
      /\ \A w : w \in Range(succ(dfs[n].node)) <=> <<dfs[n].node, w>> \in Runtime
  BY <1>3, GraphOfModules DEF SearchInv
<1>5. m = succ(dfs[n].node)[dfs[n].pos] /\ dfs[n].pos \in DOMAIN succ(dfs[n].node)
  BY <1>1, <1>2, <1>3, <1>4
<1>6. m \in Modules /\ <<dfs[n].node, m>> \in Runtime
  BY <1>4, <1>5 DEF Range
<1> HIDE DEF m, moved
<1>7. frame \in frames
  BY <1>6
<1> HIDE DEF frame, frames
<1>8. /\ dfs' \in Seq(frames) /\ Len(dfs') = n + 1 /\ dfs'[n + 1] = frame
      /\ \A i \in 1 .. n : dfs'[i] = moved[i]
  BY <1>1, <1>2, <1>3, <1>7
<1>9. ASSUME NEW i \in 1 .. n
      PROVE  /\ dfs'[i].node = dfs[i].node
             /\ \A k \in DOMAIN succ(dfs[i].node) :
                  k < dfs'[i].pos => k < dfs[i].pos \/ (i = n /\ succ(dfs[i].node)[k] = m)
  <2>1. CASE i = n
    <3>1. dfs'[i].node = dfs[i].node /\ dfs'[i].pos = dfs[i].pos + 1
      BY <1>2, <1>8, <2>1
    <3>2. \A k \in DOMAIN succ(dfs[i].node) : k \in Nat
      BY <1>4, <2>1
    <3> QED BY <1>3, <1>5, <2>1, <3>1, <3>2
  <2>2. CASE i # n
    <3> HIDE DEF n
    <3>1. i \in 1 .. n - 1
      BY <1>3, <2>2
    <3> QED BY <1>2, <1>8, <3>1
  <2> QED BY <2>1, <2>2
<1>10. index[m] = Undiscovered
  BY DEF m
<1>11. Pushed(m)
  BY <1>6, <1>8, <1>9 DEF Pushed, frame, frames
<1> QED BY <1>1, <1>6, <1>10, <1>11, Push

\* The next successor of the top frame is known.
LEMMA SkipStep ==
  ASSUME SearchInv, advance, index[succ(Top.node)[Top.pos]] # Undiscovered
  PROVE  SearchInv'
<1>1. PICK n, top, next, moved :
        /\ n = Len(dfs) /\ top = dfs[n].node /\ next = succ(Top.node)[Top.pos]
        /\ moved = Append(Front(dfs), [Top EXCEPT !.pos = @ + 1])
  OBVIOUS
<1>2. /\ dfs # <<>> /\ Top.pos <= Len(succ(Top.node)) /\ index[next] # Undiscovered
      /\ dfs' = moved
      /\ lowlink' = IF next \in Open
                    THEN [lowlink EXCEPT ![Top.node] = Smaller(@, index[next])] ELSE lowlink
      /\ UNCHANGED <<deps, index, stack, sccs, cycles>>
  BY <1>1 DEF advance, Open
<1>3. /\ n \in DOMAIN dfs /\ Top = dfs[n]
      /\ dfs' \in Seq([node : Modules, pos : Nat \ {0}]) /\ Len(dfs') = n
      /\ \A i \in 1 .. n - 1 : dfs'[i] = dfs[i]
      /\ dfs'[n].node = dfs[n].node /\ dfs'[n].pos = dfs[n].pos + 1
  BY <1>1, <1>2, Moved DEF SearchInv
<1>4. /\ n \in Nat /\ n # 0 /\ DOMAIN dfs = 1 .. n /\ DOMAIN dfs' = 1 .. n
      /\ \A i \in 1 .. n : dfs[i].node \in Modules /\ dfs[i].pos \in Nat \ {0}
  <2>1. /\ n \in Nat /\ DOMAIN dfs = 1 .. n
        /\ \A i \in 1 .. n : dfs[i].node \in Modules /\ dfs[i].pos \in Nat \ {0}
    BY <1>1, Domains DEF SearchInv
  <2>2. DOMAIN dfs' = 1 .. n
    <3> DEFINE frames == [node : Modules, pos : Nat \ {0}]
    <3>1. dfs' \in Seq(frames) /\ Len(dfs') = n
      BY <1>3
    <3> HIDE DEF frames
    <3> QED BY <3>1
  <2> QED BY <1>3, <2>1, <2>2
<1>5. \A i \in 1 .. n : dfs'[i].node = dfs[i].node
  BY <1>3, <1>4
<1>6. /\ succ(top) \in Seq(Modules) /\ next = succ(top)[dfs[n].pos] /\ dfs[n].pos \in DOMAIN succ(top)
      /\ \A w : w \in Range(succ(top)) <=> <<top, w>> \in Runtime
  BY <1>1, <1>2, <1>3, <1>4, GraphOfModules DEF SearchInv
<1>7. next \in Modules /\ next \in Seen /\ <<top, next>> \in Runtime
  BY <1>2, <1>6 DEF Range, Seen
<1>8. /\ Runtime' = Runtime /\ \A u : succ(u)' = succ(u) /\ ComponentOf(u)' = ComponentOf(u)
      /\ Seen' = Seen /\ Open' = Open /\ Shut' = Shut /\ counter' = counter /\ Done' = Done
  BY <1>2, SameGraph DEF Seen, Open, Shut, counter, Done
<1>9. \A i \in 1 .. n : Segment(i)' = Segment(i)
  BY <1>2, <1>4, <1>5, <1>8 DEF Segment
<1>10. \A x \in Modules : index[x] \in Nat \cup {Undiscovered} /\ lowlink[x] \in Nat
  BY Domains DEF SearchInv
<1>11. /\ lowlink' \in [Modules -> Nat]
       /\ \A x \in Modules : lowlink'[x] <= lowlink[x]
       /\ \A x \in Modules \ {top} : lowlink'[x] = lowlink[x]
       /\ next \in Open => lowlink'[top] <= index[next]
       /\ lowlink'[top] = lowlink[top] \/ (next \in Open /\ lowlink'[top] = index[next])
  <2>1. top \in Modules /\ index[next] \in Nat /\ lowlink \in [Modules -> Nat]
    BY <1>1, <1>4, <1>7, <1>10 DEF Seen, SearchInv, Types
  <2>2. lowlink[top] \in Nat
    BY <1>10, <2>1
  <2>3. /\ Smaller(lowlink[top], index[next]) \in {lowlink[top], index[next]}
        /\ Smaller(lowlink[top], index[next]) <= lowlink[top]
        /\ Smaller(lowlink[top], index[next]) <= index[next]
    BY <2>1, <2>2 DEF Smaller
  <2>4. lowlink' = IF next \in Open
                   THEN [lowlink EXCEPT ![top] = Smaller(lowlink[top], index[next])] ELSE lowlink
    BY <1>1, <1>2, <1>3
  <2> QED BY <1>10, <2>1, <2>2, <2>3, <2>4
<1>12. \A i \in 1 .. n : dfs[i].node \in Open /\ (dfs[i].node = top => i = n)
  <2>1. \A i \in 1 .. n : i # n => index[dfs[i].node] < index[dfs[n].node]
    BY <1>4 DEF SearchInv, Order
  <2>2. \A i \in 1 .. n : dfs[i].node \in Open /\ index[dfs[i].node] \in Int
    BY <1>4, <1>10 DEF SearchInv, Order, Undiscovered
  <2>3. ASSUME NEW i \in 1 .. n, dfs[i].node = top PROVE i = n
    BY <1>1, <1>4, <2>1, <2>2, <2>3
  <2> QED BY <2>2, <2>3
<1>13. IsGraph(Modules, Runtime)
  BY GraphOfModules DEF SearchInv
<1>14. Types'
  BY <1>2, <1>3, <1>11 DEF SearchInv, Types
<1>15. Order'
  BY <1>2, <1>4, <1>5, <1>8 DEF SearchInv, Order
<1>16. Linked'
  BY <1>4, <1>5, <1>8, <1>9 DEF SearchInv, Linked
<1>17. Attained'
  <2> SUFFICES ASSUME NEW i \in 1 .. n
               PROVE  /\ lowlink'[dfs[i].node] <= index[dfs[i].node]
                      /\ \E w \in Open : index[w] = lowlink'[dfs[i].node] /\ HasPath(dfs[i].node, w, Runtime)
    BY <1>2, <1>4, <1>5, <1>8 DEF Attained
  <2>1. /\ lowlink[dfs[i].node] <= index[dfs[i].node]
        /\ \E w \in Open : index[w] = lowlink[dfs[i].node] /\ HasPath(dfs[i].node, w, Runtime)
    BY <1>4 DEF SearchInv, Attained
  <2>2. lowlink'[dfs[i].node] <= index[dfs[i].node]
    <3>1. index[dfs[i].node] \in Nat
      BY <1>4, <1>12, Domains DEF SearchInv, Order
    <3>2. lowlink'[dfs[i].node] \in Nat /\ lowlink[dfs[i].node] \in Nat /\ lowlink'[dfs[i].node] <= lowlink[dfs[i].node]
      BY <1>4, <1>10, <1>11
    <3> QED BY <2>1, <3>1, <3>2
  <2>3. CASE lowlink'[dfs[i].node] = lowlink[dfs[i].node]
    BY <2>1, <2>2, <2>3
  <2>4. CASE dfs[i].node = top /\ next \in Open /\ lowlink'[top] = index[next]
    BY <1>7, <1>13, <2>2, <2>4, HasPathOneStep
  <2> QED BY <1>4, <1>11, <2>3, <2>4
<1>18. Explored'
  <2> SUFFICES ASSUME NEW i \in 1 .. n
               PROVE  /\ \A u \in Segment(i) \ {dfs[i].node} : \A w \in Range(succ(u)) :
                           w \in Seen /\ (w \in Open => lowlink'[dfs[i].node] <= index[w])
                      /\ \A k \in DOMAIN succ(dfs[i].node) : k < dfs'[i].pos =>
                           LET w == succ(dfs[i].node)[k]
                           IN w \in Seen /\ (w \in Open => lowlink'[dfs[i].node] <= index[w])
    BY <1>2, <1>4, <1>5, <1>8, <1>9 DEF Explored, Followed
  <2>1. ASSUME NEW w, Followed(i, w)
        PROVE  w \in Seen /\ (w \in Open => lowlink'[dfs[i].node] <= index[w])
    <3>1. w \in Seen => index[w] \in Nat
      BY Domains DEF SearchInv
    <3>2. lowlink'[dfs[i].node] \in Nat /\ lowlink[dfs[i].node] \in Nat /\ lowlink'[dfs[i].node] <= lowlink[dfs[i].node]
      BY <1>4, <1>10, <1>11
    <3> QED BY <2>1, <3>1, <3>2 DEF Followed
  <2>2. \A u \in Segment(i) \ {dfs[i].node} : \A w \in Range(succ(u)) : Followed(i, w)
    BY <1>4 DEF SearchInv, Explored
  <2>3. ASSUME NEW k \in DOMAIN succ(dfs[i].node), k < dfs'[i].pos, NEW w, w = succ(dfs[i].node)[k]
        PROVE  w \in Seen /\ (w \in Open => lowlink'[dfs[i].node] <= index[w])
    <3>1. CASE k < dfs[i].pos
      <4>1. Followed(i, w)
        BY <1>4, <2>3, <3>1 DEF SearchInv, Explored
      <4> QED BY <2>1, <4>1
    <3>2. CASE i = n /\ k = dfs[n].pos
      BY <1>1, <1>6, <1>7, <1>11, <2>3, <3>2
    <3>3. (i = n /\ k = dfs[n].pos) \/ k < dfs[i].pos
      <4>1. CASE i = n
        BY <1>1, <1>3, <1>4, <1>6, <2>3, <4>1
      <4>2. CASE i # n
        BY <1>3, <1>4, <2>3, <4>2
      <4> QED BY <4>1, <4>2
    <3> QED BY <3>1, <3>2, <3>3
  <2> QED BY <2>1, <2>2, <2>3
<1>19. Closing'
  BY <1>2, <1>8 DEF SearchInv, Closing
<1>20. Finished'
  BY <1>2, <1>8 DEF SearchInv, Finished
<1> QED BY <1>14, <1>15, <1>16, <1>17, <1>18, <1>19, <1>20 DEF SearchInv

--------------------------------------------------------------------------------
(* The top frame has no successor left.                                    *)

\* What the frames are when the top one, of t, is gone, and what it has found.
Pops(n, t) ==
  /\ n \in Nat /\ n # 0 /\ DOMAIN dfs = 1 .. n /\ DOMAIN dfs' = 1 .. n - 1
  /\ dfs' \in Seq([node : Modules, pos : Nat \ {0}])
  /\ \A i \in 1 .. n : dfs[i].node \in Modules /\ dfs[i].node \in Open /\ index[dfs[i].node] \in Nat
  /\ \A i, j \in 1 .. n : i < j => index[dfs[i].node] < index[dfs[j].node]
  /\ \A i \in 1 .. n - 1 : dfs'[i] = dfs[i] /\ i \in 1 .. n /\ i # n /\ dfs[i].node # t
  /\ t \in Open /\ t \in Modules /\ index[t] \in Nat /\ Top.node = t
  /\ \A u \in Segment(n) : \A w : <<u, w>> \in Runtime => Followed(n, w)

LEMMA Popped ==
  ASSUME SearchInv, retreat, NEW n, n = Len(dfs), NEW t, t = dfs[n].node
  PROVE  Pops(n, t)
<1>1. /\ n \in Nat /\ DOMAIN dfs = 1 .. n
      /\ \A i \in 1 .. n : dfs[i].node \in Modules /\ dfs[i].pos \in Nat \ {0}
  BY Domains DEF SearchInv
<1>2. dfs # <<>> /\ Top.pos > Len(succ(Top.node)) /\ dfs' = Front(dfs)
  BY DEF retreat
<1>3. /\ n # 0 /\ Top = dfs[n] /\ DOMAIN dfs' = 1 .. n - 1
      /\ dfs' \in Seq([node : Modules, pos : Nat \ {0}])
      /\ \A i \in 1 .. n - 1 : dfs'[i] = dfs[i]
  <2> DEFINE frames == [node : Modules, pos : Nat \ {0}]
  <2>1. dfs \in Seq(frames)
    BY DEF SearchInv, Types
  <2> HIDE DEF frames
  <2>2. /\ n # 0 /\ Top = dfs[n] /\ DOMAIN dfs' = 1 .. n - 1 /\ dfs' \in Seq(frames)
        /\ \A i \in 1 .. n - 1 : dfs'[i] = dfs[i]
    BY <1>2, <2>1 DEF Front, Top, Last
  <2> QED BY <2>2 DEF frames
<1>4. \A i \in 1 .. n : dfs[i].node \in Open /\ index[dfs[i].node] \in Nat
  BY <1>1, Domains DEF SearchInv, Order
<1>5. \A i, j \in 1 .. n : i < j => index[dfs[i].node] < index[dfs[j].node]
  BY <1>1 DEF SearchInv, Order
<1>6. \A i \in 1 .. n - 1 : i \in 1 .. n /\ i # n /\ dfs[i].node # t
  <2> TAKE i \in 1 .. n - 1
  <2>1. i \in 1 .. n /\ n \in 1 .. n /\ i < n
    BY <1>1, <1>3
  <2>2. index[dfs[i].node] < index[dfs[n].node] /\ index[dfs[i].node] \in Nat
    BY <1>4, <1>5, <2>1
  <2> QED BY <2>1, <2>2
<1>7. n \in 1 .. n
  BY <1>1, <1>3
<1>8. \A u \in Segment(n) : \A w : <<u, w>> \in Runtime => Followed(n, w)
  <2> SUFFICES ASSUME NEW u \in Segment(n), NEW w, <<u, w>> \in Runtime PROVE Followed(n, w)
    OBVIOUS
  <2>1. u \in Modules
    BY Domains DEF SearchInv, Segment
  <2>2. w \in Range(succ(u)) /\ succ(u) \in Seq(Modules)
    BY <2>1, GraphOfModules DEF SearchInv
  <2>3. CASE u # t
    BY <1>1, <1>7, <2>2, <2>3 DEF SearchInv, Explored
  <2>4. CASE u = t
    <3>1. PICK k \in DOMAIN succ(t) : succ(t)[k] = w
      BY <2>2, <2>4 DEF Range
    <3>2. k < dfs[n].pos
      BY <1>1, <1>2, <1>3, <1>7, <2>2, <2>4
    <3> QED BY <1>1, <1>7, <3>1, <3>2 DEF SearchInv, Explored
  <2> QED BY <2>3, <2>4
<1>9. t \in Open /\ t \in Modules /\ index[t] \in Nat /\ Top.node = t
  BY <1>1, <1>3, <1>4, <1>7
<1>10. \A i \in 1 .. n : dfs[i].node \in Modules /\ dfs[i].node \in Open /\ index[dfs[i].node] \in Nat
  BY <1>1, <1>4
<1>11. \A i \in 1 .. n - 1 : dfs'[i] = dfs[i] /\ i \in 1 .. n /\ i # n /\ dfs[i].node # t
  BY <1>3, <1>6
<1> QED BY <1>1, <1>3, <1>5, <1>8, <1>9, <1>10, <1>11 DEF Pops

\* It reaches an open module that was discovered before it, and its segment becomes
\* part of the one below.
LEMMA BelowTheTop ==
  ASSUME NEW n, NEW t, Pops(n, t), t = dfs[n].node
  PROVE  \A i \in 1 .. n - 1 :
           /\ dfs'[i] = dfs[i] /\ dfs[i].node \in Open /\ dfs[i].node \in Modules
           /\ index[dfs[i].node] \in Nat /\ index[dfs[i].node] < index[t] /\ dfs[i].node # t
<1> SUFFICES ASSUME NEW i \in 1 .. n - 1
             PROVE  /\ dfs'[i] = dfs[i] /\ dfs[i].node \in Open /\ dfs[i].node \in Modules
                    /\ index[dfs[i].node] \in Nat /\ index[dfs[i].node] < index[t] /\ dfs[i].node # t
  OBVIOUS
<1>1. n \in Nat /\ n # 0
  BY DEF Pops
<1>2. i \in 1 .. n /\ n \in 1 .. n /\ i < n
  BY <1>1
<1>3. \A h, j \in 1 .. n : h < j => index[dfs[h].node] < index[dfs[j].node]
  BY DEF Pops
<1>4. index[dfs[i].node] < index[dfs[n].node]
  BY <1>2, <1>3
<1>5. dfs'[i] = dfs[i] /\ dfs[i].node # t
  BY DEF Pops
<1>6. dfs[i].node \in Open /\ dfs[i].node \in Modules /\ index[dfs[i].node] \in Nat
  BY <1>2 DEF Pops
<1> QED BY <1>4, <1>5, <1>6

LEMMA ReturnStep ==
  ASSUME SearchInv, retreat, lowlink[Top.node] # index[Top.node]
  PROVE  SearchInv'
<1>1. PICK n, t : n = Len(dfs) /\ t = dfs[n].node
  OBVIOUS
<1>2. /\ n \in Nat /\ n # 0 /\ DOMAIN dfs = 1 .. n /\ DOMAIN dfs' = 1 .. n - 1
      /\ dfs' \in Seq([node : Modules, pos : Nat \ {0}])
      /\ \A i \in 1 .. n : dfs[i].node \in Modules /\ dfs[i].node \in Open /\ index[dfs[i].node] \in Nat
      /\ \A i, j \in 1 .. n : i < j => index[dfs[i].node] < index[dfs[j].node]
      /\ \A i \in 1 .. n - 1 : dfs'[i] = dfs[i] /\ i \in 1 .. n /\ i # n /\ dfs[i].node # t
      /\ t \in Open /\ t \in Modules /\ index[t] \in Nat /\ Top.node = t
      /\ \A u \in Segment(n) : \A w : <<u, w>> \in Runtime => Followed(n, w)
  <2>1. Pops(n, t)
    BY <1>1, Popped
  <2> QED BY <2>1 DEF Pops
<1>3. n \in 1 .. n
  BY <1>2
<1>4. lowlink[t] < index[t] /\ lowlink[t] \in Nat
  <2>1. lowlink[t] <= index[t] /\ lowlink[t] # index[t]
    BY <1>1, <1>2, <1>3 DEF SearchInv, Attained
  <2>2. lowlink[t] \in Nat
    BY <1>2, Domains DEF SearchInv
  <2> QED BY <1>2, <2>1, <2>2
<1>5. PICK lowest \in Open : index[lowest] = lowlink[t] /\ HasPath(t, lowest, Runtime)
  BY <1>1, <1>2, <1>3 DEF SearchInv, Attained
<1>6. PICK j \in 1 .. n : lowest \in Segment(j)
  BY <1>2, <1>5, SegmentsCover DEF SearchInv
<1>7. j # n
  <2>1. index[dfs[j].node] <= index[lowest]
    BY <1>6 DEF Segment
  <2> QED BY <1>1, <1>2, <1>4, <1>5, <2>1
<1>8. PICK p : p = dfs[n - 1].node
  OBVIOUS
<1>9. n - 1 \in 1 .. n - 1 /\ n - 1 \in 1 .. n /\ j <= n - 1 /\ (n - 1) + 1 = n
  BY <1>2, <1>6, <1>7
<1>10. IsGraph(Modules, Runtime)
  BY GraphOfModules DEF SearchInv
<1>11. <<p, t>> \in Runtime
  BY <1>1, <1>2, <1>3, <1>8, <1>9 DEF SearchInv, Linked
<1>12. HasPath(p, t, Runtime) /\ HasPath(t, p, Runtime)
  <2>1. HasPath(p, t, Runtime)
    BY <1>10, <1>11, HasPathOneStep
  <2>2. HasPath(lowest, dfs[j].node, Runtime)
    BY <1>2, <1>6 DEF SearchInv, Linked
  <2>3. HasPath(dfs[j].node, p, Runtime)
    BY <1>2, <1>6, <1>8, <1>9, FramesHavePaths DEF SearchInv
  <2>4. HasPath(t, dfs[j].node, Runtime)
    BY <1>5, <1>10, <2>2, HasPathIsTransitive
  <2> QED BY <1>10, <2>1, <2>3, <2>4, HasPathIsTransitive
<1>13. /\ lowlink' = [lowlink EXCEPT ![p] = Smaller(@, lowlink[t])]
       /\ UNCHANGED <<stack, sccs, deps, index, cycles>>
  <2>1. Len(dfs) # 1
    BY <1>1, <1>2, <1>9
  <2> QED BY <1>1, <1>2, <1>8, <2>1 DEF retreat
<1>14. /\ Runtime' = Runtime /\ \A u : succ(u)' = succ(u) /\ ComponentOf(u)' = ComponentOf(u)
       /\ Seen' = Seen /\ Open' = Open /\ Shut' = Shut /\ counter' = counter /\ Done' = Done
  BY <1>13, SameGraph DEF Seen, Open, Shut, counter, Done
<1>15. \A x \in Modules : lowlink[x] \in Nat
  BY Domains DEF SearchInv
<1>16. p \in Modules /\ p # t /\ index[p] \in Nat /\ index[p] < index[t]
  <2>1. Pops(n, t)
    BY <1>1, Popped
  <2> QED BY <1>1, <1>8, <1>9, <2>1, BelowTheTop
<1>17. /\ lowlink' \in [Modules -> Nat]
       /\ \A x \in Modules : lowlink'[x] <= lowlink[x]
       /\ \A x \in Modules \ {p} : lowlink'[x] = lowlink[x]
       /\ lowlink'[p] <= lowlink[t] /\ lowlink'[p] \in {lowlink[p], lowlink[t]}
  <2>1. lowlink \in [Modules -> Nat]
    BY DEF SearchInv, Types
  <2>2. /\ Smaller(lowlink[p], lowlink[t]) \in {lowlink[p], lowlink[t]}
        /\ Smaller(lowlink[p], lowlink[t]) <= lowlink[p] /\ Smaller(lowlink[p], lowlink[t]) <= lowlink[t]
    BY <1>4, <1>15, <1>16 DEF Smaller
  <2> QED BY <1>4, <1>13, <1>15, <1>16, <2>1, <2>2
<1>18. \A i \in 1 .. n - 1 : i # n - 1 => Segment(i)' = Segment(i)
  <2> SUFFICES ASSUME NEW i \in 1 .. n - 1, i # n - 1 PROVE Segment(i)' = Segment(i)
    OBVIOUS
  <2>1. i + 1 \in 1 .. n - 1 /\ i + 1 \in 1 .. n
    BY <1>2
  <2> QED BY <1>2, <1>13, <1>14, <2>1 DEF Segment
<1>19. Segment(n - 1)' = Segment(n - 1) \cup Segment(n)
  <2>1. (n - 1) + 1 \notin DOMAIN dfs' /\ n + 1 \notin DOMAIN dfs /\ n \in DOMAIN dfs
    BY <1>2, <1>3
  <2>2. \A x : x \in Segment(n - 1)' <=> x \in Open /\ index[p] <= index[x]
    <3>1. dfs'[n' - 1].node = dfs'[n - 1].node
      OBVIOUS
    <3> QED BY <1>2, <1>8, <1>9, <1>13, <1>14, <2>1 DEF Segment
  <2>3. \A x : x \in Segment(n - 1) <=> x \in Open /\ index[p] <= index[x] /\ index[x] < index[t]
    BY <1>1, <1>2, <1>8, <1>9, <2>1 DEF Segment
  <2>4. \A x : x \in Segment(n) <=> x \in Open /\ index[t] <= index[x]
    BY <1>1, <1>2, <2>1 DEF Segment
  <2>5. \A x \in Open : index[x] \in Nat
    BY Domains DEF SearchInv, Order
  <2>6. \A x : x \in Segment(n - 1)' <=> x \in Segment(n - 1) \/ x \in Segment(n)
    BY <1>2, <1>16, <2>2, <2>3, <2>4, <2>5
  <2> QED BY <2>6
<1>20. Types'
  BY <1>2, <1>13, <1>17 DEF SearchInv, Types
<1>21. Order'
  <2>1. \A x \in Open : 1 \in DOMAIN dfs' /\ index[dfs'[1].node] <= index[x]
    <3>1. 1 \in 1 .. n - 1
      BY <1>2, <1>9
    <3> QED BY <1>2, <3>1 DEF SearchInv, Order
  <2> QED BY <1>2, <1>13, <1>14, <2>1 DEF SearchInv, Order
<1>22. Linked'
  <2>1. \A i \in DOMAIN dfs' : i + 1 \in DOMAIN dfs' => <<dfs'[i].node, dfs'[i + 1].node>> \in Runtime'
    <3> SUFFICES ASSUME NEW i \in 1 .. n - 1, i + 1 \in 1 .. n - 1
                 PROVE <<dfs[i].node, dfs[i + 1].node>> \in Runtime
      BY <1>2, <1>14
    <3> QED BY <1>2 DEF SearchInv, Linked
  <2>2. \A i \in DOMAIN dfs' : \A x \in Segment(i)' :
          HasPath(dfs'[i].node, x, Runtime') /\ HasPath(x, dfs'[i].node, Runtime')
    <3> SUFFICES ASSUME NEW i \in 1 .. n - 1, NEW x \in Segment(i)'
                 PROVE  HasPath(dfs[i].node, x, Runtime) /\ HasPath(x, dfs[i].node, Runtime)
      BY <1>2, <1>14
    <3>1. CASE x \in Segment(i)
      BY <1>2, <3>1 DEF SearchInv, Linked
    <3>2. CASE i = n - 1 /\ x \in Segment(n)
      <4>1. HasPath(t, x, Runtime) /\ HasPath(x, t, Runtime)
        <5>1. n \in DOMAIN dfs /\ dfs[n].node = t
          BY <1>1, <1>2, <1>3
        <5> QED BY <3>2, <5>1 DEF SearchInv, Linked
      <4> QED BY <1>8, <1>10, <1>12, <3>2, <4>1, HasPathIsTransitive
    <3> QED BY <1>18, <1>19, <3>1, <3>2
  <2> QED BY <2>1, <2>2 DEF Linked
<1>23. Attained'
  <2> SUFFICES ASSUME NEW i \in 1 .. n - 1
               PROVE  /\ lowlink'[dfs[i].node] <= index[dfs[i].node]
                      /\ \E w \in Open : index[w] = lowlink'[dfs[i].node] /\ HasPath(dfs[i].node, w, Runtime)
    BY <1>2, <1>13, <1>14 DEF Attained
  <2>1. /\ lowlink[dfs[i].node] <= index[dfs[i].node]
        /\ \E w \in Open : index[w] = lowlink[dfs[i].node] /\ HasPath(dfs[i].node, w, Runtime)
    BY <1>2 DEF SearchInv, Attained
  <2>2. lowlink'[dfs[i].node] <= index[dfs[i].node]
    <3>1. lowlink'[dfs[i].node] \in Nat /\ lowlink[dfs[i].node] \in Nat /\ lowlink'[dfs[i].node] <= lowlink[dfs[i].node]
      BY <1>2, <1>15, <1>17
    <3>2. index[dfs[i].node] \in Nat
      BY <1>2
    <3> QED BY <2>1, <3>1, <3>2
  <2>3. CASE lowlink'[dfs[i].node] = lowlink[dfs[i].node]
    BY <2>1, <2>2, <2>3
  <2>4. CASE dfs[i].node = p /\ lowlink'[p] = lowlink[t]
    BY <1>5, <1>10, <1>12, <2>2, <2>4, HasPathIsTransitive
  <2> QED BY <1>2, <1>17, <2>3, <2>4
<1>24. Explored'
  <2> SUFFICES ASSUME NEW i \in 1 .. n - 1
               PROVE  /\ \A u \in Segment(i)' \ {dfs[i].node} : \A w \in Range(succ(u)) :
                           w \in Seen /\ (w \in Open => lowlink'[dfs[i].node] <= index[w])
                      /\ \A k \in DOMAIN succ(dfs[i].node) : k < dfs[i].pos =>
                           LET w == succ(dfs[i].node)[k]
                           IN w \in Seen /\ (w \in Open => lowlink'[dfs[i].node] <= index[w])
    BY <1>2, <1>13, <1>14 DEF Explored, Followed
  <2>1. \A x \in Seen : index[x] \in Nat
    BY Domains DEF SearchInv
  <2>2. lowlink'[dfs[i].node] \in Nat /\ lowlink[dfs[i].node] \in Nat /\ lowlink'[dfs[i].node] <= lowlink[dfs[i].node]
    BY <1>2, <1>15, <1>17
  <2>3. ASSUME NEW w, Followed(i, w)
        PROVE  w \in Seen /\ (w \in Open => lowlink'[dfs[i].node] <= index[w])
    BY <2>1, <2>2, <2>3 DEF Followed
  <2>4. ASSUME NEW u \in Segment(i)' \ {dfs[i].node}, NEW w \in Range(succ(u))
        PROVE  w \in Seen /\ (w \in Open => lowlink'[dfs[i].node] <= index[w])
    <3>1. CASE u \in Segment(i)
      BY <1>2, <2>3, <2>4, <3>1 DEF SearchInv, Explored
    <3>2. CASE i = n - 1 /\ u \in Segment(n)
      <4>1. u \in Modules
        BY <3>2, Domains DEF SearchInv, Segment
      <4>2. <<u, w>> \in Runtime
        BY <2>4, <4>1, GraphOfModules DEF SearchInv
      <4>3. Followed(n, w)
        BY <1>2, <3>2, <4>2
      <4>4. dfs[i].node = p /\ lowlink'[p] <= lowlink[t]
        BY <1>8, <1>17, <3>2
      <4> QED BY <1>1, <1>4, <2>1, <2>2, <4>3, <4>4 DEF Followed
    <3> QED BY <1>18, <1>19, <2>4, <3>1, <3>2
  <2>5. ASSUME NEW k \in DOMAIN succ(dfs[i].node), k < dfs[i].pos
        PROVE  LET w == succ(dfs[i].node)[k]
               IN w \in Seen /\ (w \in Open => lowlink'[dfs[i].node] <= index[w])
    <3>1. Followed(i, succ(dfs[i].node)[k])
      BY <1>2, <2>5 DEF SearchInv, Explored
    <3> QED BY <2>3, <3>1
  <2> QED BY <2>4, <2>5
<1>25. Closing'
  BY <1>13, <1>14 DEF SearchInv, Closing
<1>26. Finished'
  <2>1. ~ Done
    BY <1>2 DEF SearchInv, Finished
  <2> QED BY <1>14, <2>1 DEF Finished
<1> QED BY <1>20, <1>21, <1>22, <1>23, <1>24, <1>25, <1>26 DEF SearchInv

\* What is popped is what was discovered since the node, each once; the rest stays.
LEMMA ClosedScc ==
  ASSUME Types, Order, NEW t \in Open
  PROVE  LET closed == close_scc(t)
         IN /\ closed.scc \in Seq(Modules) /\ IsInjective(closed.scc)
            /\ Range(closed.scc) = {x \in Open : index[t] <= index[x]}
            /\ closed.rest \in Seq(Modules)
            /\ Range(closed.rest) = {x \in Open : index[x] < index[t]}
            /\ \A i \in DOMAIN closed.rest : i \in DOMAIN stack /\ closed.rest[i] = stack[i]
<1> DEFINE n == Len(stack)
           at == CHOOSE i \in DOMAIN stack : stack[i] = t
           tail == SubSeq(stack, at, n)
           scc == Reverse(tail)
           rest == SubSeq(stack, 1, at - 1)
           size == n - at + 1
<1>1. n \in Nat /\ DOMAIN stack = 1 .. n /\ stack \in Seq(Modules)
  BY DEF Types
<1>2. at \in 1 .. n /\ stack[at] = t
  <2>1. \E i \in DOMAIN stack : stack[i] = t
    BY DEF Open, Range
  <2> QED BY <1>1, <2>1
<1>3. close_scc(t) = [scc |-> scc, rest |-> rest]
  BY DEF close_scc
<1> HIDE DEF n, at
<1>4. /\ tail \in Seq(Modules) /\ Len(tail) = size /\ size \in Nat
      /\ \A i \in 1 .. size : tail[i] = stack[at + i - 1]
  BY <1>1, <1>2
<1> HIDE DEF tail
<1>5. /\ DOMAIN scc = 1 .. size
      /\ \A i \in 1 .. size : scc[i] = tail[(size - i) + 1] /\ (size - i) + 1 \in 1 .. size
  BY <1>4 DEF Reverse
<1>6. \A i \in 1 .. size : scc[i] = stack[n - i + 1] /\ n - i + 1 \in at .. n
  BY <1>1, <1>2, <1>4, <1>5
<1>7. scc \in Seq(Modules)
  <2>1. \A i \in 1 .. size : scc[i] \in Modules
    BY <1>1, <1>2, <1>6
  <2>2. scc \in [1 .. size -> Modules]
    BY <1>4, <2>1 DEF Reverse
  <2> HIDE DEF scc
  <2> QED BY <1>4, <2>2, SeqDef
<1>8. /\ rest \in Seq(Modules) /\ DOMAIN rest = 1 .. at - 1
      /\ \A i \in 1 .. at - 1 : rest[i] = stack[i]
  BY <1>1, <1>2
<1>9. \A i \in DOMAIN stack : stack[i] \in Open /\ index[stack[i]] \in Nat
  BY Domains DEF Open, Range, Order
<1>10. \A i, j \in 1 .. n : i < j => index[stack[i]] < index[stack[j]]
  BY <1>1 DEF Order
<1> HIDE DEF scc, rest, size
<1>11. IsInjective(scc)
  <2> SUFFICES ASSUME NEW i \in 1 .. size, NEW j \in 1 .. size, scc[i] = scc[j] PROVE i = j
    BY <1>5 DEF IsInjective
  <2> DEFINE k == n - i + 1
             l == n - j + 1
  <2>1. k \in at .. n /\ l \in at .. n /\ stack[k] = stack[l]
    BY <1>6
  <2>2. k \in 1 .. n /\ l \in 1 .. n /\ index[stack[k]] = index[stack[l]] /\ index[stack[k]] \in Nat
    BY <1>1, <1>2, <1>9, <2>1
  <2> HIDE DEF k, l
  <2>3. k = l
    BY <1>1, <1>10, <2>2
  <2> QED BY <1>1, <1>4, <2>3 DEF k, l
<1>12. \A k \in 1 .. n : index[t] <= index[stack[k]] <=> k \in at .. n
  <2> TAKE k \in 1 .. n
  <2>1. index[stack[k]] \in Nat /\ index[t] \in Nat
    BY <1>1, <1>2, <1>9
  <2>2. k < at => index[stack[k]] < index[t]
    BY <1>2, <1>10
  <2>3. at < k => index[t] < index[stack[k]]
    BY <1>2, <1>10
  <2> QED BY <1>1, <1>2, <2>1, <2>2, <2>3
<1>13. \A x \in Open : \E k \in 1 .. n : stack[k] = x
  BY <1>1 DEF Open, Range
<1>14. Range(scc) = {x \in Open : index[t] <= index[x]}
  <2>1. ASSUME NEW x \in Range(scc) PROVE x \in Open /\ index[t] <= index[x]
    <3>1. PICK i \in 1 .. size : scc[i] = x
      BY <1>5 DEF Range
    <3>2. n - i + 1 \in at .. n /\ n - i + 1 \in 1 .. n /\ stack[n - i + 1] = x
      BY <1>1, <1>2, <1>6, <3>1
    <3> QED BY <1>1, <1>9, <1>12, <3>2
  <2>2. ASSUME NEW x \in Open, index[t] <= index[x] PROVE x \in Range(scc)
    <3>1. PICK k \in 1 .. n : stack[k] = x
      BY <1>13
    <3>2. k \in at .. n
      BY <1>12, <2>2, <3>1
    <3>3. n - k + 1 \in 1 .. size /\ n - (n - k + 1) + 1 = k
      BY <1>1, <1>2, <3>2 DEF size
    <3>4. scc[n - k + 1] = x
      BY <1>6, <3>1, <3>3
    <3> QED BY <1>5, <3>3, <3>4 DEF Range
  <2> QED BY <2>1, <2>2
<1>15. Range(rest) = {x \in Open : index[x] < index[t]}
  <2>1. \A k \in 1 .. n : index[stack[k]] < index[t] <=> k \in 1 .. at - 1
    <3> TAKE k \in 1 .. n
    <3>1. index[stack[k]] \in Nat /\ index[t] \in Nat
      BY <1>1, <1>2, <1>9
    <3> QED BY <1>1, <1>2, <1>12, <3>1
  <2>2. \A k \in 1 .. at - 1 : k \in 1 .. n
    BY <1>1, <1>2
  <2> QED BY <1>1, <1>8, <1>9, <1>13, <2>1, <2>2 DEF Range
<1>16. \A i \in DOMAIN rest : i \in DOMAIN stack /\ rest[i] = stack[i]
  BY <1>1, <1>2, <1>8
<1> QED BY <1>3, <1>7, <1>8, <1>11, <1>14, <1>15, <1>16

LEMMA TwoOrMore ==
  ASSUME NEW S, NEW s \in Seq(S), IsInjective(s), NEW t \in Range(s)
  PROVE  Len(s) >= 2 <=> \E u \in Range(s) : u # t
<1>1. Len(s) \in Nat /\ DOMAIN s = 1 .. Len(s)
  OBVIOUS
<1>2. PICK i \in 1 .. Len(s) : s[i] = t
  BY <1>1 DEF Range
<1>3. ASSUME Len(s) >= 2 PROVE \E u \in Range(s) : u # t
  <2>1. PICK k \in 1 .. Len(s) : k # i
    <3>1. 1 \in 1 .. Len(s) /\ 2 \in 1 .. Len(s) /\ 1 # 2
      BY <1>1, <1>3
    <3> QED BY <3>1
  <2>2. s[k] # t /\ s[k] \in Range(s)
    BY <1>1, <1>2, <2>1 DEF IsInjective, Range
  <2> QED BY <2>2
<1>4. ASSUME NEW u \in Range(s), u # t PROVE Len(s) >= 2
  <2>1. PICK k \in 1 .. Len(s) : s[k] = u
    BY <1>1 DEF Range
  <2>2. k # i
    BY <1>2, <1>4, <2>1
  <2> QED BY <1>1, <1>2, <2>1, <2>2
<1> QED BY <1>3, <1>4

\* It reaches nothing that was discovered before it: its segment is a component.
LEMMA CloseStep ==
  ASSUME SearchInv, retreat, lowlink[Top.node] = index[Top.node]
  PROVE  SearchInv'
<1>1. PICK n, t : n = Len(dfs) /\ t = dfs[n].node
  OBVIOUS
<1>2. /\ n \in Nat /\ n # 0 /\ DOMAIN dfs = 1 .. n /\ DOMAIN dfs' = 1 .. n - 1
      /\ dfs' \in Seq([node : Modules, pos : Nat \ {0}])
      /\ \A i \in 1 .. n : dfs[i].node \in Modules /\ dfs[i].node \in Open /\ index[dfs[i].node] \in Nat
      /\ \A i, j \in 1 .. n : i < j => index[dfs[i].node] < index[dfs[j].node]
      /\ \A i \in 1 .. n - 1 : dfs'[i] = dfs[i] /\ i \in 1 .. n /\ i # n /\ dfs[i].node # t
      /\ t \in Open /\ t \in Modules /\ index[t] \in Nat /\ Top.node = t
      /\ \A u \in Segment(n) : \A w : <<u, w>> \in Runtime => Followed(n, w)
  <2>1. Pops(n, t)
    BY <1>1, Popped
  <2> QED BY <2>1 DEF Pops
<1>3. n \in 1 .. n /\ lowlink[t] = index[t] /\ \A i \in 1 .. n - 1 :
        /\ dfs'[i] = dfs[i] /\ dfs[i].node \in Open /\ dfs[i].node \in Modules
        /\ index[dfs[i].node] \in Nat /\ index[dfs[i].node] < index[t] /\ dfs[i].node # t
  <2>1. Pops(n, t)
    BY <1>1, Popped
  <2>2. n \in 1 .. n /\ lowlink[t] = index[t]
    BY <1>2
  <2> QED BY <1>1, <2>1, <2>2, BelowTheTop
<1>4. PICK scc, rest :
        /\ scc \in Seq(Modules) /\ IsInjective(scc)
        /\ Range(scc) = {x \in Open : index[t] <= index[x]}
        /\ rest \in Seq(Modules)
        /\ Range(rest) = {x \in Open : index[x] < index[t]}
        /\ \A i \in DOMAIN rest : i \in DOMAIN stack /\ rest[i] = stack[i]
        /\ stack' = rest
        /\ sccs' = IF Len(scc) >= 2 THEN Append(sccs, scc) ELSE sccs
  <2> DEFINE closed == close_scc(t)
  <2>1. /\ closed.scc \in Seq(Modules) /\ IsInjective(closed.scc)
        /\ Range(closed.scc) = {x \in Open : index[t] <= index[x]}
        /\ closed.rest \in Seq(Modules)
        /\ Range(closed.rest) = {x \in Open : index[x] < index[t]}
        /\ \A i \in DOMAIN closed.rest : i \in DOMAIN stack /\ closed.rest[i] = stack[i]
    BY <1>2, ClosedScc DEF SearchInv
  <2>2. /\ stack' = closed.rest
        /\ sccs' = IF Len(closed.scc) >= 2 THEN Append(sccs, closed.scc) ELSE sccs
    BY <1>2 DEF retreat
  <2> HIDE DEF closed
  <2> QED BY <2>1, <2>2
<1> DEFINE popped == {x \in Open : index[t] <= index[x]}
<1>5. \A x \in Open : x \in Modules /\ x \in Seen /\ index[x] \in Nat
  BY Domains DEF SearchInv, Order
<1>6. UNCHANGED <<deps, index, cycles>>
  BY DEF retreat
<1>7. lowlink' = lowlink
  <2>1. CASE n = 1
    BY <1>1, <2>1 DEF retreat
  <2>2. CASE n # 1
    <3> DEFINE p == dfs[n - 1].node
    <3>1. n - 1 \in 1 .. n /\ n - 1 < n
      BY <1>2, <2>2
    <3>2. lowlink[p] <= index[p] /\ index[p] < index[t] /\ p \in Modules /\ index[p] \in Nat
      BY <1>1, <1>2, <1>3, <3>1 DEF SearchInv, Attained
    <3>3. lowlink[p] \in Nat
      BY <3>2, Domains DEF SearchInv
    <3>4. lowlink' = [lowlink EXCEPT ![p] = Smaller(lowlink[p], lowlink[t])]
      BY <1>1, <1>2, <2>2 DEF retreat
    <3> HIDE DEF p
    <3>5. Smaller(lowlink[p], lowlink[t]) = lowlink[p]
      BY <1>2, <1>3, <3>2, <3>3 DEF Smaller
    <3>6. lowlink \in [Modules -> Nat]
      BY DEF SearchInv, Types
    <3> QED BY <3>4, <3>5, <3>6
  <2> QED BY <2>1, <2>2
<1>8. /\ Runtime' = Runtime /\ \A u : succ(u)' = succ(u) /\ ComponentOf(u)' = ComponentOf(u)
      /\ Seen' = Seen /\ counter' = counter /\ Done' = Done
  BY <1>6, SameGraph DEF Seen, counter, Done
<1>9. /\ Open' = {x \in Open : index[x] < index[t]}
      /\ Shut' = Shut \cup popped
      /\ popped \cap Shut = {} /\ t \in popped
  <2>1. Open' = {x \in Open : index[x] < index[t]}
    BY <1>4 DEF Open
  <2>2. \A x \in Open : index[x] < index[t] <=> x \notin popped
    BY <1>2, <1>5
  <2>3. t \in popped
    BY <1>2
  <2> HIDE DEF popped
  <2>4. popped \subseteq Open
    BY DEF popped
  <2> QED BY <1>5, <1>8, <2>1, <2>2, <2>3, <2>4 DEF Shut
<1>10. popped = Segment(n)
  <2>1. n + 1 \notin DOMAIN dfs
    BY <1>2
  <2> QED BY <1>1, <2>1 DEF Segment
<1> HIDE DEF popped
<1>11. IsGraph(Modules, Runtime)
  BY GraphOfModules DEF SearchInv
<1>12. Closed(Shut', Runtime)
  <2> SUFFICES ASSUME NEW e \in Runtime, e[1] \in Shut' PROVE e[2] \in Shut'
    BY DEF Closed
  <2>1. e = <<e[1], e[2]>>
    BY <1>11 DEF IsGraph
  <2>2. CASE e[1] \in Shut
    BY <1>9, <2>2 DEF SearchInv, Closing, Closed
  <2>3. CASE e[1] \in popped
    <3>1. Followed(n, e[2])
      BY <1>2, <1>10, <2>1, <2>3
    <3>2. e[2] \in Seen /\ (e[2] \in Open => e[2] \in popped)
      BY <1>1, <1>3, <3>1 DEF Followed, popped
    <3> QED BY <1>9, <3>2 DEF Shut
  <2> QED BY <1>9, <2>2, <2>3
<1>13. ComponentOf(t) = popped
  <2>1. ASSUME NEW x \in popped PROVE x \in ComponentOf(t)
    <3>1. n \in DOMAIN dfs /\ x \in Segment(n) /\ dfs[n].node = t
      BY <1>1, <1>2, <1>3, <1>10
    <3>2. HasPath(t, x, Runtime) /\ HasPath(x, t, Runtime)
      BY <3>1 DEF SearchInv, Linked
    <3> QED BY <1>5, <3>2 DEF ComponentOf, Component, popped
  <2>2. ASSUME NEW x \in ComponentOf(t) PROVE x \in popped
    <3>1. HasPath(t, x, Runtime) /\ HasPath(x, t, Runtime)
      BY DEF ComponentOf, Component
    <3>2. x \in Shut'
      BY <1>9, <1>11, <1>12, <3>1, HasPathIsLeast
    <3>3. x \notin Shut
      <4> SUFFICES ASSUME x \in Shut PROVE FALSE
        OBVIOUS
      <4>1. Closed(Shut, Runtime)
        BY DEF SearchInv, Closing
      <4>2. t \in Shut
        BY <1>11, <3>1, <4>1, HasPathIsLeast
      <4> QED BY <1>9, <4>2
    <3> QED BY <1>9, <3>2, <3>3
  <2> QED BY <2>1, <2>2
<1>14. \A u \in popped : ComponentOf(u) = popped
  <2> TAKE u \in popped
  <2>1. u \in Component(t, Modules, Runtime)
    BY <1>13 DEF ComponentOf
  <2> QED BY <1>2, <1>11, <1>13, <2>1, ComponentsAreClasses DEF ComponentOf
<1>15. \A m \in Shut : m \in ComponentOf(m) /\ m \notin popped
  BY <1>9, <1>11, HasPathIsLeast DEF Shut, Seen, ComponentOf, Component
<1>16. Range(scc) = popped
  BY <1>4 DEF popped
<1>17. Len(scc) >= 2 <=> \E u \in popped : u # t
  BY <1>4, <1>9, <1>16, TwoOrMore
<1>18. \A i \in 1 .. n - 1 : Segment(i)' = Segment(i)
  <2> SUFFICES ASSUME NEW i \in 1 .. n - 1 PROVE Segment(i)' = Segment(i)
    OBVIOUS
  <2>1. CASE i # n - 1
    <3>1. i + 1 \in 1 .. n - 1 /\ i + 1 \in 1 .. n /\ i + 1 < n
      BY <1>2, <2>1
    <3>2. index[dfs[i + 1].node] < index[t] /\ index[dfs[i + 1].node] \in Nat
      BY <1>1, <1>2, <1>3, <3>1
    <3>3. \A x \in Open : index[x] < index[dfs[i + 1].node] => x \in Open'
      BY <1>2, <1>5, <1>9, <3>2
    <3> QED BY <1>2, <1>6, <1>9, <3>1, <3>3 DEF Segment
  <2>2. CASE i = n - 1
    <3>1. i + 1 = n /\ i + 1 \in DOMAIN dfs /\ i + 1 \notin DOMAIN dfs'
      BY <1>2, <1>3, <2>2
    <3>2. dfs[i + 1].node = t
      BY <1>1, <3>1
    <3> QED BY <1>2, <1>6, <1>9, <3>1, <3>2 DEF Segment
  <2> QED BY <2>1, <2>2
<1>19. Types'
  <2>1. sccs' \in Seq(Seq(Modules))
    <3> DEFINE S == Seq(Modules)
    <3>1. sccs \in Seq(S) /\ scc \in S
      BY <1>4 DEF SearchInv, Types
    <3> HIDE DEF S
    <3>2. sccs' \in Seq(S)
      BY <1>4, <3>1
    <3> QED BY <3>2 DEF S
  <2> QED BY <1>2, <1>4, <1>6, <1>7, <2>1 DEF SearchInv, Types
<1>20. Order'
  <2>1. \A x \in Open' : 1 \in DOMAIN dfs' /\ index[dfs'[1].node] <= index[x]
    <3> SUFFICES ASSUME NEW x \in Open' PROVE 1 \in DOMAIN dfs' /\ index[dfs'[1].node] <= index[x]
      OBVIOUS
    <3>1. x \in Open /\ index[x] < index[t] /\ index[x] \in Nat
      BY <1>5, <1>9
    <3>2. index[dfs[1].node] <= index[x]
      BY <3>1 DEF SearchInv, Order
    <3>3. n # 1
      <4> SUFFICES ASSUME n = 1 PROVE FALSE
        OBVIOUS
      <4>1. dfs[1].node = t
        BY <1>1
      <4>2. index[t] <= index[x] /\ index[t] \in Nat
        BY <1>2, <3>2, <4>1
      <4> QED BY <3>1, <4>2
    <3>4. 1 \in 1 .. n - 1
      BY <1>2, <3>3
    <3> QED BY <1>2, <3>2, <3>4
  <2>2. \A i \in DOMAIN dfs' : dfs'[i].node \in Open'
    <3> SUFFICES ASSUME NEW i \in 1 .. n - 1 PROVE dfs'[i].node \in Open'
      BY <1>2
    <3>1. dfs[i].node \in Open /\ index[dfs[i].node] < index[t] /\ dfs'[i] = dfs[i]
      BY <1>3
    <3> QED BY <1>9, <3>1
  <2>3. \A i, j \in DOMAIN dfs' : i < j => index[dfs'[i].node] < index[dfs'[j].node]
    BY <1>2
  <2>4. \A i, j \in DOMAIN stack' : i < j => index[stack'[i]] < index[stack'[j]]
    BY <1>4 DEF SearchInv, Order
  <2>5. \A m \in Seen : index[m] < counter
    BY DEF SearchInv, Order
  <2> QED BY <1>5, <1>6, <1>8, <1>9, <2>1, <2>2, <2>3, <2>4, <2>5 DEF Order
<1>21. Linked'
  <2>1. \A i \in DOMAIN dfs' : i + 1 \in DOMAIN dfs' => <<dfs'[i].node, dfs'[i + 1].node>> \in Runtime'
    <3> SUFFICES ASSUME NEW i \in 1 .. n - 1, i + 1 \in 1 .. n - 1
                 PROVE <<dfs[i].node, dfs[i + 1].node>> \in Runtime
      BY <1>2, <1>8
    <3> QED BY <1>2 DEF SearchInv, Linked
  <2>2. \A i \in DOMAIN dfs' : \A x \in Segment(i)' :
          HasPath(dfs'[i].node, x, Runtime') /\ HasPath(x, dfs'[i].node, Runtime')
    BY <1>2, <1>8, <1>18 DEF SearchInv, Linked
  <2> QED BY <2>1, <2>2 DEF Linked
<1>22. Attained'
  <2> SUFFICES ASSUME NEW i \in 1 .. n - 1
               PROVE  /\ lowlink[dfs[i].node] <= index[dfs[i].node]
                      /\ \E w \in Open' : index[w] = lowlink[dfs[i].node] /\ HasPath(dfs[i].node, w, Runtime)
    BY <1>2, <1>6, <1>7, <1>8 DEF Attained
  <2>1. lowlink[dfs[i].node] <= index[dfs[i].node]
    BY <1>2 DEF SearchInv, Attained
  <2>2. PICK w \in Open : index[w] = lowlink[dfs[i].node] /\ HasPath(dfs[i].node, w, Runtime)
    BY <1>2 DEF SearchInv, Attained
  <2>3. index[dfs[i].node] < index[t]
    BY <1>3
  <2>4. w \in Open'
    BY <1>2, <1>5, <1>9, <2>1, <2>2, <2>3
  <2> QED BY <2>1, <2>2, <2>4
<1>23. Explored'
  <2> SUFFICES ASSUME NEW i \in 1 .. n - 1
               PROVE  /\ \A u \in Segment(i) \ {dfs[i].node} : \A w \in Range(succ(u)) :
                           w \in Seen /\ (w \in Open' => lowlink[dfs[i].node] <= index[w])
                      /\ \A k \in DOMAIN succ(dfs[i].node) : k < dfs[i].pos =>
                           LET w == succ(dfs[i].node)[k]
                           IN w \in Seen /\ (w \in Open' => lowlink[dfs[i].node] <= index[w])
    BY <1>2, <1>6, <1>7, <1>8, <1>18 DEF Explored, Followed
  <2>1. Open' \subseteq Open
    BY <1>9
  <2> QED BY <1>2, <2>1 DEF SearchInv, Explored, Followed
<1>24. Closing'
  <2> DEFINE Paired(m) == \E n_1 \in ComponentOf(m) : n_1 # m
  <2>1. Len(sccs) \in Nat /\ DOMAIN sccs = 1 .. Len(sccs)
    BY DEF SearchInv, Types
  <2>2. \A i \in DOMAIN sccs : /\ IsInjective(sccs[i])
                               /\ \E m \in Shut : Range(sccs[i]) = ComponentOf(m) /\ Paired(m)
    BY DEF SearchInv, Closing
  <2>3. \A i, j \in DOMAIN sccs : Range(sccs[i]) = Range(sccs[j]) => i = j
    BY DEF SearchInv, Closing
  <2>4. \A m \in Shut : Paired(m) => \E i \in DOMAIN sccs : Range(sccs[i]) = ComponentOf(m)
    BY DEF SearchInv, Closing
  <2>5. \A i \in DOMAIN sccs : Range(sccs[i]) # popped
    BY <1>15, <2>2
  <2>6. \A u \in popped : Paired(u) <=> Len(scc) >= 2
    BY <1>9, <1>14, <1>17
  <2> HIDE DEF Paired
  <2>7. /\ \A i \in DOMAIN sccs' : /\ IsInjective(sccs'[i])
                                   /\ \E m \in Shut' : Range(sccs'[i]) = ComponentOf(m) /\ Paired(m)
        /\ \A i, j \in DOMAIN sccs' : Range(sccs'[i]) = Range(sccs'[j]) => i = j
        /\ \A m \in Shut' : Paired(m) => \E i \in DOMAIN sccs' : Range(sccs'[i]) = ComponentOf(m)
    <3>1. CASE Len(scc) >= 2
      <4> DEFINE S == Seq(Modules)
                 l == Len(sccs) + 1
      <4>1. sccs \in Seq(S) /\ scc \in S
        BY <1>4 DEF SearchInv, Types
      <4> HIDE DEF S
      <4>2. /\ DOMAIN sccs' = 1 .. l /\ sccs'[l] = scc /\ \A i \in DOMAIN sccs : sccs'[i] = sccs[i]
        BY <1>4, <3>1, <4>1, Appended
      <4>3. \A i \in DOMAIN sccs' : i \in DOMAIN sccs \/ i = l
        BY <2>1, <4>2
      <4>4. l \in DOMAIN sccs' /\ l \notin DOMAIN sccs /\ \A i \in DOMAIN sccs : i \in DOMAIN sccs'
        BY <2>1, <4>2
      <4> HIDE DEF l
      <4>5. \A i \in DOMAIN sccs' : /\ IsInjective(sccs'[i])
                                    /\ \E m \in Shut' : Range(sccs'[i]) = ComponentOf(m) /\ Paired(m)
        BY <1>4, <1>9, <1>14, <1>16, <2>2, <2>6, <3>1, <4>2, <4>3
      <4>6. \A i, j \in DOMAIN sccs' : Range(sccs'[i]) = Range(sccs'[j]) => i = j
        BY <1>16, <2>3, <2>5, <4>2, <4>3
      <4>7. \A m \in Shut' : Paired(m) => \E i \in DOMAIN sccs' : Range(sccs'[i]) = ComponentOf(m)
        <5> TAKE m \in Shut'
        <5>1. CASE m \in Shut
          BY <2>4, <4>2, <4>4, <5>1
        <5>2. CASE m \in popped
          BY <1>14, <1>16, <4>2, <4>4, <5>2
        <5> QED BY <1>9, <5>1, <5>2
      <4> QED BY <4>5, <4>6, <4>7
    <3>2. CASE ~ (Len(scc) >= 2)
      <4>1. sccs' = sccs
        BY <1>4, <3>2
      <4> QED BY <1>9, <2>2, <2>3, <2>4, <2>6, <3>2, <4>1
    <3> QED BY <3>1, <3>2
  <2> QED BY <1>8, <1>12, <2>7 DEF Closing, Paired
<1>25. Finished'
  <2>1. ~ Done
    BY <1>2 DEF SearchInv, Finished
  <2> QED BY <1>8, <2>1 DEF Finished
<1> QED BY <1>19, <1>20, <1>21, <1>22, <1>23, <1>24, <1>25 DEF SearchInv

--------------------------------------------------------------------------------
(* The invariant. *)

LEMMA ElementaryStep ==
  ASSUME SearchInv, elementary_cycles PROVE SearchInv'
<1>1. UNCHANGED <<deps, index, lowlink, stack, dfs, sccs>> /\ dfs = <<>> /\ Seen = Modules
  BY DEF elementary_cycles, Seen
<1>2. Open' = Open /\ Seen' = Seen /\ Shut' = Shut /\ counter' = counter /\ Runtime' = Runtime
  BY <1>1 DEF Open, Seen, Shut, counter, Runtime
<1>3. Types' /\ Order'
  BY <1>1, <1>2 DEF SearchInv, Types, Order
<1>4. Linked' /\ Attained' /\ Explored'
  <2>1. DOMAIN dfs' = {}
    BY <1>1
  <2> QED BY <2>1 DEF Linked, Attained, Explored
<1>5. Closing'
  BY <1>1, <1>2 DEF SearchInv, Closing, ComponentOf
<1>6. Finished'
  BY <1>1, <1>2 DEF Finished
<1> QED BY <1>3, <1>4, <1>5, <1>6 DEF SearchInv

LEMMA SearchStarts ==
  ASSUME CyclesInit PROVE SearchInv
<1>1. Seen = {} /\ Open = {} /\ Shut = {} /\ DOMAIN dfs = {} /\ DOMAIN sccs = {} /\ ~ Done
  BY DEF CyclesInit, Seen, Open, Shut, Range, Undiscovered, Done
<1>2. Types
  BY DEF CyclesInit, Types, Undiscovered
<1>3. Order
  BY <1>1 DEF CyclesInit, Order
<1>4. Linked /\ Attained /\ Explored /\ Finished
  BY <1>1 DEF Linked, Attained, Explored, Finished
<1>5. Closing
  BY <1>1 DEF Closing, Closed
<1> QED BY <1>2, <1>3, <1>4, <1>5 DEF SearchInv

LEMMA SearchStep ==
  ASSUME SearchInv, [CyclesNext]_cycles_vars PROVE SearchInv'
<1>1. CASE visit
  BY <1>1, VisitStep
<1>2. CASE advance
  BY <1>2, DescendStep, SkipStep
<1>3. CASE retreat
  BY <1>3, ReturnStep, CloseStep
<1>4. CASE elementary_cycles
  BY <1>4, ElementaryStep
<1>5. CASE UNCHANGED cycles_vars
  BY <1>5 DEF cycles_vars, SearchInv, Types, Order, Linked, Attained, Explored, Followed, Closing, Finished,
     Seen, Open, Shut, ComponentOf, Segment, counter, Runtime, Done, succ
<1> QED BY <1>1, <1>2, <1>3, <1>4, <1>5 DEF CyclesNext

\* The search keeps its invariant from the first turn of the loop to the report.
THEOREM CyclesInvariance == CyclesSpec => []SearchInv
BY SearchStarts, SearchStep, PTL DEF CyclesSpec

LEMMA ExactByInvariant ==
  ASSUME SearchInv PROVE ComponentsExact
<1> DEFINE K == kosaraju_scc(Modules, Runtime)
           f == [i \in DOMAIN sccs |-> Range(sccs[i])]
           Paired(m) == \E n \in ComponentOf(m) : n # m
<1>1. K = {ComponentOf(m) : m \in {k \in Modules : Paired(k)}}
  BY GraphOfModules, KosarajuFindsComponents DEF SearchInv, ComponentOf
<1>2. \A c : c \in K <=> \E m \in Modules : Paired(m) /\ c = ComponentOf(m)
  BY <1>1
<1>3. \A i \in DOMAIN sccs : IsInjective(sccs[i]) /\ Range(sccs[i]) \in K
  <2> HIDE DEF K
  <2> QED BY <1>2 DEF SearchInv, Closing, Shut, Seen
<1>4. IsInjective(f)
  BY DEF SearchInv, Closing, IsInjective
<1>5. ASSUME Done PROVE Len(sccs) = cycle_count(deps)
  <2>1. Shut = Modules
    <3>1. Seen = Modules /\ DOMAIN dfs = {}
      BY <1>5 DEF SearchInv, Finished
    <3>2. Open = {}
      BY <3>1 DEF SearchInv, Order
    <3> QED BY <3>1, <3>2 DEF Shut
  <2>2. Len(sccs) \in Nat /\ DOMAIN sccs = 1 .. Len(sccs)
    BY DEF SearchInv, Types
  <2>3. \A c \in K : \E i \in DOMAIN sccs : f[i] = c
    <3>1. \A m \in Modules : Paired(m) => \E i \in DOMAIN sccs : f[i] = ComponentOf(m)
      BY <2>1 DEF SearchInv, Closing
    <3> HIDE DEF K, f, Paired
    <3> QED BY <1>2, <3>1
  <2>4. f \in [1 .. Len(sccs) -> K]
    <3> HIDE DEF K
    <3> QED BY <1>3, <2>2
  <2> HIDE DEF f, K
  <2>5. f \in Bijection(1 .. Len(sccs), K)
    BY <1>4, <2>2, <2>3, <2>4 DEF Bijection, Injection, Surjection
  <2>6. Cardinality(K) = Len(sccs)
    BY <2>2, <2>5, FS_CountingElements DEF ExistsBijection
  <2> QED BY <2>6 DEF K, cycle_count, strongly_connected_modules, Runtime
<1> QED BY <1>3, <1>4, <1>5 DEF ComponentsExact

\* Tarjan's search closes the strongly connected components of two modules or more, each
\* once and nothing else, whatever the imports are and whichever module it starts at, and
\* ends with as many as the summary counts (`Tarjan::visit`, `strongly_connected`).
THEOREM ComponentsAreExact == CyclesSpec => []ComponentsExact
BY CyclesInvariance, ExactByInvariant, PTL

--------------------------------------------------------------------------------
(* Breadth-first search over a finite graph of numbers: what `Explore`     *)
(* finds is what lies within its depth, by shortest paths.                 *)

\* The queue after each path left it.
IsRun(h, n, start, nb, depth) ==
  /\ h[0] = <<<<start>>>>
  /\ \A i \in Nat : i < n => h[i + 1] = Expand(h[i], i + 1, nb, depth)

LEMMA RunExists ==
  ASSUME NEW start, NEW nb, NEW depth
  PROVE  \A n \in Nat : \E h : IsRun(h, n, start, nb, depth)
<1> DEFINE good == {n \in Nat : \E h : IsRun(h, n, start, nb, depth)}
<1>1. 0 \in good
  <2> DEFINE h == [i \in Nat |-> <<<<start>>>>]
  <2>1. IsRun(h, 0, start, nb, depth)
    BY DEF IsRun
  <2> QED BY <2>1
<1>2. ASSUME NEW n \in Nat, n \in good PROVE n + 1 \in good
  <2>1. PICK h : IsRun(h, n, start, nb, depth)
    BY <1>2
  <2> DEFINE g == [i \in Nat |-> IF i <= n THEN h[i] ELSE Expand(h[n], n + 1, nb, depth)]
  <2>2. g[0] = <<<<start>>>>
    BY <2>1 DEF IsRun
  <2>3. ASSUME NEW i \in Nat, i < n + 1 PROVE g[i + 1] = Expand(g[i], i + 1, nb, depth)
    <3>1. CASE i < n
      BY <2>1, <3>1 DEF IsRun
    <3>2. CASE i = n
      BY <3>2
    <3> QED BY <2>3, <3>1, <3>2
  <2> HIDE DEF g
  <2>4. IsRun(g, n + 1, start, nb, depth)
    BY <2>2, <2>3 DEF IsRun
  <2> QED BY <2>4
<1> HIDE DEF good
<1>3. \A n \in Nat : n \in good
  BY <1>1, <1>2, AllNumbers
<1> QED BY <1>3 DEF good

LEMMA RunsAgree ==
  ASSUME NEW start, NEW nb, NEW depth, NEW h, NEW g, NEW n \in Nat,
         IsRun(h, n, start, nb, depth), IsRun(g, n, start, nb, depth)
  PROVE  \A i \in Nat : i <= n => h[i] = g[i]
<1> DEFINE same == {i \in Nat : i <= n => h[i] = g[i]}
<1>1. 0 \in same
  BY DEF IsRun
<1>2. ASSUME NEW i \in Nat, i \in same PROVE i + 1 \in same
  BY <1>2 DEF IsRun
<1> HIDE DEF same
<1>3. \A i \in Nat : i \in same
  BY <1>1, <1>2, AllNumbers
<1> QED BY <1>3 DEF same

IsQueued(q, start, nb, depth) ==
  q = [k \in Nat |-> IF k = 0 THEN <<<<start>>>> ELSE Expand(q[k - 1], k, nb, depth)]

\* The function that Explore defines exists.
LEMMA QueueExists ==
  ASSUME NEW start, NEW nb, NEW depth
  PROVE  \E q : IsQueued(q, start, nb, depth)
<1> DEFINE taken(n) == CHOOSE h : IsRun(h, n, start, nb, depth)
           q == [n \in Nat |-> taken(n)[n]]
<1>1. \A n \in Nat : IsRun(taken(n), n, start, nb, depth)
  BY RunExists
<1> HIDE DEF taken
<1>2. q[0] = <<<<start>>>>
  BY <1>1 DEF IsRun
<1>3. ASSUME NEW n \in Nat PROVE q[n + 1] = Expand(q[n], n + 1, nb, depth)
  <2>1. IsRun(taken(n), n, start, nb, depth) /\ IsRun(taken(n + 1), n, start, nb, depth)
    BY <1>1 DEF IsRun
  <2>2. taken(n + 1)[n] = taken(n)[n]
    BY <2>1, RunsAgree
  <2>3. taken(n + 1)[n + 1] = Expand(taken(n + 1)[n], n + 1, nb, depth)
    BY <1>1 DEF IsRun
  <2> QED BY <2>2, <2>3
<1>4. \A n \in Nat : q[n] = IF n = 0 THEN <<<<start>>>> ELSE Expand(q[n - 1], n, nb, depth)
  <2> SUFFICES ASSUME NEW n \in Nat, n # 0 PROVE q[n] = Expand(q[n - 1], n, nb, depth)
    BY <1>2
  <2>1. n - 1 \in Nat /\ (n - 1) + 1 = n
    OBVIOUS
  <2> HIDE DEF q
  <2> QED BY <1>3, <2>1
<1>5. q = [n \in Nat |-> q[n]]
  OBVIOUS
<1> HIDE DEF q
<1>6. IsQueued(q, start, nb, depth)
  BY <1>4, <1>5 DEF IsQueued
<1> QED BY <1>6

\* The steps of a search: q[k] is what is queued after k paths left the queue.
IsSearch(q, start, nb, depth) ==
  q[0] = <<<<start>>>> /\ \A k \in Nat : q[k + 1] = Expand(q[k], k + 1, nb, depth)

LEMMA ExploreSteps ==
  ASSUME NEW start, NEW nb, NEW depth
  PROVE  \E q : /\ IsSearch(q, start, nb, depth)
                /\ Explore(start, nb, depth) = Tail(q[Cardinality(DOMAIN nb)])
<1> DEFINE queued == CHOOSE q : IsQueued(q, start, nb, depth)
<1>1. \E q : IsQueued(q, start, nb, depth)
  BY QueueExists
<1>2. Explore(start, nb, depth) = Tail(queued[Cardinality(DOMAIN nb)])
  BY DEF Explore, IsQueued
<1>3. IsQueued(queued, start, nb, depth)
  BY <1>1
<1> HIDE DEF queued
<1>4. queued[0] = <<<<start>>>>
  BY <1>3 DEF IsQueued
<1>5. ASSUME NEW n \in Nat PROVE queued[n + 1] = Expand(queued[n], n + 1, nb, depth)
  <2>1. n + 1 \in Nat /\ n + 1 # 0 /\ (n + 1) - 1 = n
    OBVIOUS
  <2>2. queued[n + 1] = Expand(queued[(n + 1) - 1], n + 1, nb, depth)
    BY <1>3, <2>1 DEF IsQueued
  <2> QED BY <2>1, <2>2
<1>6. IsSearch(queued, start, nb, depth)
  BY <1>4, <1>5 DEF IsSearch
<1> QED BY <1>2, <1>6

\* What a search among modules, by number, is given.
Searchable(nodes, nb, edges, start, depth) ==
  Explorable(nodes, nb, edges, start, depth) /\ nodes \subseteq Nat

LEMMA Expanded ==
  ASSUME NEW nodes, NEW nb, NEW edges, NEW start, NEW depth, NEW Q, NEW k \in Nat,
         Searchable(nodes, nb, edges, start, depth), ArePaths(Q, nodes, edges, start, depth),
         k + 1 <= Len(Q)
  PROVE  QueueMoves(Expand(Q, k + 1, nb, depth), Q, k + 1, nodes, nb, depth)
<1> DEFINE p == Q[k + 1]
           S == nb[Last(p)] \ Ends(Q)
           fresh == IF Len(p) > depth THEN <<>> ELSE Sorted(S, <)
           added == [i \in DOMAIN fresh |-> Append(p, fresh[i])]
<1>1. depth \in Nat /\ Q \in Seq(Seq(nodes)) /\ Len(Q) \in Nat
  BY DEF Searchable, Explorable, ArePaths
<1>2. p \in Seq(nodes) /\ Len(p) \in Nat /\ Last(p) \in nodes
  <2>1. k + 1 \in 1 .. Len(Q)
    BY <1>1
  <2> QED BY <1>1, <2>1, PathTypes
<1>3. S \subseteq nodes /\ IsFiniteSet(S) /\ S \subseteq Nat
  <2>1. S \subseteq nodes
    BY <1>2 DEF Searchable, Explorable
  <2> HIDE DEF S
  <2> QED BY <2>1, FS_Subset DEF Searchable, Explorable, IsGraph
<1>4. Expand(Q, k + 1, nb, depth) = Q \o added
  <2>1. ~ (k + 1 > Len(Q))
    BY <1>1
  <2> QED BY <2>1, Zenon DEF Expand
<1> HIDE DEF S
<1>5. /\ fresh \in Seq(nodes)
      /\ Range(fresh) = IF Len(p) > depth THEN {} ELSE S
      /\ \A i, j \in DOMAIN fresh : fresh[i] = fresh[j] => i = j
  <2>1. CASE Len(p) > depth
    <3>1. fresh = <<>>
      BY <2>1, Zenon
    <3> HIDE DEF fresh
    <3>2. DOMAIN fresh = {}
      BY <3>1
    <3> QED BY <2>1, <3>1, <3>2 DEF Range
  <2>2. CASE ~ (Len(p) > depth)
    <3>1. fresh = Sorted(S, <)
      BY <2>2
    <3>2. /\ Sorted(S, <) \in Seq(S) /\ Range(Sorted(S, <)) = S
          /\ \A i, j \in DOMAIN Sorted(S, <) : Sorted(S, <)[i] = Sorted(S, <)[j] => i = j
      BY <1>3, NumbersInOrder
    <3> HIDE DEF fresh
    <3>3. fresh \in Seq(nodes)
      <4>1. PICK n \in Nat : fresh \in [1 .. n -> S]
        BY <3>1, <3>2, SeqDef
      <4>2. fresh \in [1 .. n -> nodes]
        BY <1>3, <4>1
      <4> QED BY <4>2, SeqDef
    <3> QED BY <2>2, <3>1, <3>2, <3>3
  <2> QED BY <2>1, <2>2
<1> HIDE DEF fresh, p
<1>6. /\ Q \o added \in Seq(Seq(nodes))
      /\ Len(Q \o added) = Len(Q) + Len(fresh)
      /\ \A i \in 1 .. Len(Q) : (Q \o added)[i] = Q[i]
      /\ \A i \in 1 .. Len(fresh) : (Q \o added)[Len(Q) + i] = Append(p, fresh[i])
  <2>1. Q \in Seq(Seq(nodes)) /\ p \in Seq(nodes) /\ fresh \in Seq(nodes)
    BY <1>1, <1>2, <1>5
  <2> QED BY <2>1, Lengthened
<1> HIDE DEF added
<1>7. DOMAIN fresh = 1 .. Len(fresh)
  BY <1>5
<1>8. Joined(fresh, Expand(Q, k + 1, nb, depth), Q, k + 1, nb, depth)
  BY <1>4, <1>5, <1>6, <1>7 DEF p, S, Joined
<1>9. Expand(Q, k + 1, nb, depth) \in Seq(Seq(nodes))
  BY <1>4, <1>6
<1> QED BY <1>5, <1>8, <1>9 DEF QueueMoves

LEMMA SearchIsQueue ==
  ASSUME NEW nodes, NEW nb, NEW edges, NEW start, NEW depth, NEW q,
         Searchable(nodes, nb, edges, start, depth), IsSearch(q, start, nb, depth)
  PROVE  IsQueue(q, nodes, nb, edges, start, depth)
<1>1. q[0] = <<<<start>>>>
  BY DEF IsSearch
<1>2. ASSUME NEW k \in Nat, ArePaths(q[k], nodes, edges, start, depth)
      PROVE  QueueMoves(q[k + 1], q[k], k + 1, nodes, nb, depth)
  <2>1. q[k + 1] = Expand(q[k], k + 1, nb, depth)
    BY DEF IsSearch
  <2>2. CASE k + 1 <= Len(q[k])
    <3>1. QueueMoves(Expand(q[k], k + 1, nb, depth), q[k], k + 1, nodes, nb, depth)
      BY <1>2, <2>2, Expanded
    <3> QED BY <2>1, <3>1
  <2>3. CASE ~ (k + 1 <= Len(q[k]))
    <3>1. Len(q[k]) \in Nat
      BY <1>2 DEF ArePaths
    <3>2. k + 1 > Len(q[k])
      BY <2>3, <3>1
    <3>3. q[k + 1] = q[k]
      BY <2>1, <3>2, Zenon DEF Expand
    <3> QED BY <2>3, <3>3 DEF QueueMoves
  <2> QED BY <2>2, <2>3
<1> QED BY <1>1, <1>2 DEF IsQueue

\* The paths that a search finds, beside those of the least distances.
IsExact(paths, w, nodes, edges, start, depth) ==
  /\ paths \in Seq(Seq(nodes))
  /\ Ends(paths) = w[depth] \ {start}
  /\ \A i, j \in 1 .. Len(paths) : Last(paths[i]) = Last(paths[j]) => i = j
  /\ \A i, j \in 1 .. Len(paths) : i <= j => Len(paths[i]) <= Len(paths[j])
  /\ \A i \in 1 .. Len(paths) :
       /\ Len(paths[i]) \in 2 .. depth + 1 /\ paths[i][1] = start
       /\ \A j \in 2 .. Len(paths[i]) : <<paths[i][j - 1], paths[i][j]>> \in edges
       /\ Last(paths[i]) \notin w[Len(paths[i]) - 2]

\* Breadth-first search finds all that lies within its depth and nothing else, each node
\* once, by a shortest path, and nearer ones first (`blast_radius`, `impact`).
THEOREM SearchIsExact ==
  ASSUME NEW nodes, NEW nb, NEW edges, NEW start, NEW depth, NEW w,
         Searchable(nodes, nb, edges, start, depth), IsSteps(w, {start}, edges)
  PROVE  IsExact(Explore(start, nb, depth), w, nodes, edges, start, depth)
<1>1. PICK q : IsSearch(q, start, nb, depth) /\ Explore(start, nb, depth) = Tail(q[Cardinality(DOMAIN nb)])
  BY ExploreSteps
<1>2. PICK n : n = Cardinality(nodes)
  OBVIOUS
<1>3. PICK Q : Q = q[n]
  OBVIOUS
<1>4. depth \in Nat /\ DOMAIN nb = nodes /\ n \in Nat
  BY <1>2, FS_CardinalityType DEF Searchable, Explorable, IsGraph
<1>5. QueueInv(Q, n, w, nodes, edges, start, depth) /\ Ends(Q) = w[depth]
  <2>1. Explorable(nodes, nb, edges, start, depth)
    BY DEF Searchable
  <2>2. IsQueue(q, nodes, nb, edges, start, depth)
    BY <1>1, SearchIsQueue
  <2>3. Cardinality(nodes) <= n
    BY <1>2, <1>4
  <2> QED BY <1>3, <1>4, <2>1, <2>2, <2>3, QueueIsExact
<1>6. /\ ArePaths(Q, nodes, edges, start, depth) /\ AreShortest(Q, w)
      /\ AreOrdered(Q, n) /\ AreFollowed(Q, n, edges, depth)
  BY <1>5 DEF QueueInv
<1>7. /\ Q \in Seq(Seq(nodes)) /\ Len(Q) \in Nat
      /\ \A i \in 1 .. Len(Q) : Q[i] \in Seq(nodes) /\ Len(Q[i]) \in Nat /\ Last(Q[i]) \in nodes
  BY <1>4, <1>6, PathTypes
<1>8. Ends(Q) = w[depth]
  BY <1>5
<1>9. PICK P : P = Tail(Q)
  OBVIOUS
<1>10. Explore(start, nb, depth) = P
  BY <1>1, <1>2, <1>3, <1>4, <1>9
<1>11. Len(Q) >= 1 /\ Q[1] = <<start>> /\ Last(Q[1]) = start /\ 1 \in 1 .. Len(Q)
  <2>1. Len(Q) >= 1 /\ Q[1] = <<start>>
    BY <1>6 DEF ArePaths
  <2> QED BY <1>7, <2>1 DEF Last
<1>12. /\ P \in Seq(Seq(nodes)) /\ Len(P) = Len(Q) - 1
       /\ \A i \in 1 .. Len(P) : P[i] = Q[i + 1]
  <2>1. Q # <<>>
    BY <1>7, <1>11
  <2> QED BY <1>7, <1>9, <2>1, HeadTailProperties
<1>13. ASSUME NEW i \in 1 .. Len(P) PROVE i + 1 \in 1 .. Len(Q) /\ i + 1 > 1 /\ P[i] = Q[i + 1]
  BY <1>7, <1>12
<1>14. Ends(P) = Ends(Q) \ {start}
  <2>1. /\ \A x : x \in Ends(Q) <=> \E i \in 1 .. Len(Q) : x = Last(Q[i])
        /\ \A x : x \in Ends(P) <=> \E i \in 1 .. Len(P) : x = Last(P[i])
    <3>1. \A x : x \in Ends(Q) <=> \E i \in 1 .. Len(Q) : x = Last(Q[i])
      BY <1>7, EndsAre
    <3>2. \A x : x \in Ends(P) <=> \E i \in 1 .. Len(P) : x = Last(P[i])
      BY <1>12, EndsAre
    <3> QED BY <3>1, <3>2
  <2>2. ASSUME NEW x \in Ends(P) PROVE x \in Ends(Q) /\ x # start
    <3>1. PICK i \in 1 .. Len(P) : x = Last(P[i])
      BY <2>1, <2>2
    <3>2. i + 1 \in 1 .. Len(Q) /\ x = Last(Q[i + 1]) /\ i + 1 # 1
      BY <1>13, <3>1
    <3>3. x = start => i + 1 = 1
      BY <1>6, <1>11, <3>2 DEF AreShortest
    <3> QED BY <2>1, <3>2, <3>3
  <2>3. ASSUME NEW x \in Ends(Q), x # start PROVE x \in Ends(P)
    <3>1. PICK i \in 1 .. Len(Q) : x = Last(Q[i])
      BY <2>1, <2>3
    <3>2. i # 1
      BY <1>11, <2>3, <3>1
    <3>3. i - 1 \in 1 .. Len(P) /\ (i - 1) + 1 = i
      BY <1>7, <1>12, <3>2
    <3>4. P[i - 1] = Q[i]
      BY <1>12, <3>3
    <3> QED BY <2>1, <3>1, <3>3, <3>4
  <2> QED BY <2>2, <2>3
<1>15. ASSUME NEW i \in 1 .. Len(P), NEW j \in 1 .. Len(P), Last(P[i]) = Last(P[j]) PROVE i = j
  <2>1. i + 1 = j + 1
    BY <1>6, <1>13, <1>15 DEF AreShortest
  <2> QED BY <2>1
<1>16. ASSUME NEW i \in 1 .. Len(P), NEW j \in 1 .. Len(P), i <= j PROVE Len(P[i]) <= Len(P[j])
  <2>1. i + 1 <= j + 1
    BY <1>16
  <2> QED BY <1>6, <1>13, <2>1 DEF AreOrdered
<1>17. ASSUME NEW i \in 1 .. Len(P)
       PROVE  /\ Len(P[i]) \in 2 .. depth + 1 /\ P[i][1] = start
              /\ \A j \in 2 .. Len(P[i]) : <<P[i][j - 1], P[i][j]>> \in edges
              /\ Last(P[i]) \notin w[Len(P[i]) - 2]
  <2>1. PICK h : h = i + 1
    OBVIOUS
  <2>2. h \in 1 .. Len(Q) /\ h > 1 /\ P[i] = Q[h]
    BY <1>13, <2>1
  <2>3. /\ Len(Q[h]) \in 1 .. depth + 1 /\ Q[h][1] = start /\ Len(Q[h]) > 1
        /\ \A j \in 2 .. Len(Q[h]) : <<Q[h][j - 1], Q[h][j]>> \in edges
    BY <1>6, <2>2 DEF ArePaths
  <2>4. Len(Q[h]) - 2 \in Nat /\ (Len(Q[h]) - 2) + 2 <= Len(Q[h]) /\ Len(Q[h]) \in 2 .. depth + 1
    BY <1>4, <2>3
  <2>5. Last(Q[h]) \notin w[Len(Q[h]) - 2]
    BY <1>6, <2>2, <2>4 DEF AreShortest
  <2> QED BY <2>2, <2>3, <2>4, <2>5
<1> QED BY <1>8, <1>10, <1>12, <1>14, <1>15, <1>16, <1>17 DEF IsExact

LEMMA AtMostSteps ==
  ASSUME NEW edges, NEW n
  PROVE  \E w : IsSteps(w, {n}, edges) /\ \A k : AtMost(edges, n, k) = w[k]
<1> DEFINE within == CHOOSE w : IsWithin(w, {n}, edges)
<1>1. IsWithin(within, {n}, edges)
  BY WithinExists
<1>2. \A k : AtMost(edges, n, k) = within[k]
  BY DEF AtMost, IsWithin
<1> HIDE DEF within
<1>3. within[0] = {n}
  BY <1>1 DEF IsWithin
<1>4. ASSUME NEW i \in Nat PROVE within[i + 1] = Onward(within[i], edges)
  <2>1. i + 1 \in Nat /\ i + 1 # 0 /\ (i + 1) - 1 = i
    OBVIOUS
  <2>2. within[i + 1] = Onward(within[(i + 1) - 1], edges)
    BY <1>1, <2>1 DEF IsWithin
  <2> QED BY <2>1, <2>2
<1> QED BY <1>2, <1>3, <1>4 DEF IsSteps

LEMMA NeighborsFollow ==
  ASSUME NEW nodes, NEW edges, NEW direction \in Directions, NEW start \in nodes, NEW depth \in Nat,
         IsGraph(nodes, edges), nodes \subseteq Nat
  PROVE  Searchable(nodes, neighbors(nodes, edges, direction), Directed(edges, direction), start, depth)
<1> DEFINE nb == neighbors(nodes, edges, direction)
           followed == Directed(edges, direction)
<1>1. IsFiniteSet(nodes) /\ \A e \in edges : e = <<e[1], e[2]>> /\ e[1] \in nodes /\ e[2] \in nodes
  BY DEF IsGraph
<1>2. ASSUME NEW n, NEW m
      PROVE  <<n, m>> \in followed <=> \/ direction # "upstream" /\ <<m, n>> \in edges
                                       \/ direction # "downstream" /\ <<n, m>> \in edges
  <2>1. <<n, m>> \in {<<e[2], e[1]>> : e \in edges} <=> <<m, n>> \in edges
    BY <1>1
  <2> QED BY <2>1 DEF Directed
<1>3. DOMAIN nb = nodes /\ \A n \in nodes : nb[n] = {m \in nodes : <<n, m>> \in followed}
  <2> HIDE DEF followed
  <2> QED BY <1>2 DEF neighbors
<1>4. ASSUME NEW e \in followed PROVE e = <<e[1], e[2]>> /\ e[1] \in nodes /\ e[2] \in nodes
  <2>1. e \in edges \/ \E f \in edges : e = <<f[2], f[1]>>
    BY DEF Directed
  <2> QED BY <1>1, <2>1
<1> HIDE DEF nb, followed
<1>5. IsGraph(nodes, followed)
  BY <1>1, <1>4 DEF IsGraph
<1> QED BY <1>3, <1>5 DEF Searchable, Explorable, nb, followed

\* What a search finds, in the words of the property.
LEMMA FoundIsExact ==
  ASSUME NEW nodes, NEW edges, NEW direction \in Directions, NEW start \in nodes, NEW depth \in Nat,
         IsGraph(nodes, edges), nodes \subseteq Nat
  PROVE  \E w : /\ IsSteps(w, {start}, Directed(edges, direction))
                /\ \A k : AtMost(Directed(edges, direction), start, k) = w[k]
                /\ IsExact(Explore(start, neighbors(nodes, edges, direction), depth), w,
                           nodes, Directed(edges, direction), start, depth)
<1>1. PICK followed : followed = Directed(edges, direction)
  OBVIOUS
<1>2. PICK nb : nb = neighbors(nodes, edges, direction)
  OBVIOUS
<1>3. Searchable(nodes, nb, followed, start, depth)
  BY <1>1, <1>2, NeighborsFollow
<1>4. PICK w : IsSteps(w, {start}, followed) /\ \A k : AtMost(followed, start, k) = w[k]
  BY AtMostSteps
<1>5. IsExact(Explore(start, nb, depth), w, nodes, followed, start, depth)
  BY <1>3, <1>4, SearchIsExact
<1> QED BY <1>1, <1>2, <1>4, <1>5

LEMMA ExactIsShortest ==
  ASSUME NEW paths, NEW w, NEW nodes, NEW edges, NEW start, NEW depth,
         IsExact(paths, w, nodes, edges, start, depth), \A k : AtMost(edges, start, k) = w[k]
  PROVE  ShortestPaths(paths, start, edges)
<1>1. DOMAIN paths = 1 .. Len(paths)
  BY DEF IsExact
<1> DEFINE f == [i \in DOMAIN paths |-> Last(paths[i])]
<1>2. \A i, j \in DOMAIN f : f[i] = f[j] => i = j
  BY <1>1 DEF IsExact
<1> HIDE DEF f
<1>3. IsInjective(f)
  BY <1>2 DEF IsInjective
<1>4. ASSUME NEW i \in DOMAIN paths
      PROVE  /\ paths[i][1] = start
             /\ \A k \in 2 .. Len(paths[i]) : <<paths[i][k - 1], paths[i][k]>> \in edges
             /\ Last(paths[i]) \notin AtMost(edges, start, Len(paths[i]) - 2)
  BY <1>1 DEF IsExact
<1> QED BY <1>3, <1>4 DEF ShortestPaths, f

\* The report shows shortest paths to the nearest nodes.
ShowsNearest(cut, paths, start, edges) ==
  /\ Ends(cut) \subseteq Ends(paths) /\ ShortestPaths(cut, start, edges)
  /\ \A n \in Ends(paths) \ Ends(cut), j \in DOMAIN cut :
       n \notin AtMost(edges, start, Len(cut[j]) - 2)

LEMMA CutIsShortest ==
  ASSUME NEW paths, NEW w, NEW nodes, NEW edges, NEW start, NEW depth \in Nat, NEW cut, NEW size \in Nat,
         IsExact(paths, w, nodes, edges, start, depth), \A k : AtMost(edges, start, k) = w[k],
         IsSteps(w, {start}, edges),
         size <= Len(paths), cut = SubSeq(paths, 1, size)
  PROVE  ShowsNearest(cut, paths, start, edges)
<1>1. paths \in Seq(Seq(nodes)) /\ Len(paths) \in Nat /\ DOMAIN paths = 1 .. Len(paths)
  BY DEF IsExact
<1>2. size \in Nat /\ size <= Len(paths)
  OBVIOUS
<1>3. /\ cut \in Seq(Seq(nodes)) /\ Len(cut) = size /\ DOMAIN cut = 1 .. size
      /\ \A i \in 1 .. size : cut[i] = paths[i]
  <2>1. cut = SubSeq(paths, 1, size)
    OBVIOUS
  <2>2. \A i \in 1 .. size : paths[i] \in Seq(nodes)
    BY <1>1, <1>2
  <2>3. /\ SubSeq(paths, 1, size) \in Seq(Seq(nodes))
        /\ Len(SubSeq(paths, 1, size)) = IF 1 <= size THEN size - 1 + 1 ELSE 0
        /\ \A i \in 1 .. size - 1 + 1 : SubSeq(paths, 1, size)[i] = paths[1 + i - 1]
    BY <1>2, <2>2, SubSeqProperties
  <2>4. size - 1 + 1 = size /\ (~ (1 <= size) => size = 0) /\ \A i \in 1 .. size : 1 + i - 1 = i
    BY <1>2
  <2>5. cut \in Seq(Seq(nodes)) /\ Len(cut) = size /\ \A i \in 1 .. size : cut[i] = paths[i]
    BY <2>1, <2>3, <2>4
  <2>6. DOMAIN cut = 1 .. Len(cut)
    BY <2>5
  <2> QED BY <2>5, <2>6
<1>4. ASSUME NEW i \in 1 .. size PROVE i \in 1 .. Len(paths) /\ cut[i] = paths[i]
  <2>1. cut[i] = paths[i]
    BY <1>3
  <2>2. PICK l : l = Len(paths)
    OBVIOUS
  <2>3. i \in 1 .. l
    BY <1>1, <1>2, <2>2
  <2> QED BY <2>1, <2>2, <2>3
<1>5. \A x : x \in Ends(paths) <=> \E i \in 1 .. Len(paths) : x = Last(paths[i])
  BY <1>1, EndsAre
<1>6. \A x : x \in Ends(cut) <=> \E i \in 1 .. size : x = Last(paths[i])
  <2>1. \A x : x \in Ends(cut) <=> \E i \in DOMAIN cut : x = Last(cut[i])
    BY DEF Ends, Last
  <2> QED BY <1>3, <2>1
<1>7. ShortestPaths(cut, start, edges)
  <2>1. ShortestPaths(paths, start, edges)
    BY ExactIsShortest
  <2> DEFINE f == [i \in DOMAIN cut |-> Last(cut[i])]
  <2>2. \A i, j \in DOMAIN f : f[i] = f[j] => i = j
    BY <1>3, <1>4 DEF IsExact
  <2> HIDE DEF f
  <2>3. IsInjective(f)
    BY <2>2 DEF IsInjective
  <2>4. ASSUME NEW i \in DOMAIN cut
        PROVE  /\ cut[i][1] = start
               /\ \A k \in 2 .. Len(cut[i]) : <<cut[i][k - 1], cut[i][k]>> \in edges
               /\ Last(cut[i]) \notin AtMost(edges, start, Len(cut[i]) - 2)
    <3>1. i \in DOMAIN paths /\ cut[i] = paths[i]
      BY <1>1, <1>3, <1>4
    <3> QED BY <2>1, <3>1 DEF ShortestPaths
  <2> QED BY <2>3, <2>4 DEF ShortestPaths, f
<1>8. ASSUME NEW n \in Ends(paths), n \notin Ends(cut), NEW j \in DOMAIN cut
      PROVE  n \notin AtMost(edges, start, Len(cut[j]) - 2)
  <2>1. PICK i \in 1 .. Len(paths) : n = Last(paths[i])
    BY <1>5
  <2>2. ~ (i <= size)
    BY <1>1, <1>2, <1>6, <1>8, <2>1
  <2>3. j \in 1 .. Len(paths) /\ cut[j] = paths[j] /\ j <= i
    <3>1. j \in 1 .. size
      BY <1>3
    <3>2. j <= i
      BY <1>2, <2>1, <2>2, <3>1
    <3> QED BY <1>4, <3>1, <3>2
  <2>4. PICK a, b : a = Len(paths[j]) /\ b = Len(paths[i])
    OBVIOUS
  <2>5. a \in 2 .. depth + 1 /\ b \in 2 .. depth + 1 /\ a <= b /\ n \notin w[b - 2]
    BY <2>1, <2>3, <2>4 DEF IsExact
  <2>6. a - 2 \in Nat /\ b - 2 \in Nat /\ a - 2 <= b - 2
    BY <2>5
  <2>7. w[a - 2] \subseteq w[b - 2]
    BY <2>6, StepsGrow
  <2> QED BY <2>3, <2>4, <2>5, <2>7
<1> QED BY <1>5, <1>4, <1>6, <1>7, <1>8 DEF ShowsNearest

--------------------------------------------------------------------------------
(* The searches of blast radius and impact.                                *)

\* Edges between finitely many names.
LEMMA JoinedNodes ==
  ASSUME NEW edges, NEW more, IsFiniteSet(edges), IsFiniteSet(more), more \subseteq Nat,
         NEW nodes, nodes = more \cup {e[1] : e \in edges} \cup {e[2] : e \in edges},
         \A e \in edges : e = <<e[1], e[2]>> /\ e[1] \in Nat /\ e[2] \in Nat
  PROVE  IsGraph(nodes, edges) /\ nodes \subseteq Nat
<1>1. IsFiniteSet({e[1] : e \in edges}) /\ IsFiniteSet({e[2] : e \in edges})
  <2>1. PICK f, g : f = [e \in edges |-> e[1]] /\ g = [e \in edges |-> e[2]]
    OBVIOUS
  <2>2. IsFiniteSet({f[e] : e \in edges}) /\ IsFiniteSet({g[e] : e \in edges})
    BY <2>1, ImageIsFinite
  <2>3. {f[e] : e \in edges} = {e[1] : e \in edges} /\ {g[e] : e \in edges} = {e[2] : e \in edges}
    BY <2>1
  <2> QED BY <2>2, <2>3
<1>2. IsFiniteSet(nodes)
  BY <1>1, FS_Union
<1> QED BY <1>2 DEF IsGraph

LEMMA RangeIsFinite ==
  ASSUME NEW s, s \in Seq(Range(s))
  PROVE  IsFiniteSet(Range(s))
<1>1. DOMAIN s = 1 .. Len(s) /\ Len(s) \in Nat
  OBVIOUS
<1>2. IsFiniteSet(DOMAIN s)
  BY <1>1, FS_Interval
<1>3. Range(s) = {s[i] : i \in DOMAIN s}
  BY DEF Range
<1> QED BY <1>2, <1>3, ImageIsFinite

\* The module graph that `impact` searches.
LEMMA ImpactGraph ==
  ASSUME NEW input \in Inputs, NEW edges, edges = local_dependency_edges(input),
         NEW nodes, nodes = Modules \cup {e[1] : e \in edges} \cup {e[2] : e \in edges}
  PROVE  IsGraph(nodes, edges) /\ nodes \subseteq Nat /\ Modules \subseteq nodes
<1>1. input \in Seq(Range(input)) /\ \A d \in Range(input) : d.source \in Nat /\ d.target \in Nat
  BY InputsAreSequences, InputsJoinNames
<1>2. IsFiniteSet(Range(input))
  BY <1>1, RangeIsFinite
<1> DEFINE rows == {d \in Range(input) : Crossing(d)}
<1>3. edges = {<<d.source, d.target>> : d \in rows}
  BY DEF local_dependency_edges
<1>4. IsFiniteSet(rows)
  BY <1>2, FS_Subset
<1>5. \A e \in edges : e = <<e[1], e[2]>> /\ e[1] \in Nat /\ e[2] \in Nat
  BY <1>1, <1>3
<1> HIDE DEF rows
<1>6. IsFiniteSet(edges)
  <2>1. PICK f : f = [d \in rows |-> <<d.source, d.target>>]
    OBVIOUS
  <2>2. IsFiniteSet({f[d] : d \in rows})
    BY <1>4, <2>1, ImageIsFinite
  <2>3. {f[d] : d \in rows} = edges
    BY <1>3, <2>1
  <2> QED BY <2>2, <2>3
<1>7. IsGraph(nodes, edges) /\ nodes \subseteq Nat
  BY <1>5, <1>6, ModulesAreFinite, ModulesAreNames, JoinedNodes
<1> QED BY <1>7

\* The graph that `blast_radius` searches: a node for each id in it.
LEMMA PersistedGraph ==
  ASSUME NEW input \in Inputs, NEW edges, edges = ImpactEdges(graph_edges(input)),
         NEW nodes,
         nodes = {n.id : n \in Range(graph_nodes)} \cup {e.source : e \in graph_edges(input)}
                   \cup {e.target : e \in graph_edges(input)}
  PROVE  IsGraph(nodes, edges) /\ nodes \subseteq Nat /\ BlastStarts \subseteq nodes
<1>1. /\ IsFiniteSet(graph_edges(input))
      /\ \A e \in graph_edges(input) : e.source \in Nat /\ e.target \in Nat
  BY EdgesJoinIds
<1>2. IsFiniteSet(Range(graph_nodes)) /\ \A n \in Range(graph_nodes) : n.id \in Nat
  BY NodesHaveIds, RangeIsFinite
<1>3. IsFiniteSet({n.id : n \in Range(graph_nodes)})
  <2>1. PICK f : f = [n \in Range(graph_nodes) |-> n.id]
    OBVIOUS
  <2>2. IsFiniteSet({f[n] : n \in Range(graph_nodes)})
    BY <1>2, <2>1, ImageIsFinite
  <2>3. {f[n] : n \in Range(graph_nodes)} = {n.id : n \in Range(graph_nodes)}
    BY <2>1
  <2> QED BY <2>2, <2>3
<1>4. IsFiniteSet({e.source : e \in graph_edges(input)}) /\ IsFiniteSet({e.target : e \in graph_edges(input)})
  <2>1. PICK E : E = graph_edges(input)
    OBVIOUS
  <2>2. PICK f, g : f = [e \in E |-> e.source] /\ g = [e \in E |-> e.target]
    OBVIOUS
  <2>3. IsFiniteSet({f[e] : e \in E}) /\ IsFiniteSet({g[e] : e \in E})
    BY <1>1, <2>1, <2>2, ImageIsFinite
  <2>4. {f[e] : e \in E} = {e.source : e \in E} /\ {g[e] : e \in E} = {e.target : e \in E}
    BY <2>2
  <2> QED BY <2>1, <2>3, <2>4
<1>5. IsFiniteSet(nodes)
  BY <1>3, <1>4, FS_Union
<1>6. \A e \in edges : e = <<e[1], e[2]>> /\ e[1] \in nodes /\ e[2] \in nodes
  BY DEF ImpactEdges
<1>7. nodes \subseteq Nat /\ BlastStarts \subseteq nodes
  BY <1>1, <1>2, RadiusOfNodes
<1> QED BY <1>5, <1>6, <1>7 DEF IsGraph

LEMMA BlastHolds ==
  ASSUME deps \in Inputs, NEW direction \in Directions, NEW k \in BlastDepths, NEW n \in BlastStarts
  PROVE  LET b == blast_radius(Range(graph_nodes), graph_edges(deps), n, direction, k)
             edges == Directed(ImpactEdges(graph_edges(deps)), direction)
         IN /\ b.visited = AtMost(edges, n, k) \ {n}
            /\ Ends(b.found) = b.visited /\ ShortestPaths(b.found, n, edges)
<1> DEFINE b == blast_radius(Range(graph_nodes), graph_edges(deps), n, direction, k)
<1>1. PICK edges : edges = ImpactEdges(graph_edges(deps))
  OBVIOUS
<1>2. PICK nodes : nodes = {x.id : x \in Range(graph_nodes)} \cup {e.source : e \in graph_edges(deps)}
                             \cup {e.target : e \in graph_edges(deps)}
  OBVIOUS
<1>3. PICK paths : paths = Explore(n, neighbors(nodes, edges, direction), k)
  OBVIOUS
<1>4. b.found = paths /\ b.visited = Ends(paths)
  BY <1>1, <1>2, <1>3 DEF blast_radius
<1>5. IsGraph(nodes, edges) /\ nodes \subseteq Nat /\ n \in nodes /\ k \in Nat
  BY <1>1, <1>2, PersistedGraph, RadiusOfNodes
<1>6. PICK followed : followed = Directed(edges, direction)
  OBVIOUS
<1>7. PICK w : /\ IsSteps(w, {n}, followed) /\ \A i : AtMost(followed, n, i) = w[i]
               /\ IsExact(paths, w, nodes, followed, n, k)
  BY <1>3, <1>5, <1>6, FoundIsExact
<1>8. ShortestPaths(paths, n, followed)
  BY <1>7, ExactIsShortest
<1>9. Ends(paths) = AtMost(followed, n, k) \ {n}
  BY <1>7 DEF IsExact
<1> HIDE DEF b
<1> QED BY <1>1, <1>4, <1>6, <1>8, <1>9 DEF b

LEMMA ImpactHolds ==
  ASSUME deps \in Inputs, NEW direction \in Directions, NEW k \in BlastDepths,
         NEW m \in BlastStarts \cap Modules
  PROVE  LET i == impact(m, direction, k, deps)
             edges == Directed(local_dependency_edges(deps), direction)
         IN /\ i.affected = AtMost(edges, m, k) \ {m}
            /\ Ends(i.paths) \subseteq i.affected /\ ShortestPaths(i.paths, m, edges)
            /\ \A n \in i.affected \ Ends(i.paths), j \in DOMAIN i.paths :
                 n \notin AtMost(edges, m, Len(i.paths[j]) - 2)
<1> DEFINE i == impact(m, direction, k, deps)
<1>1. PICK edges : edges = local_dependency_edges(deps)
  OBVIOUS
<1>2. PICK nodes : nodes = Modules \cup {e[1] : e \in edges} \cup {e[2] : e \in edges}
  OBVIOUS
<1>3. PICK paths : paths = Explore(m, neighbors(nodes, edges, direction), k)
  OBVIOUS
<1>4. PICK size, cut : /\ size = IF Len(paths) < MaxPaths THEN Len(paths) ELSE MaxPaths
                       /\ cut = SubSeq(paths, 1, size)
  OBVIOUS
<1>5. i.affected = Ends(paths) /\ i.paths = cut
  BY <1>1, <1>2, <1>3, <1>4 DEF impact
<1>6. IsGraph(nodes, edges) /\ nodes \subseteq Nat /\ m \in nodes /\ k \in Nat
  BY <1>1, <1>2, ImpactGraph, RadiusOfNodes
<1>7. PICK followed : followed = Directed(edges, direction)
  OBVIOUS
<1>8. PICK w : /\ IsSteps(w, {m}, followed) /\ \A j : AtMost(followed, m, j) = w[j]
               /\ IsExact(paths, w, nodes, followed, m, k)
  BY <1>3, <1>6, <1>7, FoundIsExact
<1>9. size \in Nat /\ size <= Len(paths)
  <2>1. Len(paths) \in Nat
    BY <1>8 DEF IsExact
  <2> QED BY <1>4, <2>1, ReportsAreCut
<1>10. /\ Ends(cut) \subseteq Ends(paths) /\ ShortestPaths(cut, m, followed)
       /\ \A n \in Ends(paths) \ Ends(cut), j \in DOMAIN cut :
            n \notin AtMost(followed, m, Len(cut[j]) - 2)
  <2>1. cut = SubSeq(paths, 1, size) /\ k \in Nat
    BY <1>4, <1>6
  <2>2. ShowsNearest(cut, paths, m, followed)
    BY <1>8, <1>9, <2>1, CutIsShortest
  <2> QED BY <2>2 DEF ShowsNearest
<1>11. Ends(paths) = AtMost(followed, m, k) \ {m}
  BY <1>8 DEF IsExact
<1> HIDE DEF i
<1> QED BY <1>1, <1>5, <1>7, <1>10, <1>11 DEF i

LEMMA NamesLeadBack == TargetsResolve
<1> SUFFICES ASSUME NEW n \in Range(graph_nodes)
             PROVE  \E found \in resolve_target(target_syntax(n), graph_nodes) : found.label = n.label
  BY DEF TargetsResolve
<1>1. DOMAIN graph_nodes = 1 .. Len(graph_nodes) /\ DOMAIN graph_nodes \subseteq Nat
  BY NodesHaveIds
<1>2. PICK k \in DOMAIN graph_nodes : n = graph_nodes[k]
  BY DEF Range
<1> DEFINE input == target_syntax(n)
           ids == {i \in DOMAIN graph_nodes : input.words = {graph_nodes[i].id}}
           In(i) == input.category = "any" \/ input.category = categorize(graph_nodes[i].kind)
           exact == {i \in DOMAIN graph_nodes : In(i) /\ graph_nodes[i].label = input.words}
<1>3. input.words = n.label /\ (input.category = "any" \/ input.category = categorize(n.kind))
  BY DEF target_syntax, Target
<1> HIDE DEF input
<1>4. ids = {}
  <2>1. ASSUME NEW i \in DOMAIN graph_nodes PROVE n.label # {graph_nodes[i].id}
    <3>1. graph_nodes[i] \in Range(graph_nodes)
      BY DEF Range
    <3> QED BY <3>1, NodesHaveIds
  <2> QED BY <1>3, <2>1
<1>5. k \in exact
  BY <1>2, <1>3
<1>6. exact \subseteq Nat
  BY <1>1
<1>7. resolve_target(input, graph_nodes) = {graph_nodes[Min(exact)]}
  <2>1. exact # {}
    BY <1>5
  <2> QED BY <1>4, <2>1, Zenon DEF resolve_target
<1>8. Min(exact) \in exact
  BY <1>5, <1>6, LeastOfNumbers
<1>9. graph_nodes[Min(exact)].label = n.label
  BY <1>3, <1>8
<1> QED BY <1>7, <1>9 DEF input

LEMMA BlastByInvariant ==
  ASSUME SearchInv PROVE BlastExact
<1>1. deps \in Inputs
  BY DEF SearchInv, Types
<1> QED BY <1>1, BlastHolds, ImpactHolds, NamesLeadBack DEF BlastExact

\* Blast radius and impact find exactly what the depth allows, by shortest paths and the
\* nearest first, and names lead back, whatever is imported and persisted.
THEOREM BlastIsExact == CyclesSpec => []BlastExact
BY CyclesInvariance, BlastByInvariant, PTL

--------------------------------------------------------------------------------
(* The verdicts of the history. *)

\* The shape of a row of git_commits, and of the database.
IsRow(row) == row = [at |-> row.at, message |-> row.message, fix |-> row.fix]
IsDatabase(d) ==
  /\ d = [commits |-> d.commits, changes |-> d.changes, co_changes |-> d.co_changes]
  /\ \A sha \in DOMAIN d.commits : IsRow(d.commits[sha])

\* Rows are only added, and only unclassified ones change.
Keeps(d, e) ==
  \A sha \in DOMAIN d.commits :
    /\ sha \in DOMAIN e.commits
    /\ d.commits[sha].fix # Unclassified => e.commits[sha] = d.commits[sha]

LEMMA Judged == \A message, t : classify_fix_message(message, t) # Unclassified
BY DEF classify_fix_message, Unclassified

\* `upsert_git_facts` leaves the rows that are there.
LEMMA UpsertKeeps ==
  ASSUME NEW d, IsDatabase(d), NEW commits, NEW t
  PROVE  IsDatabase(upsert_git_facts(d, commits, t)) /\ Keeps(d, upsert_git_facts(d, commits, t))
<1> DEFINE e == upsert_git_facts(d, commits, t)
           rows == commit_rows(d, commits, t)
<1>1. /\ e = [commits |-> e.commits, changes |-> e.changes, co_changes |-> e.co_changes]
      /\ e.commits = rows
  <2> DEFINE changes == change_rows(d, commits)
  <2>1. e = [d EXCEPT !.commits = rows, !.changes = changes]
    BY DEF upsert_git_facts
  <2>2. d = [commits |-> d.commits, changes |-> d.changes, co_changes |-> d.co_changes]
    BY DEF IsDatabase
  <2> HIDE DEF e, rows, changes
  <2>3. e = [commits |-> rows, changes |-> changes, co_changes |-> d.co_changes]
    BY <2>1, <2>2
  <2> QED BY <2>3
<1>2. /\ DOMAIN d.commits \subseteq DOMAIN rows
      /\ \A sha \in DOMAIN d.commits : rows[sha] = d.commits[sha]
  BY DEF commit_rows
<1>3. \A sha \in DOMAIN rows \ DOMAIN d.commits : IsRow(rows[sha])
  <2> SUFFICES ASSUME NEW sha \in DOMAIN rows \ DOMAIN d.commits PROVE IsRow(rows[sha])
    OBVIOUS
  <2> DEFINE c == CHOOSE x \in commits : x.sha = sha
             verdict == classify_fix_message(c.message, t)
  <2>1. rows[sha] = [at |-> c.at, message |-> c.message, fix |-> verdict]
    BY DEF commit_rows
  <2> HIDE DEF c, verdict, rows
  <2> QED BY <2>1 DEF IsRow
<1> HIDE DEF rows, e
<1>4. IsDatabase(e) /\ Keeps(d, e)
  BY <1>1, <1>2, <1>3 DEF IsDatabase, Keeps
<1> QED BY <1>4 DEF e

\* `backfill_fix_classification` judges what is not judged, and nothing else.
LEMMA BackfillKeeps ==
  ASSUME NEW d, IsDatabase(d), NEW t
  PROVE  LET e == backfill_fix_classification(d, t)
         IN /\ IsDatabase(e) /\ Keeps(d, e)
            /\ \A sha \in DOMAIN e.commits : e.commits[sha].fix # Unclassified
<1> DEFINE e == backfill_fix_classification(d, t)
           judged(c) == [c EXCEPT !.fix = classify_fix_message(c.message, t)]
           old == unclassified_commits(d)
           rows == [sha \in DOMAIN d.commits |-> IF sha \in old THEN judged(d.commits[sha]) ELSE d.commits[sha]]
<1>1. /\ e = [commits |-> e.commits, changes |-> e.changes, co_changes |-> e.co_changes]
      /\ e.commits = rows
  BY DEF backfill_fix_classification, IsDatabase
<1>2. \A sha \in DOMAIN d.commits :
        /\ IsRow(rows[sha]) /\ rows[sha].fix # Unclassified
        /\ d.commits[sha].fix # Unclassified => rows[sha] = d.commits[sha]
  <2> SUFFICES ASSUME NEW sha \in DOMAIN d.commits
               PROVE  /\ IsRow(rows[sha]) /\ rows[sha].fix # Unclassified
                      /\ d.commits[sha].fix # Unclassified => rows[sha] = d.commits[sha]
    OBVIOUS
  <2>1. IsRow(d.commits[sha])
    BY DEF IsDatabase
  <2>2. sha \in old <=> d.commits[sha].fix = Unclassified
    BY DEF unclassified_commits
  <2>3. CASE sha \in old
    BY <2>1, <2>2, <2>3, Judged DEF IsRow
  <2>4. CASE sha \notin old
    BY <2>1, <2>2, <2>4
  <2> QED BY <2>3, <2>4
<1> HIDE DEF rows, e
<1>3. DOMAIN rows = DOMAIN d.commits
  BY DEF rows
<1>4. IsDatabase(e) /\ Keeps(d, e) /\ \A sha \in DOMAIN e.commits : e.commits[sha].fix # Unclassified
  BY <1>1, <1>2, <1>3 DEF IsDatabase, Keeps
<1> QED BY <1>4 DEF e

HistoryInv == IsDatabase(db)

LEMMA IngestStep ==
  ASSUME HistoryInv, Ingest
  PROVE  /\ HistoryInv' /\ Keeps(db, db')
         /\ \A sha \in DOMAIN db'.commits : db'.commits[sha].fix # Unclassified
<1> DEFINE commits == collect_history(log, now)
           between == upsert_git_facts(db, commits, threshold)
<1>1. IsDatabase(between) /\ Keeps(db, between)
  BY UpsertKeeps DEF HistoryInv
<1>2. db' = backfill_fix_classification(between, threshold)
  BY DEF Ingest, ingest_git
<1>3. /\ IsDatabase(db') /\ Keeps(between, db')
      /\ \A sha \in DOMAIN db'.commits : db'.commits[sha].fix # Unclassified
  BY <1>1, <1>2, BackfillKeeps
<1>4. Keeps(db, db')
  BY <1>1, <1>3 DEF Keeps
<1> QED BY <1>3, <1>4 DEF HistoryInv

LEMMA CoChangeStep == HistoryInv /\ ReplaceCoChanges => HistoryInv' /\ Keeps(db, db')
BY DEF HistoryInv, ReplaceCoChanges, IsDatabase, Keeps

\* All other steps leave the database.
LEMMA OtherSteps ==
  ASSUME HistoryInv, [Next]_vars, ~ Ingest, ~ ReplaceCoChanges
  PROVE  HistoryInv' /\ Keeps(db, db')
<1>1. UNCHANGED db
  BY DEF Next, vars, Edit, Create, Rename, Delete, Commit, Amend, Upgrade, Parse, SyncIndex, Interrupt
<1> QED BY <1>1 DEF HistoryInv, Keeps

LEMMA HistoryStarts == Init => HistoryInv
BY FirstDatabases DEF Init, HistoryInv, IsDatabase, IsRow

\* The database keeps its shape.
THEOREM HistoryInvariance == Spec => []HistoryInv
<1>1. HistoryInv /\ [Next]_vars => HistoryInv'
  BY IngestStep, CoChangeStep, OtherSteps
<1> QED BY HistoryStarts, <1>1, PTL DEF Spec

\* No run, upgrade or rewritten branch changes or loses a verdict that was given, and a
\* run leaves no commit without one (`upsert_git_facts`, `backfill_fix_classification`).
THEOREM VerdictsKept == Spec => VerdictsAreKept
<1> DEFINE Kept == /\ \A sha \in DOMAIN db.commits :
                        /\ sha \in DOMAIN db'.commits
                        /\ db.commits[sha].fix # Unclassified => db'.commits[sha] = db.commits[sha]
                   /\ Ingest => \A sha \in DOMAIN db'.commits : db'.commits[sha].fix # Unclassified
<1>1. HistoryInv /\ [Next]_vars => [Kept]_vars
  BY IngestStep, CoChangeStep, OtherSteps DEF Keeps
<1> QED BY <1>1, HistoryInvariance, PTL DEF Spec, VerdictsAreKept

--------------------------------------------------------------------------------
(* Where the files are: the last change of a file says its path. *)

\* The changes of the commits of a log, whatever the commits are called.
ChangesOf(lg) == [i \in 1 .. Len(lg) |-> lg[i].changes]

\* The last of the first i commits to change file f left it under path x.
LastAt(ch, f, x, i) ==
  \E j \in 1 .. i : /\ \E d \in ch[j] : d.file = f /\ d.path = x
                    /\ \A m \in j + 1 .. i : \A e \in ch[m] : e.file # f

\* A change finds the file where the last one left it, or creates it.
Continues(ch, d, j) ==
  /\ d.from # NoPath => LastAt(ch, d.file, d.from, j - 1)
  /\ d.from = NoPath => \/ LastAt(ch, d.file, d.path, j - 1)
                        \/ \A i \in 1 .. j - 1 : \A e \in ch[i] : e.file # d.file

IsHistory(ch, n) ==
  /\ n \in Nat
  /\ \A j \in 1 .. n :
       /\ ch[j] # {}
       /\ \A d \in ch[j] : d.path \in Paths /\ d.from \in Paths \cup {NoPath} /\ d.from # d.path
       /\ \A d, e \in ch[j] : d.file = e.file => d = e
       /\ \A d \in ch[j] : Continues(ch, d, j)

LEMMA LastIsUnique ==
  ASSUME NEW ch, NEW n, IsHistory(ch, n), NEW i \in 0 .. n, NEW f, NEW x, NEW y,
         LastAt(ch, f, x, i), LastAt(ch, f, y, i)
  PROVE  x = y
<1> n \in Nat
  BY DEF IsHistory
<1>1. PICK j \in 1 .. i : /\ \E d \in ch[j] : d.file = f /\ d.path = x
                          /\ \A m \in j + 1 .. i : \A e \in ch[m] : e.file # f
  BY DEF LastAt
<1>2. PICK k \in 1 .. i : /\ \E d \in ch[k] : d.file = f /\ d.path = y
                          /\ \A m \in k + 1 .. i : \A e \in ch[m] : e.file # f
  BY DEF LastAt
<1>3. ~ (j < k) /\ ~ (k < j)
  <2>1. j < k => k \in j + 1 .. i
    OBVIOUS
  <2>2. k < j => j \in k + 1 .. i
    OBVIOUS
  <2> QED BY <1>1, <1>2, <2>1, <2>2
<1>4. j = k /\ j \in 1 .. n
  BY <1>3
<1> QED BY <1>1, <1>2, <1>4 DEF IsHistory

\* One commit more.
LEMMA LastStep ==
  ASSUME NEW ch, NEW i \in Nat, NEW f, NEW x
  PROVE  LastAt(ch, f, x, i + 1) <=>
           \/ \E d \in ch[i + 1] : d.file = f /\ d.path = x
           \/ LastAt(ch, f, x, i) /\ \A e \in ch[i + 1] : e.file # f
<1>1. ASSUME LastAt(ch, f, x, i + 1), ~ \E d \in ch[i + 1] : d.file = f /\ d.path = x
      PROVE  LastAt(ch, f, x, i) /\ \A e \in ch[i + 1] : e.file # f
  <2>1. PICK j \in 1 .. i + 1 : /\ \E d \in ch[j] : d.file = f /\ d.path = x
                                /\ \A m \in j + 1 .. i + 1 : \A e \in ch[m] : e.file # f
    BY <1>1 DEF LastAt
  <2>2. j \in 1 .. i /\ i + 1 \in j + 1 .. i + 1 /\ \A m \in j + 1 .. i : m \in j + 1 .. i + 1
    BY <1>1, <2>1
  <2> QED BY <2>1, <2>2 DEF LastAt
<1>2. ASSUME NEW d \in ch[i + 1], d.file = f, d.path = x PROVE LastAt(ch, f, x, i + 1)
  <2>1. i + 1 \in 1 .. i + 1 /\ (i + 1) + 1 .. i + 1 = {}
    OBVIOUS
  <2> QED BY <1>2, <2>1 DEF LastAt
<1>3. ASSUME LastAt(ch, f, x, i), \A e \in ch[i + 1] : e.file # f PROVE LastAt(ch, f, x, i + 1)
  <2>1. PICK j \in 1 .. i : /\ \E d \in ch[j] : d.file = f /\ d.path = x
                            /\ \A m \in j + 1 .. i : \A e \in ch[m] : e.file # f
    BY <1>3 DEF LastAt
  <2>2. j \in 1 .. i + 1 /\ \A m \in j + 1 .. i + 1 : m \in j + 1 .. i \/ m = i + 1
    OBVIOUS
  <2> QED BY <1>3, <2>1, <2>2 DEF LastAt
<1> QED BY <1>1, <1>2, <1>3

\* A file that was changed was last changed somewhere.
LEMMA LastExists ==
  ASSUME NEW ch, NEW i \in Nat, NEW j \in 1 .. i, NEW d \in ch[j]
  PROVE  \E x : LastAt(ch, d.file, x, i)
<1> DEFINE lost == {k \in Nat : j <= k /\ k <= i /\ ~ \E x : LastAt(ch, d.file, x, k)}
<1> SUFFICES ASSUME i \in lost PROVE FALSE
  OBVIOUS
<1>1. PICK k \in lost : \A m \in lost : k <= m
  <2>1. lost \subseteq Nat /\ lost # {}
    OBVIOUS
  <2> HIDE DEF lost
  <2> QED BY <2>1, LeastNumber
<1>2. k - 1 \in Nat /\ (k - 1) + 1 = k
  OBVIOUS
<1>3. CASE k = j
  <2>1. LastAt(ch, d.file, d.path, (k - 1) + 1)
    BY <1>2, <1>3, LastStep
  <2> QED BY <1>1, <1>2, <2>1
<1>4. CASE k # j
  <2>1. k - 1 \notin lost
    BY <1>1, <1>2
  <2>2. PICK x : LastAt(ch, d.file, x, k - 1)
    BY <1>1, <1>2, <1>4, <2>1
  <2>3. \E y : LastAt(ch, d.file, y, (k - 1) + 1)
    <3>1. CASE \E e \in ch[k] : e.file = d.file
      <4>1. PICK e \in ch[(k - 1) + 1] : e.file = d.file
        BY <1>2, <3>1
      <4>2. LastAt(ch, d.file, e.path, (k - 1) + 1)
        BY <1>2, <4>1, LastStep
      <4> QED BY <4>2
    <3>2. CASE \A e \in ch[k] : e.file # d.file
      BY <1>2, <2>2, <3>2, LastStep
    <3> QED BY <3>1, <3>2
  <2> QED BY <1>1, <1>2, <2>3
<1> QED BY <1>3, <1>4

\* A file that is no longer where it was has been renamed.
LEMMA FilesLeave ==
  ASSUME NEW ch, NEW n, IsHistory(ch, n), NEW i \in 0 .. n, NEW k \in i .. n, NEW f, NEW x,
         LastAt(ch, f, x, i), ~ LastAt(ch, f, x, k)
  PROVE  \E m \in i + 1 .. k : \E d \in ch[m] : d.file = f /\ d.from = x
<1> n \in Nat
  BY DEF IsHistory
<1> DEFINE gone == {m \in Nat : i <= m /\ m <= k /\ ~ LastAt(ch, f, x, m)}
<1>1. PICK m \in gone : \A l \in gone : m <= l
  <2>1. gone \subseteq Nat /\ k \in gone
    OBVIOUS
  <2> HIDE DEF gone
  <2> QED BY <2>1, LeastNumber
<1>2. m - 1 \in Nat /\ (m - 1) + 1 = m /\ m \in i + 1 .. k /\ m \in 1 .. n /\ m - 1 \in 0 .. n
  <2>1. m # i
    BY <1>1
  <2> QED BY <2>1
<1>3. LastAt(ch, f, x, m - 1)
  BY <1>1, <1>2
<1>4. PICK d \in ch[m] : d.file = f
  BY <1>1, <1>2, <1>3, LastStep
<1>5. d.path # x
  BY <1>1, <1>2, <1>4, LastStep
<1>6. Continues(ch, d, m)
  BY <1>2 DEF IsHistory
<1>7. CASE d.from # NoPath
  <2>1. d.from = x
    BY <1>2, <1>3, <1>4, <1>6, <1>7, LastIsUnique DEF Continues
  <2> QED BY <1>2, <1>4, <2>1
<1>8. CASE d.from = NoPath
  <2>1. PICK j \in 1 .. m - 1 : \E e \in ch[j] : e.file = f
    BY <1>3 DEF LastAt
  <2>2. LastAt(ch, f, d.path, m - 1)
    BY <1>4, <1>6, <1>8, <2>1 DEF Continues
  <2>3. d.path = x
    BY <1>2, <1>3, <2>2, LastIsUnique
  <2> QED BY <1>5, <2>3
<1> QED BY <1>7, <1>8

--------------------------------------------------------------------------------
(* Renames, and the walks along them. *)

\* No path was given to another file, and no file took back a path.
PathsAreKept(ch, n) ==
  /\ \A i, j \in 1 .. n : \A d \in ch[i], e \in ch[j] : d.path = e.path => d.file = e.file
  /\ \A i, j, k \in 1 .. n : i < j /\ j < k =>
       \A d \in ch[i], e \in ch[j], g \in ch[k] :
         d.file = e.file /\ e.file = g.file /\ d.path = g.path => e.path = d.path

\* The renames of the first k commits.
RenamesOf(ch, k) ==
  {<<d.from, d.path>> : d \in {e \in UNION {ch[i] : i \in 1 .. k} : e.from # NoPath}}

LEMMA RenamesAre ==
  ASSUME NEW ch, NEW k \in Nat, NEW r
  PROVE  r \in RenamesOf(ch, k) <=>
           \E i \in 1 .. k : \E d \in ch[i] : d.from # NoPath /\ r = <<d.from, d.path>>
BY DEF RenamesOf

\* Those of one file.
RenamesBy(ch, f, k) ==
  {<<d.from, d.path>> : d \in {e \in UNION {ch[i] : i \in 1 .. k} : e.file = f /\ e.from # NoPath}}

LEMMA RenamesByAre ==
  ASSUME NEW ch, NEW f, NEW k \in Nat, NEW r
  PROVE  r \in RenamesBy(ch, f, k) <=>
           \E i \in 1 .. k : \E d \in ch[i] : d.file = f /\ d.from # NoPath /\ r = <<d.from, d.path>>
BY DEF RenamesBy

\* A file leaves a path after it came there.
LEMMA LeavesAfter ==
  ASSUME NEW ch, NEW n, IsHistory(ch, n), PathsAreKept(ch, n),
         NEW i \in 1 .. n, NEW j \in 1 .. n, NEW d \in ch[i], NEW e \in ch[j], e.from = d.path
  PROVE  e.file = d.file /\ i < j
<1> n \in Nat
  BY DEF IsHistory
<1>1. e.from # NoPath /\ e.path # e.from
  BY PathsAreNumbers DEF IsHistory
<1>2. LastAt(ch, e.file, e.from, j - 1)
  BY <1>1 DEF IsHistory, Continues
<1>3. PICK h \in 1 .. j - 1 : \E g \in ch[h] : g.file = e.file /\ g.path = e.from
  BY <1>2 DEF LastAt
<1>4. PICK g \in ch[h] : g.file = e.file /\ g.path = e.from
  BY <1>3
<1>5. h \in 1 .. n /\ h < j
  OBVIOUS
<1>6. e.file = d.file
  BY <1>4, <1>5 DEF PathsAreKept
<1>7. i # j
  BY <1>1, <1>6 DEF IsHistory
<1>8. ~ (j < i)
  BY <1>1, <1>4, <1>5, <1>6 DEF PathsAreKept
<1> QED BY <1>6, <1>7, <1>8

\* A path is left once.
LEMMA LeavesOnce ==
  ASSUME NEW ch, NEW n, IsHistory(ch, n), PathsAreKept(ch, n),
         NEW i \in 1 .. n, NEW j \in 1 .. n, NEW d \in ch[i], NEW e \in ch[j],
         d.from = e.from, d.from # NoPath
  PROVE  i = j /\ d = e
<1> n \in Nat
  BY DEF IsHistory
<1>1. ASSUME NEW a \in 1 .. n, NEW b \in 1 .. n, NEW x \in ch[a], NEW y \in ch[b],
             x.from = y.from, x.from # NoPath
      PROVE  x.file = y.file /\ ~ (a < b)
  <2>1. LastAt(ch, y.file, y.from, b - 1)
    BY <1>1 DEF IsHistory, Continues
  <2>2. PICK h \in 1 .. b - 1 : /\ \E g \in ch[h] : g.file = y.file /\ g.path = y.from
                                /\ \A m \in h + 1 .. b - 1 : \A e_ \in ch[m] : e_.file # y.file
    BY <2>1 DEF LastAt
  <2>3. PICK g \in ch[h] : g.file = y.file /\ g.path = y.from
    BY <2>2
  <2>4. h \in 1 .. n
    OBVIOUS
  <2>5. x.file = g.file /\ h < a
    BY <1>1, <2>3, <2>4, LeavesAfter
  <2>6. a < b => a \in h + 1 .. b - 1
    BY <2>5
  <2> QED BY <2>2, <2>3, <2>5, <2>6
<1>2. d.file = e.file /\ i = j
  BY <1>1
<1> QED BY <1>2 DEF IsHistory

LEMMA RenamesAreFinite ==
  ASSUME NEW ch, NEW n, IsHistory(ch, n), NEW k \in 0 .. n
  PROVE  IsFiniteSet(RenamesOf(ch, k)) /\ Cardinality(RenamesOf(ch, k)) \in Nat
<1> n \in Nat /\ k \in Nat
  BY DEF IsHistory
<1>1. IsFiniteSet(Paths \X Paths)
  BY PathsAreNumbers, FS_Product
<1>2. RenamesOf(ch, k) \in SUBSET (Paths \X Paths)
  <2> SUFFICES ASSUME NEW r \in RenamesOf(ch, k) PROVE r \in Paths \X Paths
    OBVIOUS
  <2>1. PICK i \in 1 .. k : \E d \in ch[i] : d.from # NoPath /\ r = <<d.from, d.path>>
    BY RenamesAre
  <2>2. i \in 1 .. n
    OBVIOUS
  <2> QED BY <2>1, <2>2 DEF IsHistory
<1> QED BY <1>1, <1>2, FS_Subset, FS_CardinalityType

LEMMA RenamesByAreFinite ==
  ASSUME NEW ch, NEW n, IsHistory(ch, n), NEW k \in 0 .. n, NEW f
  PROVE  IsFiniteSet(RenamesBy(ch, f, k)) /\ Cardinality(RenamesBy(ch, f, k)) \in Nat
<1>1. RenamesBy(ch, f, k) \in SUBSET RenamesOf(ch, k)
  BY DEF RenamesBy, RenamesOf
<1>2. IsFiniteSet(RenamesOf(ch, k))
  BY RenamesAreFinite
<1> QED BY <1>1, <1>2, FS_Subset, FS_CardinalityType

LEMMA RenamesByGrow ==
  ASSUME NEW ch, NEW n, IsHistory(ch, n), NEW k \in 0 .. n, NEW j \in 0 .. k, NEW f
  PROVE  /\ RenamesBy(ch, f, j) \in SUBSET RenamesBy(ch, f, k)
         /\ Cardinality(RenamesBy(ch, f, j)) <= Cardinality(RenamesBy(ch, f, k))
<1> n \in Nat
  BY DEF IsHistory
<1>1. RenamesBy(ch, f, j) \in SUBSET RenamesBy(ch, f, k)
  <2> SUFFICES ASSUME NEW r \in RenamesBy(ch, f, j) PROVE r \in RenamesBy(ch, f, k)
    OBVIOUS
  <2>1. PICK i \in 1 .. j : \E d \in ch[i] : d.file = f /\ d.from # NoPath /\ r = <<d.from, d.path>>
    BY RenamesByAre
  <2>2. i \in 1 .. k
    OBVIOUS
  <2> QED BY <2>1, <2>2, RenamesByAre
<1>2. IsFiniteSet(RenamesBy(ch, f, k))
  BY RenamesByAreFinite
<1> QED BY <1>1, <1>2, FS_Subset

--------------------------------------------------------------------------------
(* The walk that resolves a name. *)

IsFollowed(h, n, path, renames) ==
  /\ h[0] = {path}
  /\ \A i \in Nat : i < n => h[i + 1] = Follow(h[i], renames)

LEMMA FollowedExists ==
  ASSUME NEW path, NEW renames
  PROVE  \A n \in Nat : \E h : IsFollowed(h, n, path, renames)
<1> DEFINE good == {n \in Nat : \E h : IsFollowed(h, n, path, renames)}
<1>1. 0 \in good
  <2> DEFINE h == [i \in Nat |-> {path}]
  <2>1. IsFollowed(h, 0, path, renames)
    BY DEF IsFollowed
  <2> QED BY <2>1
<1>2. ASSUME NEW n \in Nat, n \in good PROVE n + 1 \in good
  <2>1. PICK h : IsFollowed(h, n, path, renames)
    BY <1>2
  <2> DEFINE g == [i \in Nat |-> IF i <= n THEN h[i] ELSE Follow(h[n], renames)]
  <2>2. g[0] = {path}
    BY <2>1 DEF IsFollowed
  <2>3. ASSUME NEW i \in Nat, i < n + 1 PROVE g[i + 1] = Follow(g[i], renames)
    <3>1. CASE i < n
      BY <2>1, <3>1 DEF IsFollowed
    <3>2. CASE i = n
      BY <3>2
    <3> QED BY <2>3, <3>1, <3>2
  <2> HIDE DEF g
  <2>4. IsFollowed(g, n + 1, path, renames)
    BY <2>2, <2>3 DEF IsFollowed
  <2> QED BY <2>4
<1> HIDE DEF good
<1>3. \A n \in Nat : n \in good
  BY <1>1, <1>2, AllNumbers
<1> QED BY <1>3 DEF good

LEMMA FollowedAgree ==
  ASSUME NEW path, NEW renames, NEW h, NEW g, NEW n \in Nat,
         IsFollowed(h, n, path, renames), IsFollowed(g, n, path, renames)
  PROVE  \A i \in Nat : i <= n => h[i] = g[i]
<1> DEFINE same == {i \in Nat : i <= n => h[i] = g[i]}
<1>1. 0 \in same
  BY DEF IsFollowed
<1>2. ASSUME NEW i \in Nat, i \in same PROVE i + 1 \in same
  BY <1>2 DEF IsFollowed
<1> HIDE DEF same
<1>3. \A i \in Nat : i \in same
  BY <1>1, <1>2, AllNumbers
<1> QED BY <1>3 DEF same

IsNameWalk(q, path, renames) ==
  q = [depth \in Nat |-> IF depth = 0 THEN {path} ELSE Follow(q[depth - 1], renames)]

\* The function that Canonical defines exists.
LEMMA NameWalkExists ==
  ASSUME NEW path, NEW renames
  PROVE  \E q : IsNameWalk(q, path, renames)
<1> DEFINE taken(n) == CHOOSE h : IsFollowed(h, n, path, renames)
           q == [n \in Nat |-> taken(n)[n]]
<1>1. \A n \in Nat : IsFollowed(taken(n), n, path, renames)
  BY FollowedExists
<1> HIDE DEF taken
<1>2. q[0] = {path}
  BY <1>1 DEF IsFollowed
<1>3. ASSUME NEW n \in Nat PROVE q[n + 1] = Follow(q[n], renames)
  <2>1. IsFollowed(taken(n), n, path, renames) /\ IsFollowed(taken(n + 1), n, path, renames)
    BY <1>1 DEF IsFollowed
  <2>2. taken(n + 1)[n] = taken(n)[n]
    BY <2>1, FollowedAgree
  <2>3. taken(n + 1)[n + 1] = Follow(taken(n + 1)[n], renames)
    BY <1>1 DEF IsFollowed
  <2> QED BY <2>2, <2>3
<1>4. \A n \in Nat : q[n] = IF n = 0 THEN {path} ELSE Follow(q[n - 1], renames)
  <2> SUFFICES ASSUME NEW n \in Nat, n # 0 PROVE q[n] = Follow(q[n - 1], renames)
    BY <1>2
  <2>1. n - 1 \in Nat /\ (n - 1) + 1 = n
    OBVIOUS
  <2> HIDE DEF q
  <2> QED BY <1>3, <2>1
<1>5. q = [n \in Nat |-> q[n]]
  OBVIOUS
<1> HIDE DEF q
<1>6. IsNameWalk(q, path, renames)
  BY <1>4, <1>5 DEF IsNameWalk
<1> QED BY <1>6

\* What a walk along renames is: w[k] are the names after k steps.
IsWalkOfNames(w, path, renames) ==
  w[0] = {path} /\ \A k \in Nat : w[k + 1] = Follow(w[k], renames)

LEMMA CanonicalSteps ==
  ASSUME NEW d, NEW path
  PROVE  \E w : /\ IsWalkOfNames(w, path, Renames(d))
                /\ Canonical(d, path) = CHOOSE p \in w[MaxRenames] : TRUE
<1> DEFINE walk == CHOOSE q : IsNameWalk(q, path, Renames(d))
<1>1. \E q : IsNameWalk(q, path, Renames(d))
  BY NameWalkExists
<1>2. Canonical(d, path) = CHOOSE p \in walk[MaxRenames] : TRUE
  BY DEF Canonical, IsNameWalk
<1>3. IsNameWalk(walk, path, Renames(d))
  BY <1>1
<1> HIDE DEF walk
<1>4. walk[0] = {path}
  BY <1>3 DEF IsNameWalk
<1>5. ASSUME NEW n \in Nat PROVE walk[n + 1] = Follow(walk[n], Renames(d))
  <2>1. n + 1 \in Nat /\ n + 1 # 0 /\ (n + 1) - 1 = n
    OBVIOUS
  <2>2. walk[n + 1] = Follow(walk[(n + 1) - 1], Renames(d))
    BY <1>3, <2>1 DEF IsNameWalk
  <2> QED BY <2>1, <2>2
<1>6. IsWalkOfNames(walk, path, Renames(d))
  BY <1>4, <1>5 DEF IsWalkOfNames
<1> QED BY <1>2, <1>6

--------------------------------------------------------------------------------
(* A walk along the renames of a history ends where the file is. *)

\* From a change of file f, a walk is at one path of f after each step: nothing leads on
\* from there, or the file was renamed as often as it has taken steps.
WalkInv(ch, k, f, renames, names, m) ==
  \E x : /\ names = {x} /\ x \in Paths
         /\ \E t \in 1 .. k : /\ \E e \in ch[t] : e.file = f /\ e.path = x
                              /\ \/ Renamed({x}, renames) = {}
                                 \/ m <= Cardinality(RenamesBy(ch, f, t))

LEMMA RenamedAre ==
  ASSUME NEW x, NEW renames, NEW y
  PROVE  y \in Renamed({x}, renames) <=> \E r \in renames : r[1] = x /\ r[2] = y
BY DEF Renamed

\* A rename that was not there makes them more.
LEMMA MoreRenames ==
  ASSUME NEW ch, NEW n, IsHistory(ch, n), NEW j \in 0 .. n, NEW t \in 0 .. j, NEW f,
         NEW r \in RenamesBy(ch, f, j), r \notin RenamesBy(ch, f, t)
  PROVE  Cardinality(RenamesBy(ch, f, t)) < Cardinality(RenamesBy(ch, f, j))
<1> n \in Nat
  BY DEF IsHistory
<1>1. /\ RenamesBy(ch, f, t) \in SUBSET RenamesBy(ch, f, j)
      /\ Cardinality(RenamesBy(ch, f, t)) <= Cardinality(RenamesBy(ch, f, j))
  BY RenamesByGrow
<1>2. IsFiniteSet(RenamesBy(ch, f, j)) /\ Cardinality(RenamesBy(ch, f, j)) \in Nat
  BY RenamesByAreFinite
<1>3. t \in 0 .. n
  OBVIOUS
<1>4. Cardinality(RenamesBy(ch, f, t)) \in Nat
  BY <1>3, RenamesByAreFinite
<1>5. Cardinality(RenamesBy(ch, f, t)) # Cardinality(RenamesBy(ch, f, j))
  BY <1>1, <1>2, FS_Subset
<1> QED BY <1>1, <1>2, <1>4, <1>5

LEMMA WalkStep ==
  ASSUME NEW ch, NEW n, IsHistory(ch, n), PathsAreKept(ch, n), NEW k \in 1 .. n, NEW f,
         NEW names, NEW m \in Nat, WalkInv(ch, k, f, RenamesOf(ch, k), names, m)
  PROVE  WalkInv(ch, k, f, RenamesOf(ch, k), Follow(names, RenamesOf(ch, k)), m + 1)
<1> n \in Nat /\ k \in Nat
  BY DEF IsHistory
<1> DEFINE R == RenamesOf(ch, k)
<1>0. PICK x : /\ names = {x} /\ x \in Paths
               /\ \E t \in 1 .. k : /\ \E e \in ch[t] : e.file = f /\ e.path = x
                                    /\ Renamed({x}, R) = {} \/ m <= Cardinality(RenamesBy(ch, f, t))
  BY DEF WalkInv
<1>1. PICK t \in 1 .. k :
        /\ \E e \in ch[t] : e.file = f /\ e.path = x
        /\ Renamed({x}, R) = {} \/ m <= Cardinality(RenamesBy(ch, f, t))
  BY <1>0
<1>2. CASE Renamed({x}, R) = {}
  <2>1. Follow(names, R) = {x}
    BY <1>0, <1>2 DEF Follow
  <2> QED BY <1>0, <1>1, <1>2, <2>1 DEF WalkInv
<1>3. CASE Renamed({x}, R) # {}
  <2>0. PICK y : y \in Renamed({x}, R)
    BY <1>3
  <2>1. PICK r \in R : r[1] = x
    <3> HIDE DEF R
    <3> QED BY <2>0 DEF Renamed
  <2>2. PICK j \in 1 .. k : \E d \in ch[j] : d.from # NoPath /\ r = <<d.from, d.path>>
    BY RenamesAre
  <2>3. PICK d \in ch[j] : d.from # NoPath /\ r = <<d.from, d.path>>
    BY <2>2
  <2>4. d.from = x /\ r[2] = d.path
    BY <2>1, <2>3
  <2>5. PICK e \in ch[t] : e.file = f /\ e.path = x
    BY <1>1
  <2>6. t \in 1 .. n /\ j \in 1 .. n
    OBVIOUS
  <2>7. d.file = f /\ t < j
    BY <2>4, <2>5, <2>6, LeavesAfter
  <2>8. \A s \in R : s[1] = x => s[2] = d.path
    <3> SUFFICES ASSUME NEW s \in R, s[1] = x PROVE s[2] = d.path
      OBVIOUS
    <3>1. PICK i \in 1 .. k : \E g \in ch[i] : g.from # NoPath /\ s = <<g.from, g.path>>
      BY RenamesAre
    <3>2. PICK g \in ch[i] : g.from # NoPath /\ s = <<g.from, g.path>>
      BY <3>1
    <3>3. i \in 1 .. n /\ g.from = d.from
      BY <2>4, <3>2
    <3> QED BY <2>3, <2>6, <3>2, <3>3, LeavesOnce
  <2>9. Renamed({x}, R) = {d.path}
    <3>1. \A z : z \in Renamed({x}, R) => z = d.path
      <4> HIDE DEF R
      <4> QED BY <2>8 DEF Renamed
    <3> QED BY <2>0, <3>1
  <2>10. Follow(names, R) = {d.path} /\ d.path \in Paths
    BY <1>0, <1>3, <2>6, <2>9 DEF Follow, IsHistory
  <2>11. m <= Cardinality(RenamesBy(ch, f, t))
    BY <1>1, <1>3
  <2>12. Cardinality(RenamesBy(ch, f, t)) < Cardinality(RenamesBy(ch, f, j))
    <3>1. t \in 0 .. j /\ j \in 0 .. n /\ t \in 0 .. n
      BY <2>7
    <3>2. r \in RenamesBy(ch, f, j)
      <4>1. j \in 1 .. j
        OBVIOUS
      <4> QED BY <2>3, <2>7, <4>1, RenamesByAre
    <3>3. r \notin RenamesBy(ch, f, t)
      <4> SUFFICES ASSUME r \in RenamesBy(ch, f, t) PROVE FALSE
        OBVIOUS
      <4>1. PICK i \in 1 .. t : \E g \in ch[i] : g.from # NoPath /\ r = <<g.from, g.path>>
        BY RenamesByAre
      <4>2. PICK g \in ch[i] : g.from # NoPath /\ r = <<g.from, g.path>>
        BY <4>1
      <4>3. i \in 1 .. n /\ g.from = d.from
        BY <2>3, <4>2
      <4>4. i = j
        BY <2>3, <2>6, <4>3, LeavesOnce
      <4> QED BY <2>7, <4>4
    <3> QED BY <3>1, <3>2, <3>3, MoreRenames
  <2>13. m + 1 <= Cardinality(RenamesBy(ch, f, j))
    <3>1. t \in 0 .. n /\ j \in 0 .. n
      OBVIOUS
    <3>2. Cardinality(RenamesBy(ch, f, j)) \in Nat /\ Cardinality(RenamesBy(ch, f, t)) \in Nat
      BY <3>1, RenamesByAreFinite
    <3> QED BY <2>11, <2>12, <3>2
  <2> QED BY <2>3, <2>7, <2>10, <2>13 DEF WalkInv
<1> QED BY <1>2, <1>3

\* After as many steps as the file had renames, a walk is where the file is.
LEMMA WalkArrives ==
  ASSUME NEW ch, NEW n, IsHistory(ch, n), PathsAreKept(ch, n), NEW k \in 1 .. n,
         NEW i \in 1 .. k, NEW d \in ch[i], NEW w, IsWalkOfNames(w, d.path, RenamesOf(ch, k)),
         NEW M \in Nat, Cardinality(RenamesBy(ch, d.file, k)) <= M
  PROVE  \E x : w[M] = {x} /\ LastAt(ch, d.file, x, k)
<1> n \in Nat /\ k \in Nat
  BY DEF IsHistory
<1> DEFINE R == RenamesOf(ch, k)
           good == {m \in Nat : WalkInv(ch, k, d.file, R, w[m], m)}
<1>1. 0 \in good
  <2>1. w[0] = {d.path}
    BY DEF IsWalkOfNames
  <2>2. i \in 0 .. n /\ i \in 1 .. n
    OBVIOUS
  <2>5. Cardinality(RenamesBy(ch, d.file, i)) \in Nat
    BY <2>2, RenamesByAreFinite
  <2>3. 0 <= Cardinality(RenamesBy(ch, d.file, i)) /\ d.path \in Paths
    BY <2>2, <2>5 DEF IsHistory
  <2>4. WalkInv(ch, k, d.file, R, w[0], 0)
    BY <2>1, <2>3 DEF WalkInv
  <2> QED BY <2>4
<1>2. ASSUME NEW m \in Nat, m \in good PROVE m + 1 \in good
  <2>1. w[m + 1] = Follow(w[m], R)
    BY DEF IsWalkOfNames
  <2>2. WalkInv(ch, k, d.file, R, w[m], m)
    BY <1>2
  <2>3. WalkInv(ch, k, d.file, R, Follow(w[m], R), m + 1)
    BY <2>2, WalkStep
  <2> QED BY <2>1, <2>3
<1>3. M \in good
  <2> HIDE DEF good
  <2> QED BY <1>1, <1>2, AllNumbers
<1>4. WalkInv(ch, k, d.file, R, w[M], M)
  BY <1>3
<1>9. PICK x : /\ w[M] = {x} /\ x \in Paths
               /\ \E t \in 1 .. k : /\ \E e \in ch[t] : e.file = d.file /\ e.path = x
                                    /\ Renamed({x}, R) = {} \/ M <= Cardinality(RenamesBy(ch, d.file, t))
  BY <1>4 DEF WalkInv
<1>5. PICK t \in 1 .. k :
        /\ w[M] = {x} /\ x \in Paths
        /\ \E e \in ch[t] : e.file = d.file /\ e.path = x
        /\ Renamed({x}, R) = {} \/ M <= Cardinality(RenamesBy(ch, d.file, t))
  BY <1>9
<1>6. PICK e \in ch[t] : e.file = d.file /\ e.path = x
  BY <1>5
\* Were there one more rename, there would be too many.
<1>7. Renamed({x}, R) = {}
  <2> SUFFICES ASSUME Renamed({x}, R) # {} PROVE FALSE
    OBVIOUS
  <2>0. PICK y : y \in Renamed({x}, R)
    OBVIOUS
  <2>1. PICK r \in R : r[1] = x
    <3> HIDE DEF R
    <3> QED BY <2>0 DEF Renamed
  <2>2. PICK j \in 1 .. k : \E g \in ch[j] : g.from # NoPath /\ r = <<g.from, g.path>>
    BY RenamesAre
  <2>3. PICK g \in ch[j] : g.from # NoPath /\ r = <<g.from, g.path>>
    BY <2>2
  <2>4. t \in 1 .. n /\ j \in 1 .. n /\ t \in 0 .. n /\ k \in 0 .. n
    OBVIOUS
  <2>5. g.from = x /\ t < j
    BY <1>6, <2>1, <2>3, <2>4, LeavesAfter
  <2>6. g.file = d.file
    BY <1>6, <2>3, <2>4, <2>5, LeavesAfter
  <2>7. r \in RenamesBy(ch, d.file, k)
    BY <2>3, <2>6, RenamesByAre
  <2>8. r \notin RenamesBy(ch, d.file, t)
    <3> SUFFICES ASSUME r \in RenamesBy(ch, d.file, t) PROVE FALSE
      OBVIOUS
    <3>1. PICK a \in 1 .. t : \E b \in ch[a] : b.from # NoPath /\ r = <<b.from, b.path>>
      BY RenamesByAre
    <3>2. PICK b \in ch[a] : b.from # NoPath /\ r = <<b.from, b.path>>
      BY <3>1
    <3>3. a \in 1 .. n /\ b.from = g.from
      BY <2>3, <3>2
    <3>4. a = j
      BY <2>3, <2>4, <3>3, LeavesOnce
    <3> QED BY <2>5, <3>4
  <2>9. t \in 0 .. k
    OBVIOUS
  <2>10. Cardinality(RenamesBy(ch, d.file, t)) < Cardinality(RenamesBy(ch, d.file, k))
    BY <2>4, <2>7, <2>8, <2>9, MoreRenames
  <2>11. Cardinality(RenamesBy(ch, d.file, k)) \in Nat /\ Cardinality(RenamesBy(ch, d.file, t)) \in Nat
    BY <2>4, RenamesByAreFinite
  <2>12. M <= Cardinality(RenamesBy(ch, d.file, t))
    BY <1>5
  <2> QED BY <2>10, <2>11, <2>12
<1>8. LastAt(ch, d.file, x, k)
  <2> SUFFICES ASSUME ~ LastAt(ch, d.file, x, k) PROVE FALSE
    OBVIOUS
  <2>1. LastAt(ch, d.file, x, t)
    <3>1. t - 1 \in Nat /\ (t - 1) + 1 = t
      OBVIOUS
    <3>2. LastAt(ch, d.file, x, (t - 1) + 1)
      BY <1>6, <3>1, LastStep
    <3> QED BY <3>1, <3>2
  <2>2. t \in 0 .. n /\ k \in t .. n
    OBVIOUS
  <2>3. PICK m \in t + 1 .. k : \E g \in ch[m] : g.file = d.file /\ g.from = x
    BY <2>1, <2>2, FilesLeave
  <2>4. PICK g \in ch[m] : g.from = x
    BY <2>3
  <2>5. m \in 1 .. k /\ x # NoPath
    BY <1>5, PathsAreNumbers
  <2>6. <<x, g.path>> \in R
    BY <2>4, <2>5, RenamesAre
  <2>7. <<x, g.path>>[1] = x /\ <<x, g.path>>[2] = g.path
    OBVIOUS
  <2> HIDE DEF R
  <2>8. \E r \in R : r[1] = x /\ r[2] = g.path
    BY <2>6, <2>7
  <2>9. g.path \in Renamed({x}, R)
    BY <2>8, RenamedAre
  <2> QED BY <1>7, <2>9
<1> QED BY <1>5, <1>8

--------------------------------------------------------------------------------
(* The rows of the database. *)

\* What a database says of a log.
RowOf(sha, d) == [commit |-> sha, path |-> d.path, from |-> d.from]
IsKept(lg, dd, i) == \E row \in dd.changes : row.commit = lg[i].sha
KeptOf(lg, dd) == {i \in 1 .. Len(lg) : IsKept(lg, dd, i)}

IsLog(lg, t) ==
  /\ lg # <<>> /\ lg \in Seq(Range(lg)) /\ t \in Nat
  /\ \A i \in 1 .. Len(lg) : lg[i].sha \in Nat /\ lg[i].sha <= t
  /\ \A i, j \in 1 .. Len(lg) : i < j => lg[i].sha < lg[j].sha
  /\ IsHistory(ChangesOf(lg), Len(lg))

\* Commits are kept whole.
RowsFit(lg, dd) ==
  \A i \in 1 .. Len(lg) :
    /\ \A row \in dd.changes : row.commit = lg[i].sha => \E d \in lg[i].changes : row = RowOf(lg[i].sha, d)
    /\ IsKept(lg, dd, i) => \A d \in lg[i].changes : RowOf(lg[i].sha, d) \in dd.changes

\* Nothing else is kept.
RowsAreOfLog(lg, dd) == \A row \in dd.changes : \E i \in 1 .. Len(lg) : row.commit = lg[i].sha

\* The paths of files as the first k commits left them, of which the last is the last that is kept.
IsIndexOf(own, lg, dd, k) ==
  /\ k \in 1 .. Len(lg) /\ IsKept(lg, dd, k)
  /\ \A j \in 1 .. Len(lg) : IsKept(lg, dd, j) => j <= k
  /\ \A p \in DOMAIN own : p \in Paths /\ LastAt(ChangesOf(lg), own[p], p, k)

RenamesAreKept(lg, dd) ==
  \A i, j \in 1 .. Len(lg) :
    i < j /\ IsKept(lg, dd, j) /\ (\E d \in lg[i].changes : d.from # NoPath) => IsKept(lg, dd, i)

\* A database and an index of one state of a branch.
IsSettled(lg, t, dd, own, k) ==
  /\ IsLog(lg, t) /\ RowsFit(lg, dd) /\ RowsAreOfLog(lg, dd) /\ IsIndexOf(own, lg, dd, k)
  /\ PathsAreKept(ChangesOf(lg), Len(lg)) /\ RenamesAreKept(lg, dd)
  /\ \A i \in 1 .. Len(lg) : \A d \in lg[i].changes :
       Cardinality(RenamesBy(ChangesOf(lg), d.file, Len(lg))) <= MaxRenames

LEMMA LogsAreSequences ==
  ASSUME NEW lg, NEW t, IsLog(lg, t)
  PROVE  /\ Len(lg) \in Nat /\ Len(lg) >= 1 /\ DOMAIN lg = 1 .. Len(lg)
         /\ \A i \in 1 .. Len(lg) : ChangesOf(lg)[i] = lg[i].changes
         /\ \A i, j \in 1 .. Len(lg) : lg[i].sha = lg[j].sha => i = j
<1>1. lg \in Seq(Range(lg)) /\ lg # <<>>
  BY DEF IsLog
<1>2. Len(lg) \in Nat /\ Len(lg) >= 1 /\ DOMAIN lg = 1 .. Len(lg)
  BY <1>1
<1>3. \A i \in 1 .. Len(lg) : ChangesOf(lg)[i] = lg[i].changes
  BY DEF ChangesOf
<1>4. ASSUME NEW i \in 1 .. Len(lg), NEW j \in 1 .. Len(lg), lg[i].sha = lg[j].sha PROVE i = j
  <2>1. ~ (i < j) /\ ~ (j < i)
    BY <1>2, <1>4 DEF IsLog
  <2> QED BY <1>2, <2>1
<1> QED BY <1>2, <1>3, <1>4

LEMMA RowFields ==
  ASSUME NEW sha, NEW d
  PROVE  RowOf(sha, d).commit = sha /\ RowOf(sha, d).path = d.path /\ RowOf(sha, d).from = d.from
BY DEF RowOf

\* The rows are the changes of the commits that are kept.
LEMMA RowsAre ==
  ASSUME NEW lg, NEW t, NEW dd, IsLog(lg, t), RowsFit(lg, dd), RowsAreOfLog(lg, dd), NEW row
  PROVE  row \in dd.changes <=>
           \E i \in KeptOf(lg, dd) : \E d \in lg[i].changes : row = RowOf(lg[i].sha, d)
<1>1. ASSUME row \in dd.changes
      PROVE  \E i \in KeptOf(lg, dd) : \E d \in lg[i].changes : row = RowOf(lg[i].sha, d)
  <2>1. PICK i \in 1 .. Len(lg) : row.commit = lg[i].sha
    BY <1>1 DEF RowsAreOfLog
  <2>2. i \in KeptOf(lg, dd)
    BY <1>1, <2>1 DEF KeptOf, IsKept
  <2> QED BY <1>1, <2>1, <2>2 DEF RowsFit
<1>2. ASSUME NEW i \in KeptOf(lg, dd), NEW d \in lg[i].changes, row = RowOf(lg[i].sha, d)
      PROVE  row \in dd.changes
  BY <1>2 DEF RowsFit, KeptOf
<1> QED BY <1>1, <1>2

\* What is kept of the renames are those of the commits of the index.
LEMMA KeptRenames ==
  ASSUME NEW lg, NEW t, NEW dd, NEW own, NEW k, IsSettled(lg, t, dd, own, k)
  PROVE  Renames(dd) = RenamesOf(ChangesOf(lg), k)
<1> DEFINE ch == ChangesOf(lg)
<1>0. /\ IsLog(lg, t) /\ RowsFit(lg, dd) /\ RowsAreOfLog(lg, dd) /\ IsHistory(ch, Len(lg))
      /\ k \in 1 .. Len(lg) /\ k \in Nat /\ IsKept(lg, dd, k) /\ RenamesAreKept(lg, dd)
      /\ \A j \in 1 .. Len(lg) : IsKept(lg, dd, j) => j <= k
  BY LogsAreSequences DEF IsSettled, IsLog, IsIndexOf
<1>1. \A i \in 1 .. Len(lg) : ch[i] = lg[i].changes
  BY <1>0, LogsAreSequences
<1> HIDE DEF ch
<1>2. ASSUME NEW r \in Renames(dd) PROVE r \in RenamesOf(ch, k)
  <2>1. PICK row \in dd.changes : row.from # NoPath /\ row.from # row.path /\ r = <<row.from, row.path>>
    BY <1>2 DEF Renames
  <2>2. PICK i \in KeptOf(lg, dd) : \E d \in lg[i].changes : row = RowOf(lg[i].sha, d)
    BY <1>0, RowsAre
  <2>3. PICK d \in lg[i].changes : row = RowOf(lg[i].sha, d)
    BY <2>2
  <2>4. i \in 1 .. Len(lg) /\ i \in 1 .. k
    BY <1>0 DEF KeptOf
  <2>5. d \in ch[i] /\ d.from # NoPath /\ r = <<d.from, d.path>>
    BY <1>1, <2>1, <2>3, <2>4, RowFields
  <2> QED BY <1>0, <2>4, <2>5, RenamesAre
<1>3. ASSUME NEW r \in RenamesOf(ch, k) PROVE r \in Renames(dd)
  <2>1. PICK i \in 1 .. k : \E d \in ch[i] : d.from # NoPath /\ r = <<d.from, d.path>>
    BY <1>0, <1>3, RenamesAre
  <2>2. PICK d \in ch[i] : d.from # NoPath /\ r = <<d.from, d.path>>
    BY <2>1
  <2>3. i \in 1 .. Len(lg) /\ d \in lg[i].changes
    BY <1>0, <1>1
  <2>4. IsKept(lg, dd, i)
    <3>1. CASE i = k
      BY <1>0, <3>1
    <3>2. CASE i < k
      BY <1>0, <2>2, <2>3, <3>2 DEF RenamesAreKept
    <3> QED BY <1>0, <3>1, <3>2
  <2>5. RowOf(lg[i].sha, d) \in dd.changes
    BY <1>0, <2>3, <2>4 DEF RowsFit
  <2>6. d.from # d.path
    BY <1>0, <2>3 DEF IsHistory
  <2> QED BY <2>2, <2>5, <2>6, RowFields DEF Renames
<1>4. Renames(dd) = RenamesOf(ch, k)
  BY <1>2, <1>3
<1> QED BY <1>4 DEF ch

\* Every name that a kept commit mentions resolves to where its file is in the index.
LEMMA NamesResolve ==
  ASSUME NEW lg, NEW t, NEW dd, NEW own, NEW k, IsSettled(lg, t, dd, own, k),
         NEW i \in KeptOf(lg, dd), NEW d \in lg[i].changes
  PROVE  LastAt(ChangesOf(lg), d.file, Canonical(dd, d.path), k)
<1> DEFINE ch == ChangesOf(lg)
<1>0. /\ IsLog(lg, t) /\ IsHistory(ch, Len(lg)) /\ PathsAreKept(ch, Len(lg))
      /\ k \in 1 .. Len(lg) /\ i \in 1 .. k /\ i \in 1 .. Len(lg)
      /\ MaxRenames \in Nat /\ Cardinality(RenamesBy(ch, d.file, Len(lg))) <= MaxRenames
  BY HistoryBounds, LogsAreSequences DEF IsSettled, IsLog, IsIndexOf, KeptOf
<1>7. Cardinality(RenamesBy(ch, d.file, k)) <= MaxRenames
  <2>1. Len(lg) \in 0 .. Len(lg) /\ k \in 0 .. Len(lg)
    BY <1>0, LogsAreSequences
  <2>2. Cardinality(RenamesBy(ch, d.file, k)) <= Cardinality(RenamesBy(ch, d.file, Len(lg)))
    BY <1>0, <2>1, RenamesByGrow
  <2>3. Cardinality(RenamesBy(ch, d.file, k)) \in Nat /\ Cardinality(RenamesBy(ch, d.file, Len(lg))) \in Nat
    BY <1>0, <2>1, RenamesByAreFinite
  <2> HIDE DEF ch
  <2> QED BY <1>0, <2>2, <2>3
<1>1. Renames(dd) = RenamesOf(ch, k)
  BY KeptRenames
<1>2. d \in ch[i]
  BY <1>0, LogsAreSequences
<1>3. PICK w : /\ IsWalkOfNames(w, d.path, Renames(dd))
               /\ Canonical(dd, d.path) = CHOOSE p \in w[MaxRenames] : TRUE
  BY CanonicalSteps
<1> HIDE DEF ch
<1>4. PICK x : w[MaxRenames] = {x} /\ LastAt(ch, d.file, x, k)
  BY <1>0, <1>1, <1>2, <1>3, <1>7, WalkArrives
<1>5. Canonical(dd, d.path) = x
  BY <1>3, <1>4
<1>6. LastAt(ch, d.file, Canonical(dd, d.path), k)
  BY <1>4, <1>5
<1> QED BY <1>6 DEF ch

\* So the commits that touch a file of the index are those that changed this file.
LEMMA TouchesAre ==
  ASSUME NEW lg, NEW t, NEW dd, NEW own, NEW k, IsSettled(lg, t, dd, own, k), NEW p \in DOMAIN own, NEW s
  PROVE  <<s, p>> \in Touches(dd) <=>
           \E i \in KeptOf(lg, dd) : s = lg[i].sha /\ own[p] \in FilesOf(lg[i])
<1> DEFINE ch == ChangesOf(lg)
<1>0. /\ IsLog(lg, t) /\ RowsFit(lg, dd) /\ RowsAreOfLog(lg, dd)
      /\ IsHistory(ch, Len(lg)) /\ PathsAreKept(ch, Len(lg)) /\ k \in 0 .. Len(lg) /\ k \in 1 .. Len(lg)
      /\ LastAt(ch, own[p], p, k)
      /\ \A i \in 1 .. Len(lg) : ch[i] = lg[i].changes
  <2>1. IsLog(lg, t)
    BY DEF IsSettled
  <2>2. k \in 1 .. Len(lg) /\ Len(lg) \in Nat /\ \A i \in 1 .. Len(lg) : ch[i] = lg[i].changes
    BY <2>1, LogsAreSequences DEF IsSettled, IsIndexOf
  <2> QED BY <2>1, <2>2 DEF IsSettled, IsLog, IsIndexOf
<1> HIDE DEF ch
\* A change has a name in the index iff its file has.
<1>1. ASSUME NEW i \in KeptOf(lg, dd), NEW d \in lg[i].changes
      PROVE  Canonical(dd, d.path) = p <=> d.file = own[p]
  <2>1. LastAt(ch, d.file, Canonical(dd, d.path), k)
    BY NamesResolve DEF ch
  <2>2. d.file = own[p] => Canonical(dd, d.path) = p
    BY <1>0, <2>1, LastIsUnique
  <2>3. ASSUME Canonical(dd, d.path) = p PROVE d.file = own[p]
    <3>1. PICK a \in 1 .. k : \E g \in ch[a] : g.file = d.file /\ g.path = p
      BY <2>1, <2>3 DEF LastAt
    <3>2. PICK b \in 1 .. k : \E g \in ch[b] : g.file = own[p] /\ g.path = p
      BY <1>0 DEF LastAt
    <3>3. a \in 1 .. Len(lg) /\ b \in 1 .. Len(lg)
      BY <1>0
    <3> QED BY <1>0, <3>1, <3>2, <3>3 DEF PathsAreKept
  <2> QED BY <2>2, <2>3
<1>2. <<s, p>> \in Touches(dd) <=> \E row \in dd.changes : row.commit = s /\ Canonical(dd, row.path) = p
  BY DEF Touches
<1>3. ASSUME NEW row \in dd.changes, row.commit = s, Canonical(dd, row.path) = p
      PROVE  \E i \in KeptOf(lg, dd) : s = lg[i].sha /\ own[p] \in FilesOf(lg[i])
  <2>1. PICK i \in KeptOf(lg, dd) : \E d \in lg[i].changes : row = RowOf(lg[i].sha, d)
    BY <1>0, RowsAre
  <2>2. PICK d \in lg[i].changes : row = RowOf(lg[i].sha, d)
    BY <2>1
  <2> QED BY <1>1, <1>3, <2>2, RowFields DEF FilesOf
<1>4. ASSUME NEW i \in KeptOf(lg, dd), s = lg[i].sha, own[p] \in FilesOf(lg[i])
      PROVE  \E row \in dd.changes : row.commit = s /\ Canonical(dd, row.path) = p
  <2>1. PICK d \in lg[i].changes : d.file = own[p]
    BY <1>4 DEF FilesOf
  <2>2. RowOf(s, d) \in dd.changes
    BY <1>0, <1>4, RowsAre
  <2> QED BY <1>1, <2>1, <2>2, RowFields
<1> QED BY <1>2, <1>3, <1>4

--------------------------------------------------------------------------------
(* Counting commits. *)

LEMMA SameCount ==
  ASSUME NEW S, IsFiniteSet(S), NEW f, DOMAIN f = S, \A x, y \in S : f[x] = f[y] => x = y
  PROVE  IsFiniteSet({f[x] : x \in S}) /\ Cardinality({f[x] : x \in S}) = Cardinality(S)
<1> DEFINE T == {f[x] : x \in S}
           g == [x \in S |-> f[x]]
<1>1. g \in [S -> T] /\ (\A y \in T : \E x \in S : g[x] = y) /\ \A x, y \in S : g[x] = g[y] => x = y
  OBVIOUS
<1> HIDE DEF g, T
<1>2. g \in Bijection(S, T)
  BY <1>1 DEF Bijection, Injection, Surjection, IsInjective
<1>3. ExistsBijection(S, T)
  BY <1>2 DEF ExistsBijection
<1>4. IsFiniteSet(T) /\ Cardinality(T) = Cardinality(S)
  BY <1>3, FS_Bijection
<1> QED BY <1>4 DEF T

LEMMA TouchesArePairs ==
  ASSUME NEW dd
  PROVE  /\ \A s \in Touches(dd) : s = <<s[1], s[2]>>
         /\ \A s \in Touches(dd) : \E row \in dd.changes : row.commit = s[1]
         /\ \A row \in dd.changes : \E s \in Touches(dd) : row.commit = s[1]
<1> DEFINE names == [p \in {d.path : d \in dd.changes} |-> Canonical(dd, p)]
<1>1. Touches(dd) = {<<d.commit, names[d.path]>> : d \in dd.changes}
  BY DEF Touches
<1> HIDE DEF names
<1>2. ASSUME NEW s \in Touches(dd) PROVE s = <<s[1], s[2]>> /\ \E row \in dd.changes : row.commit = s[1]
  <2>1. PICK row \in dd.changes : s = <<row.commit, names[row.path]>>
    BY <1>1, <1>2
  <2>2. s[1] = row.commit /\ s[2] = names[row.path]
    BY <2>1
  <2> QED BY <2>1, <2>2
<1>3. ASSUME NEW row \in dd.changes PROVE \E s \in Touches(dd) : row.commit = s[1]
  <2>1. <<row.commit, names[row.path]>> \in Touches(dd)
    BY <1>1
  <2>2. <<row.commit, names[row.path]>>[1] = row.commit
    OBVIOUS
  <2> QED BY <2>1, <2>2
<1> QED BY <1>2, <1>3

StoredOf(lg, dd) == {c \in Range(lg) : \E d \in dd.changes : d.commit = c.sha}

\* Commits as numbers.
LEMMA StoredAre ==
  ASSUME NEW lg, NEW t, NEW dd, IsLog(lg, t)
  PROVE  /\ IsFiniteSet(KeptOf(lg, dd))
         /\ \A c : c \in StoredOf(lg, dd) <=> \E i \in KeptOf(lg, dd) : c = lg[i]
         /\ \A i, j \in KeptOf(lg, dd) : lg[i] = lg[j] => i = j
<1>0. Len(lg) \in Nat /\ DOMAIN lg = 1 .. Len(lg) /\ \A i, j \in 1 .. Len(lg) : lg[i].sha = lg[j].sha => i = j
  BY LogsAreSequences
<1>1. IsFiniteSet(1 .. Len(lg))
  BY <1>0, FS_Interval
<1>2. KeptOf(lg, dd) \in SUBSET (1 .. Len(lg))
  BY DEF KeptOf
<1>3. IsFiniteSet(KeptOf(lg, dd))
  BY <1>1, <1>2, FS_Subset
<1>4. \A c : c \in StoredOf(lg, dd) <=> \E i \in KeptOf(lg, dd) : c = lg[i]
  BY <1>0 DEF StoredOf, KeptOf, IsKept, Range
<1> QED BY <1>0, <1>2, <1>3, <1>4

LEMMA StoredMembers ==
  ASSUME NEW lg, NEW t, NEW dd, IsLog(lg, t), NEW c
  PROVE  c \in StoredOf(lg, dd) <=> \E i \in KeptOf(lg, dd) : c = lg[i]
BY StoredAre

\* How many of the stored commits, or of some of them, satisfy a condition given as a set.
LEMMA CountOfStored ==
  ASSUME NEW lg, NEW t, NEW dd, IsLog(lg, t), NEW I, I \subseteq KeptOf(lg, dd), NEW C,
         \A c : c \in C <=> \E i \in I : c = lg[i]
  PROVE  IsFiniteSet(I) /\ Cardinality(C) = Cardinality(I) /\ Cardinality(I) \in Nat
<1>1. IsFiniteSet(I)
  BY StoredAre, FS_Subset
<1>2. PICK f : f = [i \in I |-> lg[i]]
  OBVIOUS
<1>3. DOMAIN f = I /\ \A i, j \in I : f[i] = f[j] => i = j
  BY <1>2, StoredAre
<1>4. C = {f[i] : i \in I}
  BY <1>2
<1>5. Cardinality(C) = Cardinality(I)
  BY <1>1, <1>3, <1>4, SameCount
<1> QED BY <1>1, <1>5, FS_CardinalityType

\* The commits that changed a file of the index.
ChangersOf(lg, dd, f) == {i \in KeptOf(lg, dd) : f \in FilesOf(lg[i])}

LEMMA ChurnCounts ==
  ASSUME NEW lg, NEW t, NEW dd, NEW own, NEW k, IsSettled(lg, t, dd, own, k), NEW p \in DOMAIN own
  PROVE  Cardinality({c \in StoredOf(lg, dd) : own[p] \in FilesOf(c)})
           = IF p \in DOMAIN file_churn(dd) THEN file_churn(dd)[p] ELSE 0
<1> DEFINE I == ChangersOf(lg, dd, own[p])
           T == {s \in Touches(dd) : s[2] = p}
           C == {c \in StoredOf(lg, dd) : own[p] \in FilesOf(c)}
<1>0. IsLog(lg, t)
  BY DEF IsSettled
<1>1. I \subseteq KeptOf(lg, dd) /\ \A c : c \in C <=> \E i \in I : c = lg[i]
  <2>1. \A c : c \in StoredOf(lg, dd) <=> \E i \in KeptOf(lg, dd) : c = lg[i]
    BY <1>0, StoredMembers
  <2> QED BY <2>1 DEF ChangersOf
<1>2. IsFiniteSet(I) /\ Cardinality(C) = Cardinality(I)
  <2> HIDE DEF I, C
  <2> QED BY <1>0, <1>1, CountOfStored
<1>3. \A s \in Touches(dd) : s = <<s[1], s[2]>>
  BY TouchesArePairs
<1>4. PICK f : f = [i \in I |-> <<lg[i].sha, p>>]
  OBVIOUS
<1>5. T = {f[i] : i \in I}
  <2>1. ASSUME NEW s \in T PROVE s \in {f[i] : i \in I}
    <3>1. s = <<s[1], p>> /\ <<s[1], p>> \in Touches(dd)
      BY <1>3, <2>1
    <3>2. PICK i \in KeptOf(lg, dd) : s[1] = lg[i].sha /\ own[p] \in FilesOf(lg[i])
      BY <3>1, TouchesAre
    <3> QED BY <1>4, <3>1, <3>2 DEF ChangersOf
  <2>2. ASSUME NEW i \in I PROVE f[i] \in T
    <3>1. i \in KeptOf(lg, dd) /\ own[p] \in FilesOf(lg[i])
      BY <2>2 DEF ChangersOf
    <3>2. <<lg[i].sha, p>> \in Touches(dd)
      BY <3>1, TouchesAre
    <3> QED BY <1>4, <3>2
  <2> QED BY <2>1, <2>2
<1>6. \A i, j \in I : f[i] = f[j] => i = j
  BY <1>0, <1>4, LogsAreSequences DEF ChangersOf, KeptOf
<1>7. Cardinality(T) = Cardinality(I) /\ IsFiniteSet(T)
  <2>1. DOMAIN f = I
    BY <1>4
  <2> HIDE DEF I, T
  <2> QED BY <1>2, <1>5, <1>6, <2>1, SameCount
<1>8. /\ p \in DOMAIN file_churn(dd) <=> \E s \in Touches(dd) : s[2] = p
      /\ p \in DOMAIN file_churn(dd) => file_churn(dd)[p] = Cardinality(T)
  BY DEF file_churn
<1>9. CASE p \in DOMAIN file_churn(dd)
  BY <1>2, <1>7, <1>8, <1>9
<1>10. CASE p \notin DOMAIN file_churn(dd)
  <2>1. T = {}
    BY <1>8, <1>10
  <2>2. Cardinality(T) = 0
    BY <2>1, FS_EmptySet
  <2> QED BY <1>2, <1>7, <1>10, <2>2
<1> QED BY <1>9, <1>10

--------------------------------------------------------------------------------
(* Pairs. *)

\* The paths of the index whose files a commit changed.
PathsOf(lg, own, i) == {p \in DOMAIN own : own[p] \in FilesOf(lg[i])}

\* A commit as `co_changed_pairs` gets it.
Counts(lg, dd, own, i) ==
  [sha |-> lg[i].sha, at |-> dd.commits[lg[i].sha].at, files |-> PathsOf(lg, own, i)]
SetsOf(lg, dd, own) == {Counts(lg, dd, own, i) : i \in KeptOf(lg, dd)}

LEMMA TouchedPaths ==
  ASSUME NEW lg, NEW t, NEW dd, NEW own, NEW k, IsSettled(lg, t, dd, own, k), NEW i \in KeptOf(lg, dd)
  PROVE  {u[2] : u \in {v \in Touches(dd) : v[1] = lg[i].sha}} \cap DOMAIN own = PathsOf(lg, own, i)
<1>0. \A a, b \in KeptOf(lg, dd) : lg[a].sha = lg[b].sha => a = b
  BY LogsAreSequences DEF IsSettled, KeptOf
<1>1. \A s \in Touches(dd) : s = <<s[1], s[2]>>
  BY TouchesArePairs
<1> DEFINE U == {u[2] : u \in {v \in Touches(dd) : v[1] = lg[i].sha}}
<1>2. ASSUME NEW p \in DOMAIN own PROVE p \in U <=> p \in PathsOf(lg, own, i)
  <2>1. p \in U <=> <<lg[i].sha, p>> \in Touches(dd)
    BY <1>1
  <2>2. <<lg[i].sha, p>> \in Touches(dd) <=> own[p] \in FilesOf(lg[i])
    BY <1>0, TouchesAre
  <2> HIDE DEF U
  <2> QED BY <2>1, <2>2 DEF PathsOf
<1>3. PathsOf(lg, own, i) \subseteq DOMAIN own
  BY DEF PathsOf
<1> QED BY <1>2, <1>3

ShasOf(dd) == {s[1] : s \in Touches(dd)}

LEMMA CommitsTouch ==
  ASSUME NEW lg, NEW t, NEW dd, NEW own, NEW k, IsSettled(lg, t, dd, own, k), NEW sha
  PROVE  sha \in ShasOf(dd) <=> \E i \in KeptOf(lg, dd) : sha = lg[i].sha
<1>0. IsLog(lg, t) /\ RowsFit(lg, dd) /\ RowsAreOfLog(lg, dd)
  BY DEF IsSettled
<1>1. sha \in ShasOf(dd) <=> \E row \in dd.changes : row.commit = sha
  BY TouchesArePairs DEF ShasOf
<1>2. \A row \in dd.changes : \E i \in 1 .. Len(lg) : row.commit = lg[i].sha
  BY <1>0 DEF RowsAreOfLog
<1> QED BY <1>1, <1>2 DEF KeptOf, IsKept

LEMMA SetsAre ==
  ASSUME NEW lg, NEW t, NEW dd, NEW own, NEW k, IsSettled(lg, t, dd, own, k)
  PROVE  {[c EXCEPT !.files = @ \cap DOMAIN own] : c \in commit_file_sets(dd)} = SetsOf(lg, dd, own)
<1> DEFINE paths(sha) == {u[2] : u \in {v \in Touches(dd) : v[1] = sha}}
           row(sha) == [sha |-> sha, at |-> dd.commits[sha].at, files |-> paths(sha)]
           cut(sha) == [sha |-> sha, at |-> dd.commits[sha].at, files |-> paths(sha) \cap DOMAIN own]
           shas == ShasOf(dd)
<1>1. commit_file_sets(dd) = {row(sha) : sha \in shas}
  BY DEF commit_file_sets, ShasOf
<1>2. \A sha : [row(sha) EXCEPT !.files = @ \cap DOMAIN own] = cut(sha)
  <2> HIDE DEF paths
  <2> QED OBVIOUS
<1>3. {[c EXCEPT !.files = @ \cap DOMAIN own] : c \in commit_file_sets(dd)} = {cut(sha) : sha \in shas}
  <2> HIDE DEF shas, cut, row
  <2> QED BY <1>1, <1>2
<1>4. \A sha : sha \in shas <=> \E i \in KeptOf(lg, dd) : sha = lg[i].sha
  BY CommitsTouch
<1>5. \A i \in KeptOf(lg, dd) : cut(lg[i].sha) = Counts(lg, dd, own, i)
  BY TouchedPaths DEF Counts
<1>6. {cut(sha) : sha \in shas} = SetsOf(lg, dd, own)
  <2> HIDE DEF shas, cut
  <2> QED BY <1>4, <1>5 DEF SetsOf
<1> QED BY <1>3, <1>6

LEMMA FieldsOfCounts ==
  ASSUME NEW lg, NEW dd, NEW own, NEW i
  PROVE  Counts(lg, dd, own, i).sha = lg[i].sha /\ Counts(lg, dd, own, i).files = PathsOf(lg, own, i)
BY DEF Counts

\* How many of the commits, as `co_changed_pairs` gets them.
LEMMA CountOfSets ==
  ASSUME NEW lg, NEW t, NEW dd, NEW own, IsLog(lg, t), NEW I, I \subseteq KeptOf(lg, dd), NEW C,
         \A c : c \in C <=> \E i \in I : c = Counts(lg, dd, own, i)
  PROVE  Cardinality(C) = Cardinality(I)
<1>1. IsFiniteSet(I)
  BY StoredAre, FS_Subset
<1>2. PICK f : f = [i \in I |-> Counts(lg, dd, own, i)]
  OBVIOUS
<1>3. \A i, j \in I : f[i] = f[j] => i = j
  <2> SUFFICES ASSUME NEW i \in I, NEW j \in I, f[i] = f[j] PROVE i = j
    OBVIOUS
  <2>1. lg[i].sha = lg[j].sha
    BY <1>2, FieldsOfCounts
  <2> QED BY <2>1, LogsAreSequences DEF KeptOf
<1>4. C = {f[i] : i \in I} /\ DOMAIN f = I
  BY <1>2
<1> QED BY <1>1, <1>3, <1>4, SameCount

--------------------------------------------------------------------------------
(* Pairs of files. *)

\* The commits that count, with all files of S.
CountedWith(commits, S) == {c \in Counted(commits) : S \subseteq c.files}
TimesWith(commits, S) == Cardinality(CountedWith(commits, S))

\* Often enough, in a large enough share, and more often than by chance.
IsStrong(n, a, b, all) ==
  /\ n >= MinSupport
  /\ 100 * n >= MinJaccard * (a + b - n)
  /\ n * all > a * b

StrongIn(commits, pair) ==
  \A f, g \in pair : f # g =>
    IsStrong(TimesWith(commits, pair), TimesWith(commits, {f}), TimesWith(commits, {g}),
             Cardinality(Counted(commits)))

Pairs(commits) == UNION {kSubset(2, c.files) : c \in Counted(commits)}
EvidenceOf(commits, pair) ==
  {c.sha : c \in {d \in CountedWith(commits, pair) :
     Cardinality({e \in CountedWith(commits, pair) : e.at > d.at}) < MaxEvidence}}

\* What is reported of a pair, and of which pairs.
PairOf(commits, pair) ==
  [pair |-> pair, support |-> TimesWith(commits, pair), of |-> [f \in pair |-> TimesWith(commits, {f})],
   commits |-> EvidenceOf(commits, pair)]

LEMMA CoChangesAre ==
  ASSUME NEW commits
  PROVE  co_changed_pairs(commits) = {PairOf(commits, p) : p \in {q \in Pairs(commits) : StrongIn(commits, q)}}
BY DEF co_changed_pairs, PairOf, Pairs, StrongIn, IsStrong, TimesWith, CountedWith, EvidenceOf

LEMMA FieldsOfPair ==
  ASSUME NEW commits, NEW pair
  PROVE  PairOf(commits, pair).pair = pair /\ PairOf(commits, pair).commits = EvidenceOf(commits, pair)
BY DEF PairOf

\* The commits of a log that say something about pairs of files of an index.
WindowOf(lg, dd, own) == {i \in KeptOf(lg, dd) : Cardinality(PathsOf(lg, own, i)) \in 2 .. MaxCommitFiles}
WindowWith(lg, dd, own, S) == {i \in WindowOf(lg, dd, own) : S \subseteq PathsOf(lg, own, i)}
StoredWindow(lg, dd, own) ==
  {c \in StoredOf(lg, dd) : Cardinality(TouchedBy(c, own)) \in 2 .. MaxCommitFiles}

LEMMA CountedAre ==
  ASSUME NEW lg, NEW dd, NEW own, NEW S, NEW c
  PROVE  c \in CountedWith(SetsOf(lg, dd, own), S) <=>
           \E i \in WindowWith(lg, dd, own, S) : c = Counts(lg, dd, own, i)
<1>1. c \in SetsOf(lg, dd, own) <=> \E i \in KeptOf(lg, dd) : c = Counts(lg, dd, own, i)
  BY DEF SetsOf
<1>2. \A i : Counts(lg, dd, own, i).files = PathsOf(lg, own, i)
  BY FieldsOfCounts
<1> QED BY <1>1, <1>2 DEF CountedWith, Counted, WindowWith, WindowOf

LEMMA TimesAre ==
  ASSUME NEW lg, NEW t, NEW dd, NEW own, IsLog(lg, t), NEW S
  PROVE  /\ TimesWith(SetsOf(lg, dd, own), S) = Cardinality(WindowWith(lg, dd, own, S))
         /\ Cardinality(WindowWith(lg, dd, own, S)) \in Nat
<1> DEFINE I == WindowWith(lg, dd, own, S)
           C == CountedWith(SetsOf(lg, dd, own), S)
<1>1. I \subseteq KeptOf(lg, dd)
  BY DEF WindowWith, WindowOf
<1>2. \A c : c \in C <=> \E i \in I : c = Counts(lg, dd, own, i)
  BY CountedAre
<1>3. Cardinality(C) = Cardinality(I)
  <2> HIDE DEF I, C
  <2> QED BY <1>1, <1>2, CountOfSets
<1>4. IsFiniteSet(KeptOf(lg, dd))
  BY StoredAre
<1>5. IsFiniteSet(I)
  BY <1>1, <1>4, FS_Subset
<1> QED BY <1>3, <1>5, FS_CardinalityType DEF TimesWith

LEMMA WindowTimes ==
  ASSUME NEW lg, NEW t, NEW dd, NEW own, IsLog(lg, t)
  PROVE  Cardinality(Counted(SetsOf(lg, dd, own))) = Cardinality(WindowOf(lg, dd, own))
<1>1. CountedWith(SetsOf(lg, dd, own), {}) = Counted(SetsOf(lg, dd, own))
  BY DEF CountedWith
<1>2. WindowWith(lg, dd, own, {}) = WindowOf(lg, dd, own)
  BY DEF WindowWith
<1> QED BY <1>1, <1>2, TimesAre DEF TimesWith

\* No two paths of an index have the same file.
LEMMA FilesAreDistinct ==
  ASSUME NEW lg, NEW t, NEW dd, NEW own, NEW k, IsSettled(lg, t, dd, own, k),
         NEW p \in DOMAIN own, NEW q \in DOMAIN own, own[p] = own[q]
  PROVE  p = q
<1>1. IsHistory(ChangesOf(lg), Len(lg)) /\ k \in 0 .. Len(lg)
  BY LogsAreSequences DEF IsSettled, IsLog, IsIndexOf
<1>2. LastAt(ChangesOf(lg), own[p], p, k) /\ LastAt(ChangesOf(lg), own[p], q, k)
  BY DEF IsSettled, IsIndexOf
<1> QED BY <1>1, <1>2, LastIsUnique

\* A commit touches as many files of the index as paths.
LEMMA TouchedAre ==
  ASSUME NEW lg, NEW t, NEW dd, NEW own, NEW k, IsSettled(lg, t, dd, own, k), NEW i
  PROVE  /\ IsFiniteSet(PathsOf(lg, own, i))
         /\ Cardinality(TouchedBy(lg[i], own)) = Cardinality(PathsOf(lg, own, i))
<1>1. PathsOf(lg, own, i) \in SUBSET Paths
  BY DEF PathsOf, IsSettled, IsIndexOf
<1>2. IsFiniteSet(PathsOf(lg, own, i))
  BY <1>1, PathsAreNumbers, FS_Subset
<1>3. PICK f : f = [p \in PathsOf(lg, own, i) |-> own[p]]
  OBVIOUS
<1>4. \A p, q \in PathsOf(lg, own, i) : f[p] = f[q] => p = q
  BY <1>3, FilesAreDistinct DEF PathsOf
<1>5. TouchedBy(lg[i], own) = {f[p] : p \in PathsOf(lg, own, i)}
  BY <1>3 DEF TouchedBy, PathsOf
<1>6. DOMAIN f = PathsOf(lg, own, i)
  BY <1>3
<1>7. Cardinality({f[p] : p \in PathsOf(lg, own, i)}) = Cardinality(PathsOf(lg, own, i))
  BY <1>2, <1>4, <1>6, SameCount
<1> QED BY <1>2, <1>5, <1>7

LEMMA WindowIsStored ==
  ASSUME NEW lg, NEW t, NEW dd, NEW own, NEW k, IsSettled(lg, t, dd, own, k), NEW c
  PROVE  c \in StoredWindow(lg, dd, own) <=> \E i \in WindowOf(lg, dd, own) : c = lg[i]
<1>1. c \in StoredOf(lg, dd) <=> \E i \in KeptOf(lg, dd) : c = lg[i]
  BY StoredMembers DEF IsSettled
<1>2. \A i \in KeptOf(lg, dd) : Cardinality(TouchedBy(lg[i], own)) = Cardinality(PathsOf(lg, own, i))
  BY TouchedAre
<1> QED BY <1>1, <1>2 DEF StoredWindow, WindowOf

\* The counts of the stored commits are those that the pairs are made of.
LEMMA StoredTimes ==
  ASSUME NEW lg, NEW t, NEW dd, NEW own, NEW k, IsSettled(lg, t, dd, own, k),
         NEW S, S \subseteq DOMAIN own
  PROVE  Cardinality({c \in StoredWindow(lg, dd, own) : \A p \in S : own[p] \in FilesOf(c)})
           = Cardinality(WindowWith(lg, dd, own, S))
<1> DEFINE I == WindowWith(lg, dd, own, S)
           C == {c \in StoredWindow(lg, dd, own) : \A p \in S : own[p] \in FilesOf(c)}
<1>1. I \subseteq KeptOf(lg, dd)
  BY DEF WindowWith, WindowOf
<1>2. \A c : c \in C <=> \E i \in I : c = lg[i]
  <2>1. \A c : c \in StoredWindow(lg, dd, own) <=> \E i \in WindowOf(lg, dd, own) : c = lg[i]
    BY WindowIsStored
  <2>2. \A i : S \subseteq PathsOf(lg, own, i) <=> \A p \in S : own[p] \in FilesOf(lg[i])
    BY DEF PathsOf
  <2> QED BY <2>1, <2>2 DEF WindowWith
<1>3. IsLog(lg, t)
  BY DEF IsSettled
<1>4. Cardinality(C) = Cardinality(I)
  <2> HIDE DEF C, I
  <2> QED BY <1>1, <1>2, <1>3, CountOfStored
<1> QED BY <1>4

LEMMA AllStoredTimes ==
  ASSUME NEW lg, NEW t, NEW dd, NEW own, NEW k, IsSettled(lg, t, dd, own, k)
  PROVE  Cardinality(StoredWindow(lg, dd, own)) = Cardinality(WindowOf(lg, dd, own))
<1>1. WindowOf(lg, dd, own) \subseteq KeptOf(lg, dd) /\ IsLog(lg, t)
  BY DEF WindowOf, IsSettled
<1>2. \A c : c \in StoredWindow(lg, dd, own) <=> \E i \in WindowOf(lg, dd, own) : c = lg[i]
  BY WindowIsStored
<1> QED BY <1>1, <1>2, CountOfStored

\* The stored commits that changed all these files and say something about pairs.
Together(lg, dd, own, fs) == {c \in StoredWindow(lg, dd, own) : fs \subseteq FilesOf(c)}

LEMMA TogetherAre ==
  ASSUME NEW lg, NEW t, NEW dd, NEW own, NEW k, IsSettled(lg, t, dd, own, k),
         NEW p \in DOMAIN own, NEW q \in DOMAIN own
  PROVE  /\ Cardinality(Together(lg, dd, own, {own[p], own[q]})) = TimesWith(SetsOf(lg, dd, own), {p, q})
         /\ TimesWith(SetsOf(lg, dd, own), {p, q}) = Cardinality(WindowWith(lg, dd, own, {p, q}))
         /\ TimesWith(SetsOf(lg, dd, own), {p, q}) \in Nat
<1>1. IsLog(lg, t)
  BY DEF IsSettled
<1>2. Together(lg, dd, own, {own[p], own[q]})
        = {c \in StoredWindow(lg, dd, own) : \A r \in {p, q} : own[r] \in FilesOf(c)}
  BY DEF Together
<1>3. {p, q} \subseteq DOMAIN own
  OBVIOUS
<1>4. Cardinality({c \in StoredWindow(lg, dd, own) : \A r \in {p, q} : own[r] \in FilesOf(c)})
        = Cardinality(WindowWith(lg, dd, own, {p, q}))
  BY <1>3, StoredTimes
<1>5. /\ TimesWith(SetsOf(lg, dd, own), {p, q}) = Cardinality(WindowWith(lg, dd, own, {p, q}))
      /\ Cardinality(WindowWith(lg, dd, own, {p, q})) \in Nat
  <2>1. ASSUME NEW S
        PROVE  /\ TimesWith(SetsOf(lg, dd, own), S) = Cardinality(WindowWith(lg, dd, own, S))
               /\ Cardinality(WindowWith(lg, dd, own, S)) \in Nat
    BY <1>1, TimesAre
  <2> QED BY <2>1
<1>6. Cardinality(Together(lg, dd, own, {own[p], own[q]})) = Cardinality(WindowWith(lg, dd, own, {p, q}))
  BY <1>2, <1>4
<1> QED BY <1>5, <1>6

LEMMA TogetherIsNumber ==
  ASSUME NEW lg, NEW t, NEW dd, NEW own, NEW k, IsSettled(lg, t, dd, own, k),
         NEW p \in DOMAIN own, NEW q \in DOMAIN own
  PROVE  Cardinality(Together(lg, dd, own, {own[p], own[q]})) \in Nat
<1>1. TimesWith(SetsOf(lg, dd, own), {p, q}) \in Nat
  BY TogetherAre
<1>2. Cardinality(Together(lg, dd, own, {own[p], own[q]})) = TimesWith(SetsOf(lg, dd, own), {p, q})
  BY TogetherAre
<1> HIDE DEF Together, TimesWith
<1> QED BY <1>1, <1>2

\* The reported pairs.
LEMMA ReportedPairs ==
  ASSUME NEW commits, NEW pair
  PROVE  pair \in {x.pair : x \in co_changed_pairs(commits)} <=>
           pair \in Pairs(commits) /\ StrongIn(commits, pair)
<1>1. co_changed_pairs(commits) = {PairOf(commits, p) : p \in {q \in Pairs(commits) : StrongIn(commits, q)}}
  BY CoChangesAre
<1>2. \A p : PairOf(commits, p).pair = p
  BY FieldsOfPair
<1> QED BY <1>1, <1>2

\* Of a pair one file is as good as the other.
LEMMA StrongPairs ==
  ASSUME NEW commits, NEW p, NEW q, p # q,
         TimesWith(commits, {p, q}) \in Nat, TimesWith(commits, {p}) \in Nat, TimesWith(commits, {q}) \in Nat
  PROVE  StrongIn(commits, {p, q}) <=>
           IsStrong(TimesWith(commits, {p, q}), TimesWith(commits, {p}), TimesWith(commits, {q}),
                    Cardinality(Counted(commits)))
<1>1. \A n, a, b \in Nat : a + b - n = b + a - n /\ a * b = b * a
  OBVIOUS
<1>2. \A n, a, b \in Nat : \A all : IsStrong(n, a, b, all) <=> IsStrong(n, b, a, all)
  BY <1>1 DEF IsStrong
<1>3. StrongIn(commits, {p, q}) <=>
        /\ IsStrong(TimesWith(commits, {p, q}), TimesWith(commits, {p}), TimesWith(commits, {q}),
                    Cardinality(Counted(commits)))
        /\ IsStrong(TimesWith(commits, {p, q}), TimesWith(commits, {q}), TimesWith(commits, {p}),
                    Cardinality(Counted(commits)))
  BY DEF StrongIn
<1> QED BY <1>2, <1>3

\* A pair that is changed together at all is one of the pairs of some commit.
LEMMA PairsAreFound ==
  ASSUME NEW lg, NEW t, NEW dd, NEW own, NEW k, IsSettled(lg, t, dd, own, k),
         NEW p \in DOMAIN own, NEW q \in DOMAIN own, p # q,
         TimesWith(SetsOf(lg, dd, own), {p, q}) >= 1
  PROVE  {p, q} \in Pairs(SetsOf(lg, dd, own))
<1>1. WindowWith(lg, dd, own, {p, q}) # {}
  <2> SUFFICES ASSUME WindowWith(lg, dd, own, {p, q}) = {} PROVE FALSE
    OBVIOUS
  <2>1. Cardinality(WindowWith(lg, dd, own, {p, q})) = 0
    BY FS_EmptySet
  <2>2. TimesWith(SetsOf(lg, dd, own), {p, q}) = Cardinality(WindowWith(lg, dd, own, {p, q}))
    <3> PICK S : S = {p, q}
      OBVIOUS
    <3>1. IsLog(lg, t)
      BY DEF IsSettled
    <3>2. TimesWith(SetsOf(lg, dd, own), S) = Cardinality(WindowWith(lg, dd, own, S))
      BY <3>1, TimesAre
    <3> QED BY <3>2
  <2>3. TimesWith(SetsOf(lg, dd, own), {p, q}) = 0
    BY <2>1, <2>2
  <2> HIDE DEF TimesWith
  <2> QED BY <2>3
<1>2. PICK i : i \in WindowWith(lg, dd, own, {p, q})
  BY <1>1
<1>3. Counts(lg, dd, own, i) \in CountedWith(SetsOf(lg, dd, own), {p, q})
  BY <1>2, CountedAre
<1>4. PICK c \in Counted(SetsOf(lg, dd, own)) : {p, q} \subseteq c.files
  BY <1>3 DEF CountedWith
<1>5. Cardinality({p, q}) = 2
  <2>1. IsFiniteSet({p}) /\ Cardinality({p}) = 1
    BY FS_Singleton
  <2>2. {p, q} = {p} \cup {q}
    OBVIOUS
  <2>3. IsFiniteSet({q}) /\ Cardinality({q}) = 1 /\ {p} \cap {q} = {} /\ Cardinality({}) = 0
    BY FS_Singleton, FS_EmptySet
  <2>4. Cardinality({p} \cup {q}) = Cardinality({p}) + Cardinality({q}) - Cardinality({p} \cap {q})
    BY <2>1, <2>3, FS_Union
  <2> QED BY <2>1, <2>2, <2>3, <2>4
<1> QED BY <1>4, <1>5 DEF Pairs, kSubset

LEMMA PairsAreCoupled ==
  ASSUME NEW lg, NEW t, NEW dd, NEW own, NEW k, IsSettled(lg, t, dd, own, k),
         dd.co_changes = coupling_of(dd, DOMAIN own),
         NEW p \in DOMAIN own, NEW q \in DOMAIN own, p # q
  PROVE  {p, q} \in {x.pair : x \in dd.co_changes} <=>
           IsStrong(Cardinality(Together(lg, dd, own, {own[p], own[q]})),
                    Cardinality(Together(lg, dd, own, {own[p]})), Cardinality(Together(lg, dd, own, {own[q]})),
                    Cardinality(StoredWindow(lg, dd, own)))
<1> DEFINE S == SetsOf(lg, dd, own)
<1>1. dd.co_changes = co_changed_pairs(S)
  BY SetsAre DEF coupling_of
<1>2. {p, q} \in {x.pair : x \in dd.co_changes} <=> {p, q} \in Pairs(S) /\ StrongIn(S, {p, q})
  BY <1>1, ReportedPairs
<1>3. /\ Cardinality(Together(lg, dd, own, {own[p], own[q]})) = TimesWith(S, {p, q})
      /\ TimesWith(S, {p, q}) \in Nat
  BY TogetherAre
<1>4. /\ Cardinality(Together(lg, dd, own, {own[p]})) = TimesWith(S, {p}) /\ TimesWith(S, {p}) \in Nat
      /\ Cardinality(Together(lg, dd, own, {own[q]})) = TimesWith(S, {q}) /\ TimesWith(S, {q}) \in Nat
  <2>1. \A x : {x, x} = {x}
    OBVIOUS
  <2>2. /\ Cardinality(Together(lg, dd, own, {own[p], own[p]})) = TimesWith(S, {p, p}) /\ TimesWith(S, {p, p}) \in Nat
        /\ Cardinality(Together(lg, dd, own, {own[q], own[q]})) = TimesWith(S, {q, q}) /\ TimesWith(S, {q, q}) \in Nat
    BY TogetherAre
  <2> HIDE DEF S
  <2> QED BY <2>1, <2>2
<1>5. Cardinality(StoredWindow(lg, dd, own)) = Cardinality(Counted(S))
  BY AllStoredTimes, WindowTimes DEF IsSettled
<1>6. StrongIn(S, {p, q}) <=>
        IsStrong(TimesWith(S, {p, q}), TimesWith(S, {p}), TimesWith(S, {q}), Cardinality(Counted(S)))
  <2> HIDE DEF S
  <2> QED BY <1>3, <1>4, StrongPairs
<1>7. StrongIn(S, {p, q}) => {p, q} \in Pairs(S)
  <2> SUFFICES ASSUME StrongIn(S, {p, q}) PROVE {p, q} \in Pairs(S)
    OBVIOUS
  <2>1. TimesWith(S, {p, q}) >= MinSupport
    <3> HIDE DEF S
    <3> QED BY <1>6 DEF IsStrong
  <2>2. TimesWith(S, {p, q}) >= 1
    <3> HIDE DEF S
    <3> QED BY <2>1, <1>3, HistoryBounds
  <2> QED BY <2>2, PairsAreFound
<1> HIDE DEF S
<1> QED BY <1>2, <1>3, <1>4, <1>5, <1>6, <1>7

\* What is named as evidence of a pair are stored commits that changed both files.
LEMMA EvidenceIsStored ==
  ASSUME NEW lg, NEW t, NEW dd, NEW own, NEW k, IsSettled(lg, t, dd, own, k),
         dd.co_changes = coupling_of(dd, DOMAIN own),
         NEW x \in dd.co_changes, NEW sha \in x.commits, NEW p \in x.pair
  PROVE  \E c \in StoredOf(lg, dd) : c.sha = sha /\ own[p] \in FilesOf(c)
<1> DEFINE S == SetsOf(lg, dd, own)
<1>0. IsLog(lg, t)
  BY DEF IsSettled
<1>1. dd.co_changes = co_changed_pairs(S)
  BY SetsAre DEF coupling_of
<1>2. PICK pair : x = PairOf(S, pair)
  BY <1>1, CoChangesAre
<1>3. x.pair = pair /\ x.commits = EvidenceOf(S, pair)
  BY <1>2, FieldsOfPair
<1>4. PICK c \in CountedWith(S, pair) : c.sha = sha
  BY <1>3 DEF EvidenceOf
<1>5. PICK i \in WindowWith(lg, dd, own, pair) : c = Counts(lg, dd, own, i)
  BY <1>4, CountedAre
<1>6. lg[i].sha = sha
  BY <1>4, <1>5, FieldsOfCounts
<1>7. i \in KeptOf(lg, dd) /\ own[p] \in FilesOf(lg[i])
  BY <1>3, <1>5 DEF WindowWith, WindowOf, PathsOf
<1>8. lg[i] \in StoredOf(lg, dd)
  BY <1>0, <1>7, StoredMembers
<1> QED BY <1>6, <1>7, <1>8

--------------------------------------------------------------------------------
(* The branch, commit by commit. *)

\* Files are known by when they were created, which was not later than this.
FilesUpTo(lg, t) ==
  \A i \in 1 .. Len(lg) : \A d \in lg[i].changes : d.file \in Nat \X Paths /\ d.file[1] <= t

\* Where the files are after the last commit.
IsOwner(own, lg) ==
  \A p \in DOMAIN own : p \in Paths /\ LastAt(ChangesOf(lg), own[p], p, Len(lg))

IsBranch(lg, t, own) ==
  /\ IsLog(lg, t) /\ FilesUpTo(lg, t) /\ IsOwner(own, lg)
  /\ lg[Len(lg)].sha = t /\ lg[Len(lg)].at = t

LEMMA SeqOfItsItems ==
  ASSUME NEW S, NEW s \in Seq(S)
  PROVE  s \in Seq(Range(s))
BY DEF Range

LEMMA SameLast ==
  ASSUME NEW ch, NEW e, NEW n \in Nat, \A m \in 1 .. n : ch[m] = e[m], NEW i \in 0 .. n, NEW f, NEW x
  PROVE  LastAt(ch, f, x, i) <=> LastAt(e, f, x, i)
<1>1. 1 .. i \subseteq 1 .. n /\ \A j \in 1 .. i : j + 1 .. i \subseteq 1 .. n
  OBVIOUS
<1> QED BY <1>1 DEF LastAt

LEMMA AppendedLog ==
  ASSUME NEW lg, NEW t, IsLog(lg, t), NEW c
  PROVE  /\ Append(lg, c) \in Seq(Range(Append(lg, c))) /\ Append(lg, c) # <<>>
         /\ Len(lg) \in Nat /\ Len(Append(lg, c)) = Len(lg) + 1
         /\ \A i \in 1 .. Len(lg) : Append(lg, c)[i] = lg[i]
         /\ Append(lg, c)[Len(lg) + 1] = c
<1>1. lg \in Seq(Range(lg) \cup {c})
  BY DEF IsLog
<1>2. Append(lg, c) \in Seq(Range(lg) \cup {c})
  BY <1>1
<1>3. Append(lg, c) \in Seq(Range(Append(lg, c)))
  BY <1>2, SeqOfItsItems
<1> QED BY <1>1, <1>2, <1>3

\* The changes of a new commit.
IsNext(changes, own, lg, t) ==
  /\ changes # {}
  /\ \A d \in changes : d.path \in Paths /\ d.from \in Paths \cup {NoPath} /\ d.from # d.path
  /\ \A d, e \in changes : d.file = e.file => d = e
  /\ \A d \in changes : \/ \E p \in DOMAIN own :
                             d.file = own[p] /\ (d.from = p \/ (d.from = NoPath /\ d.path = p))
                        \/ d.from = NoPath /\ d.file = <<t + 1, d.path>>

LEMMA NewLog ==
  ASSUME NEW lg, NEW t, NEW own, IsBranch(lg, t, own), NEW changes, NEW message,
         IsNext(changes, own, lg, t)
  PROVE  LET new == Append(lg, CommitAt(t + 1, changes, message))
         IN  IsLog(new, t + 1) /\ FilesUpTo(new, t + 1) /\ new[Len(new)].sha = t + 1 /\ new[Len(new)].at = t + 1
<1> DEFINE c == CommitAt(t + 1, changes, message)
           new == Append(lg, c)
<1>0. PICK n \in Nat : n = Len(lg)
  BY LogsAreSequences DEF IsBranch
<1>1. /\ new \in Seq(Range(new)) /\ new # <<>> /\ Len(new) = n + 1
      /\ \A i \in 1 .. n : new[i] = lg[i]
      /\ new[n + 1] = c
  <2> HIDE DEF c
  <2> QED BY <1>0, AppendedLog DEF IsBranch
<1>2. c.sha = t + 1 /\ c.at = t + 1 /\ c.changes = changes
  BY DEF CommitAt
<1> HIDE DEF c, new
<1>3. IsLog(lg, t) /\ t \in Nat /\ FilesUpTo(lg, t) /\ IsOwner(own, lg)
  BY DEF IsBranch, IsLog
<1>4. \A i \in 1 .. n + 1 : i \in 1 .. n \/ i = n + 1
  OBVIOUS
<1>5. \A i \in 1 .. n + 1 : new[i].sha \in Nat /\ new[i].sha <= t + 1
  BY <1>0, <1>1, <1>2, <1>3, <1>4 DEF IsLog
<1>6. ASSUME NEW i \in 1 .. n + 1, NEW j \in 1 .. n + 1, i < j PROVE new[i].sha < new[j].sha
  <2>1. i \in 1 .. n /\ lg[i].sha \in Nat /\ lg[i].sha <= t
    BY <1>0, <1>3, <1>6 DEF IsLog
  <2>2. CASE j = n + 1
    BY <1>1, <1>2, <1>3, <2>1, <2>2
  <2>3. CASE j \in 1 .. n
    BY <1>0, <1>1, <1>3, <1>6, <2>1, <2>3 DEF IsLog
  <2> QED BY <1>4, <2>2, <2>3
<1>7. PICK ch : ch = ChangesOf(new)
  OBVIOUS
<1>8. PICK old : old = ChangesOf(lg)
  OBVIOUS
<1>9. /\ \A i \in 1 .. n : ch[i] = old[i] /\ ch[i] = lg[i].changes
      /\ ch[n + 1] = changes
  BY <1>0, <1>1, <1>2, <1>7, <1>8 DEF ChangesOf
<1>10. IsHistory(old, n)
  BY <1>0, <1>3, <1>8 DEF IsLog
<1>11. ASSUME NEW i \in 0 .. n, NEW f, NEW x PROVE LastAt(ch, f, x, i) <=> LastAt(old, f, x, i)
  BY <1>9, SameLast
<1>12. ASSUME NEW d \in changes PROVE Continues(ch, d, n + 1)
  <2>0. (n + 1) - 1 = n /\ n \in 0 .. n /\ NoPath \notin Paths
    BY PathsAreNumbers
  <2>1. CASE \E p \in DOMAIN own : d.file = own[p] /\ (d.from = p \/ (d.from = NoPath /\ d.path = p))
    <3>1. PICK p \in DOMAIN own : d.file = own[p] /\ (d.from = p \/ (d.from = NoPath /\ d.path = p))
      BY <2>1
    <3>2. p \in Paths /\ LastAt(old, own[p], p, n)
      BY <1>0, <1>3, <1>8 DEF IsOwner
    <3>3. LastAt(ch, own[p], p, n)
      BY <1>11, <2>0, <3>2
    <3> QED BY <2>0, <3>1, <3>2, <3>3 DEF Continues
  <2>2. CASE d.from = NoPath /\ d.file = <<t + 1, d.path>>
    <3>1. ASSUME NEW i \in 1 .. n, NEW e \in ch[i] PROVE e.file # d.file
      <4>1. e.file[1] <= t /\ e.file \in Nat \X Paths
        BY <1>0, <1>3, <1>9, <3>1 DEF FilesUpTo
      <4>2. d.file[1] = t + 1
        BY <2>2
      <4> QED BY <1>3, <4>1, <4>2
    <3> QED BY <2>0, <2>2, <3>1 DEF Continues
  <2> QED BY <2>1, <2>2 DEF IsNext
<1>13. ASSUME NEW j \in 1 .. n, NEW d \in ch[j] PROVE Continues(ch, d, j)
  <2>1. Continues(old, d, j) /\ j - 1 \in 0 .. n /\ \A i \in 1 .. j - 1 : i \in 1 .. n
    BY <1>9, <1>10 DEF IsHistory
  <2> QED BY <1>9, <1>11, <2>1 DEF Continues
<1>14. IsHistory(ch, n + 1)
  <2>1. ASSUME NEW j \in 1 .. n + 1
        PROVE  /\ ch[j] # {}
               /\ \A d \in ch[j] : d.path \in Paths /\ d.from \in Paths \cup {NoPath} /\ d.from # d.path
               /\ \A d, e \in ch[j] : d.file = e.file => d = e
               /\ \A d \in ch[j] : Continues(ch, d, j)
    <3>1. CASE j = n + 1
      BY <1>9, <1>12, <3>1 DEF IsNext
    <3>2. CASE j \in 1 .. n
      <4>1. /\ old[j] # {}
            /\ \A d \in old[j] : d.path \in Paths /\ d.from \in Paths \cup {NoPath} /\ d.from # d.path
            /\ \A d, e \in old[j] : d.file = e.file => d = e
        BY <1>10, <3>2 DEF IsHistory
      <4>2. ch[j] = old[j]
        BY <1>9, <3>2
      <4> QED BY <1>13, <3>2, <4>1, <4>2
    <3> QED BY <1>4, <3>1, <3>2
  <2> QED BY <2>1 DEF IsHistory
<1>15. IsLog(new, t + 1)
  <2>1. t + 1 \in Nat /\ new # <<>> /\ new \in Seq(Range(new))
    BY <1>1, <1>3
  <2>2. \A i \in 1 .. Len(new) : new[i].sha \in Nat /\ new[i].sha <= t + 1
    BY <1>1, <1>5
  <2>3. \A i, j \in 1 .. Len(new) : i < j => new[i].sha < new[j].sha
    BY <1>1, <1>6
  <2>4. IsHistory(ChangesOf(new), Len(new))
    BY <1>1, <1>7, <1>14
  <2> QED BY <2>1, <2>2, <2>3, <2>4 DEF IsLog
<1>16. FilesUpTo(new, t + 1)
  <2> SUFFICES ASSUME NEW i \in 1 .. n + 1, NEW d \in new[i].changes
               PROVE  d.file \in Nat \X Paths /\ d.file[1] <= t + 1
    BY <1>1 DEF FilesUpTo
  <2>0. \A m \in 1 .. n : \A e \in lg[m].changes : e.file \in Nat \X Paths /\ e.file[1] <= t + 1
    <3>1. ASSUME NEW m \in 1 .. n, NEW e \in lg[m].changes PROVE e.file \in Nat \X Paths /\ e.file[1] <= t
      BY <1>0, <1>3 DEF FilesUpTo
    <3>2. ASSUME NEW f \in Nat \X Paths, f[1] <= t PROVE f[1] <= t + 1
      <4>1. f[1] \in Nat
        BY <3>2
      <4> QED BY <1>3, <3>2, <4>1
    <3> QED BY <3>1, <3>2
  <2>1. CASE i \in 1 .. n
    BY <1>1, <2>0, <2>1
  <2>2. CASE i = n + 1
    <3>1. d \in changes
      BY <1>1, <1>2, <2>2
    <3>2. CASE \E p \in DOMAIN own : d.file = own[p] /\ (d.from = p \/ (d.from = NoPath /\ d.path = p))
      <4>1. PICK p \in DOMAIN own : d.file = own[p]
        BY <3>2
      <4>2. LastAt(old, own[p], p, n)
        BY <1>0, <1>3, <1>8 DEF IsOwner
      <4>3. PICK m \in 1 .. n : \E e \in old[m] : e.file = own[p]
        BY <4>2 DEF LastAt
      <4> QED BY <1>9, <2>0, <4>1, <4>3
    <3>3. CASE d.from = NoPath /\ d.file = <<t + 1, d.path>>
      BY <1>3, <3>1, <3>3 DEF IsNext
    <3> QED BY <3>1, <3>2, <3>3 DEF IsNext
  <2> QED BY <1>4, <2>1, <2>2
<1> QED BY <1>1, <1>2, <1>15, <1>16 DEF new, c

LEMMA OwnersDiffer ==
  ASSUME NEW lg, NEW t, NEW own, IsBranch(lg, t, own), NEW p \in DOMAIN own, NEW q \in DOMAIN own,
         own[p] = own[q]
  PROVE  p = q
<1>1. /\ IsHistory(ChangesOf(lg), Len(lg)) /\ Len(lg) \in 0 .. Len(lg)
      /\ LastAt(ChangesOf(lg), own[p], p, Len(lg)) /\ LastAt(ChangesOf(lg), own[q], q, Len(lg))
  BY LogsAreSequences DEF IsBranch, IsLog, IsOwner
<1> QED BY <1>1, LastIsUnique

LEMMA OwnedFiles ==
  ASSUME NEW lg, NEW t, NEW own, IsBranch(lg, t, own), NEW p \in DOMAIN own
  PROVE  p \in Paths /\ own[p] \in Nat \X Paths /\ own[p][1] <= t
<1>0. PICK n \in Nat : n = Len(lg) /\ \A i \in 1 .. n : ChangesOf(lg)[i] = lg[i].changes
  BY LogsAreSequences DEF IsBranch
<1>1. p \in Paths /\ LastAt(ChangesOf(lg), own[p], p, n)
  BY <1>0 DEF IsBranch, IsOwner
<1>2. PICK i \in 1 .. n : \E d \in lg[i].changes : d.file = own[p]
  BY <1>0, <1>1 DEF LastAt
<1> QED BY <1>0, <1>1, <1>2 DEF IsBranch, FilesUpTo

\* A commit, and where the files are after it.
LEMMA NewBranch ==
  ASSUME NEW lg, NEW t, NEW own, IsBranch(lg, t, own), NEW changes, NEW message,
         IsNext(changes, own, lg, t), NEW moved,
         \A p \in DOMAIN moved :
           /\ p \in Paths
           /\ \/ \E d \in changes : d.file = moved[p] /\ d.path = p
              \/ p \in DOMAIN own /\ moved[p] = own[p] /\ \A d \in changes : d.file # own[p]
  PROVE  IsBranch(Append(lg, CommitAt(t + 1, changes, message)), t + 1, moved)
<1> DEFINE c == CommitAt(t + 1, changes, message)
           new == Append(lg, c)
<1>0. PICK n \in Nat : n = Len(lg)
  BY LogsAreSequences DEF IsBranch
<1>1. /\ Len(new) = n + 1
      /\ \A i \in 1 .. n : new[i] = lg[i]
      /\ new[n + 1] = c
  <2> HIDE DEF c
  <2> QED BY <1>0, AppendedLog DEF IsBranch
<1>2. c.changes = changes
  BY DEF CommitAt
<1>3. IsLog(new, t + 1) /\ FilesUpTo(new, t + 1) /\ new[Len(new)].sha = t + 1 /\ new[Len(new)].at = t + 1
  BY NewLog
<1> HIDE DEF c, new
<1>4. PICK ch : ch = ChangesOf(new)
  OBVIOUS
<1>5. PICK old : old = ChangesOf(lg)
  OBVIOUS
<1>6. /\ \A i \in 1 .. n : ch[i] = old[i]
      /\ ch[n + 1] = changes
  BY <1>0, <1>1, <1>2, <1>4, <1>5 DEF ChangesOf
<1>7. ASSUME NEW p \in DOMAIN moved PROVE p \in Paths /\ LastAt(ch, moved[p], p, n + 1)
  <2>1. CASE \E d \in changes : d.file = moved[p] /\ d.path = p
    BY <1>6, <2>1, LastStep
  <2>2. CASE p \in DOMAIN own /\ moved[p] = own[p] /\ \A d \in changes : d.file # own[p]
    <3>1. LastAt(old, own[p], p, n)
      BY <1>0, <1>5, <2>2 DEF IsBranch, IsOwner
    <3>2. LastAt(ch, own[p], p, n)
      <4> n \in 0 .. n
        OBVIOUS
      <4> QED BY <1>6, <3>1, SameLast
    <3> QED BY <1>6, <2>2, <3>2, LastStep
  <2> QED BY <2>1, <2>2
<1>8. IsOwner(moved, new)
  BY <1>1, <1>4, <1>7 DEF IsOwner
<1> QED BY <1>3, <1>8 DEF IsBranch, new, c

\* The last commit made again.
LEMMA AmendedLog ==
  ASSUME NEW lg, NEW t, IsLog(lg, t), NEW c
  PROVE  /\ Append(Front(lg), c) \in Seq(Range(Append(Front(lg), c))) /\ Append(Front(lg), c) # <<>>
         /\ Len(Append(Front(lg), c)) = Len(lg)
         /\ \A i \in 1 .. Len(lg) - 1 : Append(Front(lg), c)[i] = lg[i]
         /\ Append(Front(lg), c)[Len(lg)] = c
         /\ Last(lg) = lg[Len(lg)]
<1>1. PICK n \in Nat : n = Len(lg) /\ n >= 1 /\ lg \in Seq(Range(lg) \cup {c})
  BY LogsAreSequences DEF IsLog
<1>2. /\ Front(lg) \in Seq(Range(lg) \cup {c}) /\ Len(Front(lg)) = n - 1
      /\ \A i \in 1 .. n - 1 : Front(lg)[i] = lg[i]
  BY <1>1 DEF Front
<1>3. /\ Append(Front(lg), c) \in Seq(Range(lg) \cup {c}) /\ Len(Append(Front(lg), c)) = n
      /\ \A i \in 1 .. n - 1 : Append(Front(lg), c)[i] = lg[i]
      /\ Append(Front(lg), c)[n] = c
  BY <1>1, <1>2
<1>4. Append(Front(lg), c) \in Seq(Range(Append(Front(lg), c)))
  BY <1>3, SeqOfItsItems
<1> QED BY <1>1, <1>3, <1>4 DEF Last

LEMMA AmendedBranch ==
  ASSUME NEW lg, NEW t, NEW own, IsBranch(lg, t, own)
  PROVE  LET new == Append(Front(lg), CommitAt(t + 1, Last(lg).changes, Last(lg).message))
         IN  IsBranch(new, t + 1, own) /\ ChangesOf(new) = ChangesOf(lg)
<1> DEFINE c == CommitAt(t + 1, Last(lg).changes, Last(lg).message)
           new == Append(Front(lg), c)
<1>0. PICK n \in Nat : n = Len(lg) /\ n >= 1
  BY LogsAreSequences DEF IsBranch
<1>1. /\ new \in Seq(Range(new)) /\ new # <<>> /\ Len(new) = n
      /\ \A i \in 1 .. n - 1 : new[i] = lg[i]
      /\ new[n] = c /\ Last(lg) = lg[n]
  <2> HIDE DEF c
  <2> QED BY <1>0, AmendedLog DEF IsBranch
<1>2. c.sha = t + 1 /\ c.at = t + 1 /\ c.changes = lg[n].changes
  BY <1>1 DEF CommitAt
<1> HIDE DEF c, new
<1>3. IsLog(lg, t) /\ t \in Nat /\ FilesUpTo(lg, t) /\ IsOwner(own, lg)
  BY DEF IsBranch, IsLog
<1>4. \A i \in 1 .. n : new[i].changes = lg[i].changes
  BY <1>1, <1>2
<1>5. ChangesOf(new) = ChangesOf(lg)
  BY <1>0, <1>1, <1>4 DEF ChangesOf
<1>6. \A i \in 1 .. n : new[i].sha \in Nat /\ new[i].sha <= t + 1
  BY <1>0, <1>1, <1>2, <1>3 DEF IsLog
<1>7. ASSUME NEW i \in 1 .. n, NEW j \in 1 .. n, i < j PROVE new[i].sha < new[j].sha
  <2>1. i \in 1 .. n - 1 /\ lg[i].sha \in Nat /\ lg[i].sha <= t
    BY <1>0, <1>3, <1>7 DEF IsLog
  <2>2. CASE j = n
    BY <1>1, <1>2, <1>3, <2>1, <2>2
  <2>3. CASE j \in 1 .. n - 1
    BY <1>0, <1>1, <1>3, <1>7, <2>1, <2>3 DEF IsLog
  <2> QED BY <2>2, <2>3
<1>8. IsLog(new, t + 1)
  <2>1. t + 1 \in Nat /\ new # <<>> /\ new \in Seq(Range(new))
    BY <1>1, <1>3
  <2>2. \A i \in 1 .. Len(new) : new[i].sha \in Nat /\ new[i].sha <= t + 1
    BY <1>1, <1>6
  <2>3. \A i, j \in 1 .. Len(new) : i < j => new[i].sha < new[j].sha
    BY <1>1, <1>7
  <2>4. IsHistory(ChangesOf(new), Len(new))
    BY <1>0, <1>1, <1>3, <1>5 DEF IsLog
  <2> QED BY <2>1, <2>2, <2>3, <2>4 DEF IsLog
<1>9. FilesUpTo(new, t + 1)
  <2> SUFFICES ASSUME NEW i \in 1 .. n, NEW d \in lg[i].changes
               PROVE  d.file \in Nat \X Paths /\ d.file[1] <= t + 1
    BY <1>1, <1>4 DEF FilesUpTo
  <2>1. d.file \in Nat \X Paths /\ d.file[1] <= t
    BY <1>0, <1>3 DEF FilesUpTo
  <2>2. d.file[1] \in Nat
    BY <2>1
  <2> QED BY <1>3, <2>1, <2>2
<1>10. IsOwner(own, new)
  BY <1>0, <1>1, <1>3, <1>5 DEF IsOwner
<1>11. IsBranch(new, t + 1, own)
  BY <1>1, <1>2, <1>8, <1>9, <1>10 DEF IsBranch
<1> QED BY <1>5, <1>11 DEF new, c

--------------------------------------------------------------------------------
(* The rows of a branch that goes on. *)

\* Rows are of commits that the database has, none of which is newer than this.
RowsUpTo(dd, t) ==
  \A row \in dd.changes : row.commit \in Nat /\ row.commit <= t /\ row.commit \in DOMAIN dd.commits

\* The log lg until its m-th commit, which is newer than all rows.
IsNewer(new, lg, t, m) ==
  /\ m \in Nat /\ Len(new) = m /\ m >= 1 /\ m - 1 <= Len(lg)
  /\ \A i \in 1 .. m - 1 : new[i] = lg[i]
  /\ new[m].sha = t + 1

LEMMA KeptBefore ==
  ASSUME NEW lg, NEW new, NEW t, IsLog(lg, t), NEW m, IsNewer(new, lg, t, m), NEW dd, RowsUpTo(dd, t),
         NEW i \in 1 .. m
  PROVE  IsKept(new, dd, i) => i \in 1 .. m - 1 /\ i \in 1 .. Len(lg) /\ IsKept(lg, dd, i)
<1>1. t \in Nat /\ m \in Nat /\ Len(lg) \in Nat
  BY LogsAreSequences DEF IsLog, IsNewer
<1>2. i = m => ~ IsKept(new, dd, i)
  BY <1>1 DEF IsNewer, IsKept, RowsUpTo
<1>3. i # m => i \in 1 .. m - 1 /\ i \in 1 .. Len(lg) /\ new[i] = lg[i]
  BY <1>1 DEF IsNewer
<1> QED BY <1>2, <1>3 DEF IsKept

LEMMA RowsFitNewer ==
  ASSUME NEW lg, NEW new, NEW t, IsLog(lg, t), NEW m, IsNewer(new, lg, t, m), NEW dd, RowsUpTo(dd, t),
         RowsFit(lg, dd)
  PROVE  RowsFit(new, dd)
<1>1. ASSUME NEW i \in 1 .. m
      PROVE  /\ \A row \in dd.changes :
                  row.commit = new[i].sha => \E d \in new[i].changes : row = RowOf(new[i].sha, d)
             /\ IsKept(new, dd, i) => \A d \in new[i].changes : RowOf(new[i].sha, d) \in dd.changes
  <2>1. CASE IsKept(new, dd, i)
    <3>1. i \in 1 .. m - 1 /\ i \in 1 .. Len(lg) /\ IsKept(lg, dd, i)
      BY <2>1, KeptBefore
    <3>2. new[i] = lg[i]
      BY <3>1 DEF IsNewer
    <3> QED BY <3>1, <3>2 DEF RowsFit
  <2>2. CASE ~ IsKept(new, dd, i)
    BY <2>2 DEF IsKept
  <2> QED BY <2>1, <2>2
<1> QED BY <1>1 DEF RowsFit, IsNewer

\* Nothing that is kept is lost by it.
LEMMA RowsOfNewer ==
  ASSUME NEW lg, NEW new, NEW t, IsLog(lg, t), NEW m, IsNewer(new, lg, t, m), NEW dd,
         RowsAreOfLog(lg, dd), \A i \in 1 .. Len(lg) : IsKept(lg, dd, i) => i \in 1 .. m - 1
  PROVE  RowsAreOfLog(new, dd)
<1> SUFFICES ASSUME NEW row \in dd.changes PROVE \E i \in 1 .. Len(new) : row.commit = new[i].sha
  BY DEF RowsAreOfLog
<1>1. PICK i \in 1 .. Len(lg) : row.commit = lg[i].sha
  BY DEF RowsAreOfLog
<1>2. i \in 1 .. m - 1
  BY <1>1 DEF IsKept
<1>3. new[i] = lg[i] /\ i \in 1 .. Len(new)
  BY <1>2 DEF IsNewer
<1> QED BY <1>1, <1>3

LEMMA IndexOfNewer ==
  ASSUME NEW lg, NEW new, NEW t, IsLog(lg, t), NEW m, IsNewer(new, lg, t, m), NEW dd, RowsUpTo(dd, t),
         NEW own, NEW k, IsIndexOf(own, lg, dd, k), k \in 1 .. m - 1
  PROVE  IsIndexOf(own, new, dd, k)
<1>1. m \in Nat /\ Len(new) = m /\ m - 1 <= Len(lg) /\ \A i \in 1 .. m - 1 : new[i] = lg[i]
  BY DEF IsNewer
<1>2. k \in 1 .. Len(new) /\ k \in 0 .. m - 1 /\ m - 1 \in Nat /\ Len(lg) \in Nat
  BY <1>1, LogsAreSequences
<1>3. IsKept(new, dd, k)
  BY <1>1 DEF IsIndexOf, IsKept
<1>4. \A j \in 1 .. Len(new) : IsKept(new, dd, j) => j <= k
  BY <1>1, KeptBefore DEF IsIndexOf
<1>5. PICK ch : ch = ChangesOf(new)
  OBVIOUS
<1>6. PICK old : old = ChangesOf(lg)
  OBVIOUS
<1>7. \A i \in 1 .. m - 1 : ch[i] = old[i]
  <2> SUFFICES ASSUME NEW i \in 1 .. m - 1 PROVE ch[i] = old[i]
    OBVIOUS
  <2>1. i \in 1 .. Len(new) /\ i \in 1 .. Len(lg) /\ new[i] = lg[i]
    BY <1>1, <1>2
  <2> QED BY <1>5, <1>6, <2>1 DEF ChangesOf
<1>8. ASSUME NEW p \in DOMAIN own PROVE p \in Paths /\ LastAt(ch, own[p], p, k)
  <2>1. p \in Paths /\ LastAt(old, own[p], p, k)
    BY <1>6 DEF IsIndexOf
  <2>2. LastAt(ch, own[p], p, k)
    BY <1>2, <1>7, <2>1, SameLast
  <2> QED BY <2>1, <2>2
<1> QED BY <1>2, <1>3, <1>4, <1>5, <1>8 DEF IsIndexOf

--------------------------------------------------------------------------------
(* The database after an ingestion. *)

\* Databases that differ in nothing that is asked of the history.
SameHistory(dd, ee) == dd.commits = ee.commits /\ dd.changes = ee.changes

LEMMA SameCoupling ==
  ASSUME NEW dd, NEW ee, SameHistory(dd, ee), NEW indexed
  PROVE  coupling_of(dd, indexed) = coupling_of(ee, indexed)
<1>1. Renames(dd) = Renames(ee)
  BY DEF Renames, SameHistory
<1>2. \A p : Canonical(dd, p) = Canonical(ee, p)
  BY <1>1 DEF Canonical
<1>3. Touches(dd) = Touches(ee)
  BY <1>2 DEF Touches, SameHistory
<1>4. commit_file_sets(dd) = commit_file_sets(ee)
  BY <1>3 DEF commit_file_sets, SameHistory
<1> QED BY <1>4 DEF coupling_of

\* The rows of the commits that are collected are added.
LEMMA IngestedRows ==
  ASSUME NEW dd, IsDatabase(dd), NEW lg, NEW t, NEW limit
  PROVE  /\ ingest_git(dd, lg, t, limit).changes = change_rows(dd, collect_history(lg, t))
         /\ DOMAIN ingest_git(dd, lg, t, limit).commits
              = DOMAIN dd.commits \cup {c.sha : c \in collect_history(lg, t)}
<1> DEFINE commits == collect_history(lg, t)
           between == upsert_git_facts(dd, commits, limit)
           after == backfill_fix_classification(between, limit)
<1>1. /\ between.changes = change_rows(dd, commits)
      /\ DOMAIN between.commits = DOMAIN dd.commits \cup {c.sha : c \in commits}
      /\ between = [commits |-> between.commits, changes |-> between.changes, co_changes |-> between.co_changes]
  <2>1. dd = [commits |-> dd.commits, changes |-> dd.changes, co_changes |-> dd.co_changes]
    BY DEF IsDatabase
  <2>2. PICK rows, changes : rows = commit_rows(dd, commits, limit) /\ changes = change_rows(dd, commits)
    OBVIOUS
  <2>3. between = [commits |-> rows, changes |-> changes, co_changes |-> dd.co_changes]
    <3>1. between = [dd EXCEPT !.commits = rows, !.changes = changes]
      BY <2>2 DEF upsert_git_facts
    <3> HIDE DEF between
    <3> QED BY <2>1, <3>1
  <2>4. DOMAIN rows = DOMAIN dd.commits \cup {c.sha : c \in commits}
    BY <2>2 DEF commit_rows
  <2> HIDE DEF between
  <2> QED BY <2>2, <2>3, <2>4
<1>2. after.changes = between.changes /\ DOMAIN after.commits = DOMAIN between.commits
  <2> HIDE DEF between
  <2> QED BY <1>1 DEF backfill_fix_classification
<1>3. ingest_git(dd, lg, t, limit) = after
  BY DEF ingest_git
<1> HIDE DEF after, between
<1> QED BY <1>1, <1>2, <1>3

\* The last commit is always collected.
LEMMA LastIsCollected ==
  ASSUME NEW lg, NEW t, NEW own, IsBranch(lg, t, own)
  PROVE  /\ lg[Len(lg)] \in collect_history(lg, t)
         /\ \A c \in collect_history(lg, t) : \E i \in 1 .. Len(lg) : c = lg[i]
<1>1. PICK n \in Nat : n = Len(lg) /\ n >= 1 /\ lg[n].at = t /\ t \in Nat
  BY LogsAreSequences DEF IsBranch, IsLog
<1>2. PICK first \in Nat : /\ first = IF n > GitMaxCommits THEN n - GitMaxCommits + 1 ELSE 1
                           /\ first >= 1 /\ first <= n
  <2> DEFINE f == IF n > GitMaxCommits THEN n - GitMaxCommits + 1 ELSE 1
  <2>1. f \in Nat /\ f >= 1 /\ f <= n
    BY <1>1, HistoryBounds
  <2> QED BY <2>1
<1>3. collect_history(lg, t) = {lg[i] : i \in {j \in first .. n : lg[j].at >= t - GitWindowDays}}
  BY <1>1, <1>2 DEF collect_history
<1>4. n \in first .. n /\ lg[n].at >= t - GitWindowDays /\ first .. n \subseteq 1 .. n
  BY <1>1, <1>2, HistoryBounds
<1> QED BY <1>1, <1>3, <1>4

LEMMA IngestedFit ==
  ASSUME NEW dd, IsDatabase(dd), NEW lg, NEW t, NEW own, IsBranch(lg, t, own), NEW limit,
         RowsFit(lg, dd), RowsUpTo(dd, t), NEW ee, ee = ingest_git(dd, lg, t, limit)
  PROVE  /\ RowsFit(lg, ee) /\ RowsUpTo(ee, t) /\ IsKept(lg, ee, Len(lg))
         /\ RowsAreOfLog(lg, dd) => RowsAreOfLog(lg, ee)
<1> DEFINE commits == collect_history(lg, t)
<1>0. PICK n \in Nat : n = Len(lg) /\ n >= 1
  BY LogsAreSequences DEF IsBranch
<1>1. /\ lg[n] \in commits
      /\ \A c \in commits : \E i \in 1 .. n : c = lg[i]
  BY <1>0, LastIsCollected
<1>2. /\ ee.changes = change_rows(dd, commits)
      /\ DOMAIN ee.commits = DOMAIN dd.commits \cup {c.sha : c \in commits}
  BY IngestedRows
<1> HIDE DEF commits
<1>3. \A row : row \in ee.changes <=>
                 row \in dd.changes \/ \E c \in commits : \E d \in c.changes : row = RowOf(c.sha, d)
  BY <1>2 DEF change_rows, RowOf
<1>4. \A i, j \in 1 .. n : lg[i].sha = lg[j].sha => i = j
  BY <1>0, LogsAreSequences DEF IsBranch
<1>5. \A sha, d : RowOf(sha, d).commit = sha
  BY RowFields
<1>6. \A i \in 1 .. n : lg[i].sha \in Nat /\ lg[i].sha <= t /\ lg[i].changes # {}
  BY <1>0, LogsAreSequences DEF IsBranch, IsLog, IsHistory
<1>7. ASSUME NEW i \in 1 .. n
      PROVE  /\ \A row \in ee.changes : row.commit = lg[i].sha => \E d \in lg[i].changes : row = RowOf(lg[i].sha, d)
             /\ IsKept(lg, ee, i) => \A d \in lg[i].changes : RowOf(lg[i].sha, d) \in ee.changes
  <2>1. ASSUME NEW row \in ee.changes, row.commit = lg[i].sha
        PROVE  \E d \in lg[i].changes : row = RowOf(lg[i].sha, d)
    <3>1. CASE row \in dd.changes
      BY <1>0, <2>1, <3>1 DEF RowsFit
    <3>2. CASE \E c \in commits : \E d \in c.changes : row = RowOf(c.sha, d)
      <4>1. PICK c \in commits : \E d \in c.changes : row = RowOf(c.sha, d)
        BY <3>2
      <4>2. c.sha = lg[i].sha
        BY <1>5, <2>1, <4>1
      <4>3. c = lg[i]
        BY <1>1, <1>4, <4>2
      <4> QED BY <4>1, <4>3
    <3> QED BY <1>3, <3>1, <3>2
  <2>2. ASSUME IsKept(lg, ee, i), NEW d \in lg[i].changes PROVE RowOf(lg[i].sha, d) \in ee.changes
    <3>1. PICK row \in ee.changes : row.commit = lg[i].sha
      BY <2>2 DEF IsKept
    <3>2. CASE row \in dd.changes
      <4>1. IsKept(lg, dd, i)
        BY <3>1, <3>2 DEF IsKept
      <4>2. RowOf(lg[i].sha, d) \in dd.changes
        BY <1>0, <2>2, <4>1 DEF RowsFit
      <4> QED BY <1>3, <4>2
    <3>3. CASE \E c \in commits : \E e \in c.changes : row = RowOf(c.sha, e)
      <4>1. PICK c \in commits : \E e \in c.changes : row = RowOf(c.sha, e)
        BY <3>3
      <4>2. c = lg[i]
        BY <1>1, <1>4, <1>5, <3>1, <4>1
      <4> QED BY <1>3, <2>2, <4>2
    <3> QED BY <1>3, <3>2, <3>3
  <2> QED BY <2>1, <2>2
<1>8. RowsFit(lg, ee)
  BY <1>0, <1>7 DEF RowsFit
<1>9. ASSUME NEW row \in ee.changes PROVE row.commit \in Nat /\ row.commit <= t /\ row.commit \in DOMAIN ee.commits
  <2>1. CASE row \in dd.changes
    BY <1>2, <2>1 DEF RowsUpTo
  <2>2. CASE \E c \in commits : \E d \in c.changes : row = RowOf(c.sha, d)
    <3>1. PICK c \in commits : row.commit = c.sha
      BY <1>5, <2>2
    <3> QED BY <1>1, <1>2, <1>6, <3>1
  <2> QED BY <1>3, <2>1, <2>2
<1>10. RowsUpTo(ee, t)
  BY <1>9 DEF RowsUpTo
<1>11. IsKept(lg, ee, n)
  <2>1. PICK d : d \in lg[n].changes
    BY <1>0, <1>6
  <2>2. RowOf(lg[n].sha, d) \in ee.changes
    BY <1>1, <1>3, <2>1
  <2> QED BY <1>5, <2>2 DEF IsKept
<1>12. ASSUME RowsAreOfLog(lg, dd), NEW row \in ee.changes PROVE \E i \in 1 .. n : row.commit = lg[i].sha
  <2>1. CASE row \in dd.changes
    BY <1>0, <1>12, <2>1 DEF RowsAreOfLog
  <2>2. CASE \E c \in commits : \E d \in c.changes : row = RowOf(c.sha, d)
    <3>1. PICK c \in commits : row.commit = c.sha
      BY <1>5, <2>2
    <3> QED BY <1>1, <3>1
  <2> QED BY <1>3, <2>1, <2>2
<1> QED BY <1>0, <1>8, <1>10, <1>11, <1>12 DEF RowsAreOfLog

--------------------------------------------------------------------------------
(* The invariant of the runs, and what follows from it. *)

\* What is known of the run and of the index.
RunInv ==
  /\ run = [phase |-> run.phase, parsed |-> run.parsed]
  /\ run.phase \in {"idle", "parsed", "ingested", "synced"}
  /\ run.phase # "idle" /\ "moved" \notin marks => run.parsed = owner
  /\ run.phase \in {"ingested", "synced"} /\ "moved" \notin marks => IsKept(log, db, Len(log))
  /\ run.phase = "synced" => files = run.parsed
IndexInv ==
  run.phase = "idle" /\ marks = {} /\ files # <<>> =>
    db.co_changes = coupling_of(db, DOMAIN files) /\ \E k : IsIndexOf(files, log, db, k)
RowsInv ==
  /\ RowsFit(log, db) /\ RowsUpTo(db, now)
  /\ "amended" \notin marks => RowsAreOfLog(log, db)
BranchInv == IsDatabase(db) /\ IsBranch(log, now, owner) /\ RowsInv /\ RunInv /\ IndexInv

--------------------------------------------------------------------------------
(* It implies that the history follows the files. *)

LEMMA StoredCommits ==
  ASSUME IsLog(log, now), NEW i \in 1 .. Len(log)
  PROVE  log[i] \in Stored <=> IsKept(log, db, i)
BY LogsAreSequences DEF Stored, IsKept, Range

LEMMA PathsKept ==
  ASSUME IsLog(log, now), ~ Reused, ~ Returned
  PROVE  PathsAreKept(ChangesOf(log), Len(log))
<1>0. DOMAIN log = 1 .. Len(log) /\ \A i \in 1 .. Len(log) : ChangesOf(log)[i] = log[i].changes
  BY LogsAreSequences
<1>1. ASSUME NEW i \in 1 .. Len(log), NEW j \in 1 .. Len(log),
             NEW d \in log[i].changes, NEW e \in log[j].changes, d.path = e.path
      PROVE  d.file = e.file
  BY <1>0, <1>1 DEF Reused, Range
<1>2. ASSUME NEW i \in 1 .. Len(log), NEW j \in 1 .. Len(log), NEW k \in 1 .. Len(log), i < j, j < k,
             NEW d \in log[i].changes, NEW e \in log[j].changes, NEW g \in log[k].changes,
             d.file = e.file, e.file = g.file, d.path = g.path
      PROVE  e.path = d.path
  BY <1>0, <1>2 DEF Returned
<1> QED BY <1>0, <1>1, <1>2 DEF PathsAreKept

LEMMA RenamesKept ==
  ASSUME IsLog(log, now), RenamesStored
  PROVE  RenamesAreKept(log, db)
<1>0. DOMAIN log = 1 .. Len(log)
  BY LogsAreSequences
<1> QED BY <1>0, StoredCommits DEF RenamesStored, RenamesAreKept

LEMMA MovesAreRenames ==
  ASSUME IsLog(log, now),
         \A c \in Range(log) : \A file \in FilesOf(c) : Cardinality(Moves(file)) <= MaxRenames
  PROVE  \A i \in 1 .. Len(log) : \A d \in log[i].changes :
           Cardinality(RenamesBy(ChangesOf(log), d.file, Len(log))) <= MaxRenames
<1>0. /\ DOMAIN log = 1 .. Len(log) /\ \A i \in 1 .. Len(log) : ChangesOf(log)[i] = log[i].changes
  BY LogsAreSequences
<1>1. UNION {c.changes : c \in Range(log)} = UNION {ChangesOf(log)[i] : i \in 1 .. Len(log)}
  BY <1>0 DEF Range
<1>2. \A f : RenamesBy(ChangesOf(log), f, Len(log)) = Moves(f)
  BY <1>1 DEF RenamesBy, Moves
<1>3. \A i \in 1 .. Len(log) : \A d \in log[i].changes : log[i] \in Range(log) /\ d.file \in FilesOf(log[i])
  BY <1>0 DEF Range, FilesOf
<1> QED BY <1>2, <1>3

LEMMA SettledIndex ==
  ASSUME BranchInv, Settled, ~ Returned, files # <<>>
  PROVE  /\ \E k : IsSettled(log, now, db, files, k)
         /\ db.co_changes = coupling_of(db, DOMAIN files)
<1>1. PICK k : IsIndexOf(files, log, db, k)
  BY DEF BranchInv, IndexInv, Settled
<1>2. db.co_changes = coupling_of(db, DOMAIN files)
  BY DEF BranchInv, IndexInv, Settled
<1>3. IsLog(log, now) /\ RowsFit(log, db) /\ RowsAreOfLog(log, db)
  BY DEF BranchInv, IsBranch, RowsInv, Settled
<1>4. PathsAreKept(ChangesOf(log), Len(log))
  BY <1>3, PathsKept DEF Settled
<1>5. RenamesAreKept(log, db)
  BY <1>3, RenamesKept DEF Settled
<1>6. \A i \in 1 .. Len(log) : \A d \in log[i].changes :
        Cardinality(RenamesBy(ChangesOf(log), d.file, Len(log))) <= MaxRenames
  BY <1>3, MovesAreRenames DEF Settled
<1>7. IsSettled(log, now, db, files, k)
  BY <1>1, <1>3, <1>4, <1>5, <1>6 DEF IsSettled
<1> QED BY <1>2, <1>7

LEMMA ChurnByInvariant ==
  ASSUME BranchInv PROVE ChurnFollowsFile
<1> SUFFICES ASSUME Settled, ~ Returned PROVE ChurnIsExact
  BY DEF ChurnFollowsFile
<1>1. Stored = StoredOf(log, db)
  BY DEF Stored, StoredOf
<1>2. CASE files = <<>>
  BY <1>2 DEF ChurnIsExact
<1>3. CASE files # <<>>
  <2>1. PICK k : IsSettled(log, now, db, files, k)
    BY <1>3, SettledIndex
  <2>2. ASSUME NEW p \in DOMAIN files
        PROVE  Cardinality({c \in Stored : files[p] \in FilesOf(c)})
                 = IF p \in DOMAIN file_churn(db) THEN file_churn(db)[p] ELSE 0
    BY <1>1, <2>1, ChurnCounts
  <2> QED BY <2>2 DEF ChurnIsExact
<1> QED BY <1>2, <1>3

LEMMA CouplingByInvariant ==
  ASSUME BranchInv PROVE CoChangesExact
<1> SUFFICES ASSUME Settled, ~ Returned, files # <<>> PROVE CoChangesExact
  BY DEF CoChangesExact
<1>0. Stored = StoredOf(log, db)
  BY DEF Stored, StoredOf
<1>1. PICK k : IsSettled(log, now, db, files, k)
  BY SettledIndex
<1>2. db.co_changes = coupling_of(db, DOMAIN files)
  BY SettledIndex
<1> DEFINE counted == {c \in Stored : Cardinality(TouchedBy(c, files)) \in 2 .. MaxCommitFiles}
           of(a) == Cardinality({c \in counted : a \in FilesOf(c)})
           both(a, b) == Cardinality({c \in counted : {a, b} \subseteq FilesOf(c)})
           coupled(a, b) ==
             LET n == both(a, b)
             IN n >= MinSupport /\ n * 100 >= MinJaccard * (of(a) + of(b) - n)
                /\ n * Cardinality(counted) > of(a) * of(b)
           stored == {x.pair : x \in db.co_changes}
<1>3. counted = StoredWindow(log, db, files)
  BY <1>0 DEF StoredWindow
<1>4. \A a, b : /\ of(a) = Cardinality(Together(log, db, files, {a}))
                /\ both(a, b) = Cardinality(Together(log, db, files, {a, b}))
  <2>1. \A a : {c \in counted : a \in FilesOf(c)} = Together(log, db, files, {a})
    BY <1>3 DEF Together
  <2>2. \A a, b : {c \in counted : {a, b} \subseteq FilesOf(c)} = Together(log, db, files, {a, b})
    BY <1>3 DEF Together
  <2> HIDE DEF counted
  <2> QED BY <2>1, <2>2
<1>5. ASSUME NEW p \in DOMAIN files, NEW q \in DOMAIN files, p < q
      PROVE  {p, q} \in stored <=> coupled(files[p], files[q])
  <2>0. p # q /\ p \in Nat /\ q \in Nat
    <3>1. p \in Paths /\ q \in Paths
      BY <1>1 DEF IsSettled, IsIndexOf
    <3> QED BY <3>1, <1>5, PathsAreNumbers
  <2>1. {p, q} \in stored <=>
          IsStrong(Cardinality(Together(log, db, files, {files[p], files[q]})),
                   Cardinality(Together(log, db, files, {files[p]})),
                   Cardinality(Together(log, db, files, {files[q]})),
                   Cardinality(StoredWindow(log, db, files)))
    BY <1>1, <1>2, <2>0, PairsAreCoupled
  <2>2. \E n, a, b \in Nat : /\ n = Cardinality(Together(log, db, files, {files[p], files[q]}))
                             /\ a = Cardinality(Together(log, db, files, {files[p]}))
                             /\ b = Cardinality(Together(log, db, files, {files[q]}))
    <3>1. \A x : {x, x} = {x}
      OBVIOUS
    <3>2. \A x, y \in DOMAIN files : Cardinality(Together(log, db, files, {files[x], files[y]})) \in Nat
      BY <1>1, TogetherIsNumber
    <3>3. \A x \in DOMAIN files : Cardinality(Together(log, db, files, {files[x]})) \in Nat
      BY <3>1, <3>2
    <3> QED BY <3>2, <3>3
  <2> HIDE DEF counted, stored, of, both
  <2>3. \A n \in Nat : n * 100 = 100 * n
    OBVIOUS
  <2> QED BY <1>3, <1>4, <2>1, <2>2, <2>3 DEF IsStrong
<1>6. ASSUME NEW x \in db.co_changes, NEW sha \in x.commits, NEW p \in x.pair
      PROVE  \E c \in Stored : c.sha = sha /\ files[p] \in FilesOf(c)
  BY <1>0, <1>1, <1>2, EvidenceIsStored
<1> HIDE DEF stored, coupled
<1>7. /\ \A p, q \in DOMAIN files : p < q => ({p, q} \in stored <=> coupled(files[p], files[q]))
      /\ \A x \in db.co_changes : \A sha \in x.commits :
           \A p \in x.pair : \E c \in Stored : c.sha = sha /\ files[p] \in FilesOf(c)
  BY <1>5, <1>6
<1> QED BY <1>7 DEF CoChangesExact, stored, coupled

--------------------------------------------------------------------------------
(* Every step keeps the invariant. *)

LEMMA FirstBranch ==
  ASSUME Init PROVE IsBranch(log, now, owner)
<1>0. PICK n \in Nat : n = Len(log) /\ n >= 1 /\ DOMAIN log = 1 .. n /\ log # <<>> /\ log \in Seq(Range(log))
  BY FirstHistory DEF Init
<1>1. now = n
  BY <1>0 DEF Init
<1>2. ASSUME NEW i \in 1 .. n
      PROVE  /\ log[i].sha = i /\ log[i].at = i /\ log[i].changes # {}
             /\ \A d \in log[i].changes :
                  d.path \in Paths /\ d.from = NoPath /\ d.file = <<1, d.path>>
  <2>1. log[i] = CommitAt(i, log[i].changes, log[i].message) /\ log[i].changes # {}
    BY <1>0, FirstHistory DEF Init
  <2>2. log[i].sha = i /\ log[i].at = i
    BY <2>1 DEF CommitAt
  <2>3. ASSUME NEW d \in log[i].changes PROVE d.path \in Paths /\ d.from = NoPath /\ d.file = <<1, d.path>>
    <3>1. d.path \in Paths /\ d = Change(d.path, NoPath, <<1, d.path>>)
      BY <1>0, FirstHistory DEF Init
    <3> QED BY <3>1 DEF Change
  <2> QED BY <2>1, <2>2, <2>3
<1>3. PICK ch : ch = ChangesOf(log)
  OBVIOUS
<1>4. \A i \in 1 .. n : ch[i] = log[i].changes
  BY <1>0, <1>3 DEF ChangesOf
<1>5. \A d, e : \A i, j \in 1 .. n : d \in ch[i] /\ e \in ch[j] /\ d.file = e.file => d.path = e.path
  BY <1>2, <1>4
<1>6. ASSUME NEW j \in 1 .. n, NEW d \in ch[j] PROVE Continues(ch, d, j)
  <2>1. d.from = NoPath
    BY <1>2, <1>4
  <2>2. ASSUME NEW i \in 1 .. j - 1, NEW e \in ch[i], e.file = d.file PROVE LastAt(ch, d.file, d.path, j - 1)
    <3>1. PICK x : LastAt(ch, e.file, x, j - 1)
      BY LastExists
    <3>2. PICK m \in 1 .. j - 1 : \E g \in ch[m] : g.file = e.file /\ g.path = x
      BY <3>1 DEF LastAt
    <3>3. PICK g \in ch[m] : g.file = e.file /\ g.path = x
      BY <3>2
    <3>4. m \in 1 .. n
      OBVIOUS
    <3>5. x = d.path
      BY <1>5, <2>2, <3>3, <3>4
    <3> QED BY <2>2, <3>1, <3>5
  <2> QED BY <2>1, <2>2 DEF Continues
<1>7. IsHistory(ch, n)
  <2>1. ASSUME NEW j \in 1 .. n
        PROVE  /\ ch[j] # {}
               /\ \A d \in ch[j] : d.path \in Paths /\ d.from \in Paths \cup {NoPath} /\ d.from # d.path
               /\ \A d \in ch[j] : Continues(ch, d, j)
    BY <1>2, <1>4, <1>6, PathsAreNumbers
  <2>2. ASSUME NEW j \in 1 .. n, NEW d \in ch[j], NEW e \in ch[j], d.file = e.file PROVE d = e
    <3>1. d = Change(d.path, NoPath, <<1, d.path>>) /\ e = Change(e.path, NoPath, <<1, e.path>>)
      BY <1>0, <1>4, FirstHistory DEF Init
    <3>2. d.path = e.path
      BY <1>5, <2>2
    <3> QED BY <3>1, <3>2
  <2> QED BY <2>1, <2>2 DEF IsHistory
<1>8. IsLog(log, now)
  <2>1. \A i \in 1 .. n : log[i].sha \in Nat /\ log[i].sha <= n
    BY <1>2
  <2>2. \A i, j \in 1 .. n : i < j => log[i].sha < log[j].sha
    BY <1>2
  <2> QED BY <1>0, <1>1, <1>3, <1>7, <2>1, <2>2 DEF IsLog
<1>9. FilesUpTo(log, now)
  <2> SUFFICES ASSUME NEW i \in 1 .. n, NEW d \in log[i].changes PROVE d.file \in Nat \X Paths /\ d.file[1] <= n
    BY <1>0, <1>1 DEF FilesUpTo
  <2>1. d.path \in Paths /\ d.file = <<1, d.path>>
    BY <1>2
  <2>2. d.file[1] = 1 /\ d.file \in Nat \X Paths
    BY <2>1
  <2> QED BY <1>0, <2>2
<1>10. ASSUME NEW p \in DOMAIN owner PROVE p \in Paths /\ LastAt(ch, owner[p], p, n)
  <2> DEFINE all == UNION {c.changes : c \in Range(log)}
  <2>1. \A d : d \in all <=> \E i \in 1 .. n : d \in ch[i]
    BY <1>0, <1>4 DEF Range
  <2>2. p \in UNION {{d.path : d \in c.changes} : c \in Range(log)}
    BY DEF Init
  <2>3. \E d \in all : d.path = p
    BY <2>2
  <2>4. owner[p] = (CHOOSE d \in all : d.path = p).file
    BY <2>2 DEF Init
  <2> HIDE DEF all
  <2>5. PICK d \in all : d.path = p /\ owner[p] = d.file
    BY <2>3, <2>4
  <2>6. PICK i \in 1 .. n : d \in ch[i]
    BY <2>1, <2>5
  <2>7. PICK x : LastAt(ch, d.file, x, n)
    BY <2>6, LastExists
  <2>8. PICK m \in 1 .. n : \E g \in ch[m] : g.file = d.file /\ g.path = x
    BY <2>7 DEF LastAt
  <2>9. x = p
    BY <1>5, <2>5, <2>6, <2>8
  <2>10. p \in Paths
    BY <1>2, <1>4, <2>5, <2>6
  <2> QED BY <2>5, <2>7, <2>9, <2>10
<1>11. IsOwner(owner, log)
  BY <1>0, <1>3, <1>10 DEF IsOwner
<1>12. log[Len(log)].sha = now /\ log[Len(log)].at = now
  BY <1>0, <1>1, <1>2
<1> QED BY <1>8, <1>9, <1>11, <1>12 DEF IsBranch

LEMMA BranchStarts == Init => BranchInv
<1> SUFFICES ASSUME Init PROVE BranchInv
  OBVIOUS
<1>1. IsBranch(log, now, owner)
  BY FirstBranch
<1>2. IsDatabase(db)
  BY FirstDatabases DEF Init, IsDatabase, IsRow
<1>3. db.changes = {}
  BY FirstHistory DEF Init
<1>4. RowsInv
  BY <1>3 DEF RowsInv, RowsFit, RowsUpTo, RowsAreOfLog, IsKept
<1>5. RunInv /\ IndexInv
  BY DEF Init, Idle, RunInv, IndexInv
<1> QED BY <1>1, <1>2, <1>4, <1>5 DEF BranchInv

LEMMA CommitSteps ==
  ASSUME BranchInv, NEW changes, NEW message, Commit(changes, message), IsNext(changes, owner, log, now),
         \A p \in DOMAIN owner' :
           /\ p \in Paths
           /\ \/ \E d \in changes : d.file = owner'[p] /\ d.path = p
              \/ p \in DOMAIN owner /\ owner'[p] = owner[p] /\ \A d \in changes : d.file # owner[p]
  PROVE  BranchInv'
<1> DEFINE new == Append(log, CommitAt(now + 1, changes, message))
<1>0. /\ IsBranch(log, now, owner) /\ IsLog(log, now) /\ RowsFit(log, db) /\ RowsUpTo(db, now)
      /\ IsDatabase(db) /\ RowsInv /\ RunInv /\ IndexInv
  BY DEF BranchInv, IsBranch, RowsInv
<1>1. log' = new /\ now' = now + 1 /\ db' = db /\ files' = files /\ run' = run
      /\ marks' = marks \cup (IF run.phase = "idle" THEN {} ELSE {"moved"})
  BY DEF Commit
<1>2. IsBranch(new, now + 1, owner')
  BY <1>0, NewBranch
<1>3. PICK n \in Nat : n = Len(log) /\ n >= 1 /\ now \in Nat
  BY <1>0, LogsAreSequences DEF IsLog
<1>4. IsNewer(new, log, now, n + 1)
  <2>1. /\ Len(new) = n + 1 /\ \A i \in 1 .. n : new[i] = log[i]
        /\ new[n + 1] = CommitAt(now + 1, changes, message)
    BY <1>0, <1>3, AppendedLog
  <2>2. new[n + 1].sha = now + 1
    BY <2>1 DEF CommitAt
  <2>3. n + 1 \in Nat /\ n + 1 >= 1 /\ (n + 1) - 1 = n
    BY <1>3
  <2> HIDE DEF new
  <2> QED BY <1>3, <2>1, <2>2, <2>3 DEF IsNewer
<1> HIDE DEF new
<1>5. RowsFit(new, db)
  BY <1>0, <1>4, RowsFitNewer
<1>6. RowsUpTo(db, now + 1)
  BY <1>0, <1>3 DEF RowsUpTo
<1>7. RowsAreOfLog(log, db) => RowsAreOfLog(new, db)
  <2>1. \A i \in 1 .. Len(log) : i \in 1 .. (n + 1) - 1
    BY <1>3
  <2> QED BY <1>0, <1>4, <2>1, RowsOfNewer
<1>8. "amended" \notin marks' => "amended" \notin marks
  BY <1>1
<1>9. RowsInv'
  BY <1>0, <1>1, <1>5, <1>6, <1>7, <1>8 DEF RowsInv
<1>10. RunInv'
  <2>1. run.phase # "idle" => "moved" \in marks'
    BY <1>1
  <2> QED BY <1>0, <1>1, <2>1 DEF RunInv
<1>11. IndexInv'
  <2> SUFFICES ASSUME run.phase = "idle", marks' = {}, files # <<>>
               PROVE  db.co_changes = coupling_of(db, DOMAIN files) /\ \E k : IsIndexOf(files, new, db, k)
    BY <1>1 DEF IndexInv
  <2>1. marks = {}
    BY <1>1
  <2>2. PICK k : IsIndexOf(files, log, db, k) /\ db.co_changes = coupling_of(db, DOMAIN files)
    BY <1>0, <2>1 DEF IndexInv
  <2>3. k \in 1 .. (n + 1) - 1
    BY <1>3, <2>2 DEF IsIndexOf
  <2>4. IsIndexOf(files, new, db, k)
    BY <1>0, <1>4, <2>2, <2>3, IndexOfNewer
  <2> QED BY <2>2, <2>4
<1>12. IsBranch(log', now', owner') /\ IsDatabase(db')
  BY <1>0, <1>1, <1>2
<1> QED BY <1>9, <1>10, <1>11, <1>12 DEF BranchInv

LEMMA AmendSteps ==
  ASSUME BranchInv, Amend PROVE BranchInv'
<1> DEFINE c == CommitAt(now + 1, Last(log).changes, Last(log).message)
           new == Append(Front(log), c)
<1>0. /\ IsBranch(log, now, owner) /\ IsLog(log, now) /\ RowsFit(log, db) /\ RowsUpTo(db, now)
      /\ IsDatabase(db) /\ RowsInv /\ RunInv /\ IndexInv
  BY DEF BranchInv, IsBranch, RowsInv
<1>1. log' = new /\ now' = now + 1 /\ db' = db /\ files' = files /\ run' = run /\ owner' = owner
      /\ marks' = marks \cup (IF Last(log).sha \in DOMAIN db.commits THEN {"amended"} ELSE {})
                        \cup (IF run.phase = "idle" THEN {} ELSE {"moved"})
  BY DEF Amend
<1>2. IsBranch(new, now + 1, owner)
  BY <1>0, AmendedBranch
<1>3. PICK n \in Nat : n = Len(log) /\ n >= 1 /\ now \in Nat
  BY <1>0, LogsAreSequences DEF IsLog
<1>4. /\ IsNewer(new, log, now, n)
      /\ Last(log) = log[n]
  <2>1. /\ Len(new) = n /\ \A i \in 1 .. n - 1 : new[i] = log[i]
        /\ new[n] = c /\ Last(log) = log[n]
    <3> HIDE DEF c
    <3> QED BY <1>0, <1>3, AmendedLog
  <2>2. c.sha = now + 1
    BY DEF CommitAt
  <2> HIDE DEF new, c
  <2> QED BY <1>3, <2>1, <2>2 DEF IsNewer
<1> HIDE DEF new
<1>5. RowsFit(new, db)
  BY <1>0, <1>4, RowsFitNewer
<1>6. RowsUpTo(db, now + 1)
  BY <1>0, <1>3 DEF RowsUpTo
<1>7. "amended" \notin marks' => "amended" \notin marks /\ ~ IsKept(log, db, n)
  BY <1>0, <1>1, <1>4 DEF IsKept, RowsUpTo
<1>8. "amended" \notin marks' => \A i \in 1 .. Len(log) : IsKept(log, db, i) => i \in 1 .. n - 1
  BY <1>3, <1>7
<1>9. "amended" \notin marks' => RowsAreOfLog(new, db)
  BY <1>0, <1>4, <1>7, <1>8, RowsOfNewer DEF RowsInv
<1>10. RowsInv'
  BY <1>1, <1>5, <1>6, <1>9 DEF RowsInv
<1>11. RunInv'
  <2>1. run.phase # "idle" => "moved" \in marks'
    BY <1>1
  <2> QED BY <1>0, <1>1, <2>1 DEF RunInv
<1>12. IndexInv'
  <2> SUFFICES ASSUME run.phase = "idle", marks' = {}, files # <<>>
               PROVE  db.co_changes = coupling_of(db, DOMAIN files) /\ \E k : IsIndexOf(files, new, db, k)
    BY <1>1 DEF IndexInv
  <2>1. marks = {}
    BY <1>1
  <2>2. PICK k : IsIndexOf(files, log, db, k) /\ db.co_changes = coupling_of(db, DOMAIN files)
    BY <1>0, <2>1 DEF IndexInv
  <2>3. k \in 1 .. n - 1
    BY <1>3, <1>8, <2>2 DEF IsIndexOf
  <2>4. IsIndexOf(files, new, db, k)
    BY <1>0, <1>4, <2>2, <2>3, IndexOfNewer
  <2> QED BY <2>2, <2>4
<1>13. IsBranch(log', now', owner') /\ IsDatabase(db')
  BY <1>0, <1>1, <1>2
<1> QED BY <1>10, <1>11, <1>12, <1>13 DEF BranchInv

LEMMA EditSteps ==
  ASSUME BranchInv, Edit PROVE BranchInv'
<1>1. PICK paths \in SUBSET DOMAIN owner, message \in Messages :
        /\ Cardinality(paths) \in 1 .. MaxEdited
        /\ Commit({Change(p, NoPath, owner[p]) : p \in paths}, message)
        /\ UNCHANGED owner
  BY DEF Edit
<1> DEFINE changes == {Change(p, NoPath, owner[p]) : p \in paths}
<1>0. IsBranch(log, now, owner)
  BY DEF BranchInv
<1>2. paths # {}
  BY <1>1, FS_EmptySet
<1>3. \A p \in paths : LET d == Change(p, NoPath, owner[p]) IN d.path = p /\ d.from = NoPath /\ d.file = owner[p]
  BY DEF Change
<1>4. \A p \in DOMAIN owner : p \in Paths /\ p # NoPath
  BY <1>0, OwnedFiles, PathsAreNumbers
<1>5. \A p, q \in DOMAIN owner : owner[p] = owner[q] => p = q
  BY <1>0, OwnersDiffer
<1>6. \A d \in changes : \E p \in paths : d = Change(p, NoPath, owner[p]) /\ d.path = p /\ d.from = NoPath /\ d.file = owner[p]
  BY <1>3
<1>7. IsNext(changes, owner, log, now)
  <2>1. changes # {}
    BY <1>2
  <2> HIDE DEF changes
  <2> QED BY <1>4, <1>5, <1>6, <2>1 DEF IsNext
<1>8. ASSUME NEW p \in DOMAIN owner'
      PROVE  /\ p \in Paths
             /\ \/ \E d \in changes : d.file = owner'[p] /\ d.path = p
                \/ p \in DOMAIN owner /\ owner'[p] = owner[p] /\ \A d \in changes : d.file # owner[p]
  <2>0. owner' = owner
    BY <1>1
  <2>1. CASE p \in paths
    <3>1. Change(p, NoPath, owner[p]) \in changes
      BY <2>1
    <3> HIDE DEF changes
    <3> QED BY <1>3, <1>4, <2>0, <2>1, <3>1
  <2>2. CASE p \notin paths
    <3> HIDE DEF changes
    <3> QED BY <1>4, <1>5, <1>6, <2>0, <2>2
  <2> QED BY <2>1, <2>2
<1>9. Commit(changes, message)
  BY <1>1
<1> HIDE DEF changes
<1> QED BY <1>7, <1>8, <1>9, CommitSteps

LEMMA CreateSteps ==
  ASSUME BranchInv, Create PROVE BranchInv'
<1>1. PICK p \in Paths \ DOMAIN owner :
        /\ Commit({Change(p, NoPath, <<now + 1, p>>)}, Plain)
        /\ owner' = [q \in DOMAIN owner \cup {p} |-> IF q = p THEN <<now + 1, p>> ELSE owner[q]]
  BY DEF Create
<1> DEFINE d == Change(p, NoPath, <<now + 1, p>>)
<1>0. IsBranch(log, now, owner) /\ now \in Nat
  BY DEF BranchInv, IsBranch, IsLog
<1>2. d.path = p /\ d.from = NoPath /\ d.file = <<now + 1, p>> /\ p \in Paths /\ p # NoPath
  BY PathsAreNumbers DEF Change
<1>3. ASSUME NEW q \in DOMAIN owner PROVE q \in Paths /\ owner[q] # <<now + 1, p>>
  <2>1. q \in Paths /\ owner[q] \in Nat \X Paths /\ owner[q][1] <= now
    BY <1>0, OwnedFiles
  <2> QED BY <1>0, <2>1
<1>4. /\ DOMAIN owner' = DOMAIN owner \cup {p} /\ owner'[p] = <<now + 1, p>>
      /\ \A q \in DOMAIN owner : owner'[q] = owner[q]
  BY <1>1
<1> HIDE DEF d
<1>5. IsNext({d}, owner, log, now)
  BY <1>2 DEF IsNext
<1>6. ASSUME NEW q \in DOMAIN owner'
      PROVE  /\ q \in Paths
             /\ \/ \E e \in {d} : e.file = owner'[q] /\ e.path = q
                \/ q \in DOMAIN owner /\ owner'[q] = owner[q] /\ \A e \in {d} : e.file # owner[q]
  BY <1>2, <1>3, <1>4
<1>7. Commit({d}, Plain)
  BY <1>1 DEF d
<1> QED BY <1>5, <1>6, <1>7, CommitSteps

LEMMA RenameSteps ==
  ASSUME BranchInv, Rename PROVE BranchInv'
<1>1. PICK p \in DOMAIN owner, q \in Paths \ DOMAIN owner :
        /\ Commit({Change(q, p, owner[p])}, Plain)
        /\ owner' = [r \in (DOMAIN owner \ {p}) \cup {q} |-> IF r = q THEN owner[p] ELSE owner[r]]
  BY DEF Rename
<1> DEFINE d == Change(q, p, owner[p])
<1>0. IsBranch(log, now, owner)
  BY DEF BranchInv
<1>2. d.path = q /\ d.from = p /\ d.file = owner[p] /\ p # q
  BY DEF Change
<1>3. \A r \in DOMAIN owner : r \in Paths /\ (owner[r] = owner[p] => r = p)
  BY <1>0, OwnedFiles, OwnersDiffer
<1>4. /\ DOMAIN owner' = (DOMAIN owner \ {p}) \cup {q} /\ owner'[q] = owner[p]
      /\ \A r \in DOMAIN owner \ {p} : owner'[r] = owner[r]
  BY <1>1 DEF Restrict
<1> HIDE DEF d
<1>5. IsNext({d}, owner, log, now)
  BY <1>2, <1>3 DEF IsNext
<1>6. ASSUME NEW r \in DOMAIN owner'
      PROVE  /\ r \in Paths
             /\ \/ \E e \in {d} : e.file = owner'[r] /\ e.path = r
                \/ r \in DOMAIN owner /\ owner'[r] = owner[r] /\ \A e \in {d} : e.file # owner[r]
  BY <1>2, <1>3, <1>4
<1>7. Commit({d}, Plain)
  BY <1>1 DEF d
<1> QED BY <1>5, <1>6, <1>7, CommitSteps

LEMMA DeleteSteps ==
  ASSUME BranchInv, Delete PROVE BranchInv'
<1>1. PICK p \in DOMAIN owner :
        /\ Commit({Change(p, NoPath, owner[p])}, Plain)
        /\ owner' = Restrict(owner, DOMAIN owner \ {p})
  BY DEF Delete
<1> DEFINE d == Change(p, NoPath, owner[p])
<1>0. IsBranch(log, now, owner)
  BY DEF BranchInv
<1>2. d.path = p /\ d.from = NoPath /\ d.file = owner[p]
  BY DEF Change
<1>3. \A r \in DOMAIN owner : r \in Paths /\ r # NoPath /\ (owner[r] = owner[p] => r = p)
  BY <1>0, OwnedFiles, OwnersDiffer, PathsAreNumbers
<1>4. /\ DOMAIN owner' = DOMAIN owner \ {p}
      /\ \A r \in DOMAIN owner \ {p} : owner'[r] = owner[r]
  BY <1>1 DEF Restrict
<1> HIDE DEF d
<1>5. IsNext({d}, owner, log, now)
  BY <1>2, <1>3 DEF IsNext
<1>6. ASSUME NEW r \in DOMAIN owner'
      PROVE  /\ r \in Paths
             /\ \/ \E e \in {d} : e.file = owner'[r] /\ e.path = r
                \/ r \in DOMAIN owner /\ owner'[r] = owner[r] /\ \A e \in {d} : e.file # owner[r]
  BY <1>2, <1>3, <1>4
<1>7. Commit({d}, Plain)
  BY <1>1 DEF d
<1> QED BY <1>5, <1>6, <1>7, CommitSteps

--------------------------------------------------------------------------------
(* The run. *)

LEMMA UpgradeSteps ==
  ASSUME BranchInv, Upgrade PROVE BranchInv'
<1>1. UNCHANGED <<log, owner, now, db, files, run, marks>>
  BY DEF Upgrade
<1> QED BY <1>1 DEF BranchInv, RowsInv, RunInv, IndexInv, Stored

LEMMA ParseSteps ==
  ASSUME BranchInv, Parse PROVE BranchInv'
<1>1. /\ run' = [phase |-> "parsed", parsed |-> owner] /\ marks' = marks \ {"moved"}
      /\ UNCHANGED <<log, owner, now, threshold, db, files>>
  BY DEF Parse
<1>2. RowsInv' /\ RunInv' /\ IndexInv'
  BY <1>1 DEF BranchInv, RowsInv, RunInv, IndexInv
<1> QED BY <1>1, <1>2 DEF BranchInv

LEMMA SyncSteps ==
  ASSUME BranchInv, SyncIndex PROVE BranchInv'
<1>1. /\ run.phase = "ingested" /\ files' = run.parsed /\ run' = [run EXCEPT !.phase = "synced"]
      /\ UNCHANGED <<log, owner, now, threshold, db, marks>>
  BY DEF SyncIndex
<1>2. run' = [phase |-> "synced", parsed |-> run.parsed]
  BY <1>1 DEF BranchInv, RunInv
<1>3. RowsInv' /\ RunInv' /\ IndexInv'
  BY <1>1, <1>2 DEF BranchInv, RowsInv, RunInv, IndexInv
<1> QED BY <1>1, <1>3 DEF BranchInv

LEMMA InterruptSteps ==
  ASSUME BranchInv, Interrupt PROVE BranchInv'
<1>1. /\ run' = Idle /\ marks' = marks \cup {"interrupted"}
      /\ UNCHANGED <<log, owner, now, threshold, db, files>>
  BY DEF Interrupt
<1>2. RowsInv' /\ RunInv' /\ IndexInv'
  BY <1>1 DEF BranchInv, RowsInv, RunInv, IndexInv, Idle
<1> QED BY <1>1, <1>2 DEF BranchInv

LEMMA IngestSteps ==
  ASSUME BranchInv, Ingest, IsDatabase(db') PROVE BranchInv'
<1>1. /\ run.phase = "parsed" /\ db' = ingest_git(db, log, now, threshold)
      /\ run' = [run EXCEPT !.phase = "ingested"]
      /\ UNCHANGED <<log, owner, now, threshold, files, marks>>
  BY DEF Ingest
<1>2. run' = [phase |-> "ingested", parsed |-> run.parsed]
  BY <1>1 DEF BranchInv, RunInv
<1>3. /\ RowsFit(log, db') /\ RowsUpTo(db', now) /\ IsKept(log, db', Len(log))
      /\ RowsAreOfLog(log, db) => RowsAreOfLog(log, db')
  BY <1>1, IngestedFit DEF BranchInv, RowsInv
<1>4. RowsInv'
  BY <1>1, <1>3 DEF BranchInv, RowsInv
<1>5. RunInv' /\ IndexInv'
  BY <1>1, <1>2, <1>3 DEF BranchInv, RunInv, IndexInv
<1> QED BY <1>1, <1>4, <1>5 DEF BranchInv

LEMMA ReplaceSteps ==
  ASSUME BranchInv, ReplaceCoChanges PROVE BranchInv'
<1>1. /\ run.phase = "synced" /\ db' = [db EXCEPT !.co_changes = coupling_of(db, DOMAIN files)]
      /\ run' = Idle /\ marks' = marks \ {"interrupted"}
      /\ UNCHANGED <<log, owner, now, threshold, files>>
  BY DEF ReplaceCoChanges
<1>2. PICK pairs : pairs = coupling_of(db, DOMAIN files)
  OBVIOUS
<1>3. db' = [commits |-> db.commits, changes |-> db.changes, co_changes |-> pairs]
  BY <1>1, <1>2 DEF BranchInv, IsDatabase
<1>4. IsDatabase(db') /\ SameHistory(db, db') /\ db'.co_changes = pairs
  BY <1>3 DEF BranchInv, IsDatabase, SameHistory
<1>5. pairs = coupling_of(db', DOMAIN files)
  BY <1>2, <1>4, SameCoupling
<1>6. \A i : IsKept(log, db', i) <=> IsKept(log, db, i)
  BY <1>4 DEF SameHistory, IsKept
<1>7. RowsInv'
  BY <1>1, <1>4, <1>6 DEF BranchInv, RowsInv, RowsFit, RowsUpTo, RowsAreOfLog, SameHistory
<1>8. RunInv'
  BY <1>1 DEF RunInv, Idle
<1>9. IndexInv'
  <2> SUFFICES ASSUME marks' = {} PROVE \E k : IsIndexOf(files, log, db', k)
    BY <1>1, <1>4, <1>5 DEF IndexInv
  <2>1. files = owner /\ IsKept(log, db, Len(log))
    BY <1>1 DEF BranchInv, RunInv
  <2>2. IsBranch(log, now, owner)
    BY DEF BranchInv
  <2>3. Len(log) \in Nat /\ Len(log) >= 1
    BY <2>2, LogsAreSequences DEF IsBranch
  <2>4. IsIndexOf(files, log, db', Len(log))
    BY <1>6, <2>1, <2>2, <2>3 DEF IsIndexOf, IsBranch, IsOwner
  <2> QED BY <2>4
<1> QED BY <1>1, <1>4, <1>7, <1>8, <1>9 DEF BranchInv

--------------------------------------------------------------------------------
(* The history follows the files. *)

\* The log is a branch of commits, the rows are those of its commits, and an index that
\* is left with no mark is of the last commit that was kept.
THEOREM BranchInvariance == Spec => []BranchInv
<1>1. BranchInv /\ [Next]_vars => BranchInv'
  <2> SUFFICES ASSUME BranchInv, [Next]_vars PROVE BranchInv'
    OBVIOUS
  <2>1. CASE Edit
    BY <2>1, EditSteps
  <2>2. CASE Create
    BY <2>2, CreateSteps
  <2>3. CASE Rename
    BY <2>3, RenameSteps
  <2>4. CASE Delete
    BY <2>4, DeleteSteps
  <2>5. CASE Amend
    BY <2>5, AmendSteps
  <2>6. CASE Upgrade
    BY <2>6, UpgradeSteps
  <2>7. CASE Parse
    BY <2>7, ParseSteps
  <2>8. CASE Ingest
    <3>1. IsDatabase(db')
      BY <2>8, IngestStep DEF BranchInv, HistoryInv
    <3> QED BY <2>8, <3>1, IngestSteps
  <2>9. CASE SyncIndex
    BY <2>9, SyncSteps
  <2>10. CASE ReplaceCoChanges
    BY <2>10, ReplaceSteps
  <2>11. CASE Interrupt
    BY <2>11, InterruptSteps
  <2>12. CASE UNCHANGED vars
    BY <2>12 DEF vars, BranchInv, RowsInv, RunInv, IndexInv
  <2> QED BY <2>1, <2>2, <2>3, <2>4, <2>5, <2>6, <2>7, <2>8, <2>9, <2>10, <2>11, <2>12 DEF Next
<1> QED BY BranchStarts, <1>1, PTL DEF Spec

\* Of one state of a branch whose paths name one file each, the churn of a file and the
\* pairs that change together are those of the stored commits that touched the files under
\* any name, whatever was renamed, amended, interrupted or indexed before
\* (`canonical_path`, `file_churn`, `co_changed_pairs`, `replace_co_changes`).
THEOREM FilesAreFollowed == Spec => []HistoryFollowsFiles
<1>1. BranchInv => HistoryFollowsFiles
  BY ChurnByInvariant, CouplingByInvariant DEF HistoryFollowsFiles
<1> QED BY BranchInvariance, <1>1, PTL

--------------------------------------------------------------------------------
(* What a history adds to a diagnosis. *)

SumOver(a, S) == MapThenSumSet(LAMBDA x : a[x], S)

\* However a set is summed, nothing comes of nothing.
LEMMA SumOfNothing ==
  ASSUME NEW S, IsFiniteSet(S), NEW a, \A x \in S : a[x] = 0
  PROVE  SumOver(a, S) = 0
<1> DEFINE Step(g) ==
             [s \in SUBSET S |-> IF s = {} THEN 0 ELSE LET x == CHOOSE x \in s : TRUE IN a[x] + g[s \ {x}]]
           g == CHOOSE f : f = Step(f)
           z == [s \in SUBSET S |-> 0]
<1>1. z = Step(z)
  <2> SUFFICES ASSUME NEW s \in SUBSET S, s # {}
               PROVE  LET x == CHOOSE x \in s : TRUE IN a[x] + z[s \ {x}] = 0
    OBVIOUS
  <2>1. (CHOOSE x \in s : TRUE) \in s
    OBVIOUS
  <2> QED BY <2>1
<1>2. g = Step(g)
  BY <1>1
<1>3. SumOver(a, S) = g[S]
  BY DEF SumOver, MapThenSumSet, MapThenFoldSet
<1> HIDE DEF g
<1> DEFINE good == {n \in Nat : \A s \in SUBSET S : Cardinality(s) = n => g[s] = 0}
<1>4. ASSUME NEW s \in SUBSET S PROVE IsFiniteSet(s)
  BY FS_Subset
<1>5. 0 \in good
  <2> SUFFICES ASSUME NEW s \in SUBSET S, Cardinality(s) = 0 PROVE g[s] = 0
    OBVIOUS
  <2>1. s = {}
    BY <1>4, FS_EmptySet
  <2> QED BY <1>2, <2>1
<1>6. ASSUME NEW n \in Nat, n \in good PROVE n + 1 \in good
  <2> SUFFICES ASSUME NEW s \in SUBSET S, Cardinality(s) = n + 1 PROVE g[s] = 0
    OBVIOUS
  <2> DEFINE x == CHOOSE x \in s : TRUE
  <2>1. s # {}
    BY <1>4, FS_EmptySet
  <2>2. x \in s
    BY <2>1
  <2>3. Cardinality(s \ {x}) = n
    <3>1. IsFiniteSet(s) /\ Cardinality(s \ {x}) = Cardinality(s) - 1
      BY <1>4, <2>2, FS_RemoveElement
    <3> QED BY <3>1
  <2>4. g[s \ {x}] = 0
    BY <1>6, <2>3
  <2>5. g[s] = a[x] + g[s \ {x}]
    BY <1>2, <2>1
  <2> QED BY <2>2, <2>4, <2>5
<1> HIDE DEF good
<1>7. \A n \in Nat : n \in good
  BY <1>5, <1>6, AllNumbers
<1>8. g[S] = 0
  BY <1>7, FS_CardinalityType DEF good
<1> QED BY <1>3, <1>8

IsInput(i) ==
  /\ i = [files |-> i.files, deps |-> i.deps, churn |-> i.churn, complexity |-> i.complexity,
          abstract |-> i.abstract, total |-> i.total, co_change |-> i.co_change]
  /\ IsFiniteSet(i.files) /\ i.deps \in Seq(Range(i.deps)) /\ DOMAIN i.churn = i.files

\* The graphs of a diagnosis with and without the history: all but the churn is the same.
SameStructure(g, h) ==
  /\ g.components = h.components /\ g.edges = h.edges /\ g.runtime_edges = h.runtime_edges
  /\ g.fan_in = h.fan_in /\ g.fan_out = h.fan_out /\ g.files = h.files
  /\ g.abstract_types = h.abstract_types /\ g.total_types = h.total_types

LEMMA WithoutIsInput ==
  ASSUME NEW i, IsInput(i)
  PROVE  LET o == WithoutHistory(i)
         IN /\ o.files = i.files /\ o.deps = i.deps /\ o.complexity = i.complexity /\ o.abstract = i.abstract
            /\ o.total = i.total /\ o.co_change = {} /\ o.churn = [f \in i.files |-> 0]
<1> DEFINE r == [files |-> i.files, deps |-> i.deps, churn |-> i.churn, complexity |-> i.complexity,
                 abstract |-> i.abstract, total |-> i.total, co_change |-> i.co_change]
           w == [r EXCEPT !.churn = [f \in i.files |-> 0], !.co_change = {}]
<1>1. WithoutHistory(i) = w
  BY DEF WithoutHistory, IsInput
<1>2. /\ w.files = i.files /\ w.deps = i.deps /\ w.complexity = i.complexity /\ w.abstract = i.abstract
      /\ w.total = i.total /\ w.co_change = {} /\ w.churn = [f \in i.files |-> 0]
  OBVIOUS
<1> QED BY <1>1, <1>2

OwnedBy(fs, config) == {<<component_for(f, config), f>> : f \in {x \in fs : ~ is_excluded(x, config)}}
ComponentsOf(fs, ds, config) ==
  {x[1] : x \in OwnedBy(fs, config)}
  \cup UNION {{component_for(d.from, config), component_for(d.to, config)}
              : d \in {e \in Range(ds) : leads_to_file(e) /\ is_included(e, config)}}
FilesIn(fs, ds, config) ==
  [c \in ComponentsOf(fs, ds, config) |-> {x[2] : x \in {y \in OwnedBy(fs, config) : y[1] = c}}]
Totals(amounts, of) == [c \in DOMAIN of |-> SumOver(amounts, of[c])]

IsGraphOf(g, fs, ds, churn, abstract, total, config) ==
  LET C == ComponentsOf(fs, ds, config)
      of == FilesIn(fs, ds, config)
      rows == BetweenComponents(ds, config)
      edges == local_dependency_edges(rows)
  IN /\ g.components = C /\ g.edges = edges /\ g.runtime_edges = runtime_edges(rows)
     /\ g.fan_in = [c \in C |-> Cardinality({e \in edges : e[2] = c})]
     /\ g.fan_out = [c \in C |-> Cardinality({e \in edges : e[1] = c})]
     /\ g.files = [c \in C |-> Cardinality(of[c])]
     /\ g.churn = Totals(churn, of)
     /\ g.abstract_types = Totals(abstract, of) /\ g.total_types = Totals(total, of)

LEMMA PartsOfGraph ==
  ASSUME NEW i, NEW config
  PROVE  IsGraphOf(build_graph(i, config), i.files, i.deps, i.churn, i.abstract, i.total, config)
<1> DEFINE C == ComponentsOf(i.files, i.deps, config)
           of == FilesIn(i.files, i.deps, config)
           rows == BetweenComponents(i.deps, config)
           edges == local_dependency_edges(rows)
<1>1. DOMAIN of = C
  BY DEF FilesIn
<1>2. /\ Totals(i.churn, of) = [c \in C |-> SumOver(i.churn, of[c])]
      /\ Totals(i.abstract, of) = [c \in C |-> SumOver(i.abstract, of[c])]
      /\ Totals(i.total, of) = [c \in C |-> SumOver(i.total, of[c])]
  BY <1>1 DEF Totals
<1>3. build_graph(i, config) =
        [components |-> C, edges |-> edges, runtime_edges |-> runtime_edges(rows),
         fan_in |-> [c \in C |-> Cardinality({e \in edges : e[2] = c})],
         fan_out |-> [c \in C |-> Cardinality({e \in edges : e[1] = c})],
         files |-> [c \in C |-> Cardinality(of[c])],
         churn |-> [c \in C |-> SumOver(i.churn, of[c])],
         complexity |-> [c \in C |-> SumOver(i.complexity, of[c])],
         abstract_types |-> [c \in C |-> SumOver(i.abstract, of[c])],
         total_types |-> [c \in C |-> SumOver(i.total, of[c])]]
  BY Zenon DEF build_graph, ComponentsOf, FilesIn, OwnedBy, SumOver
<1> DEFINE ins == [c \in C |-> Cardinality({e \in edges : e[2] = c})]
           outs == [c \in C |-> Cardinality({e \in edges : e[1] = c})]
           sizes == [c \in C |-> Cardinality(of[c])]
           complexity == [c \in C |-> SumOver(i.complexity, of[c])]
           g == build_graph(i, config)
<1>4. g = [components |-> C, edges |-> edges, runtime_edges |-> runtime_edges(rows), fan_in |-> ins,
           fan_out |-> outs, files |-> sizes, churn |-> Totals(i.churn, of), complexity |-> complexity,
           abstract_types |-> Totals(i.abstract, of), total_types |-> Totals(i.total, of)]
  BY <1>2, <1>3, Zenon
<1> HIDE DEF C, of, rows, edges, ins, outs, sizes, complexity, g
<1>5. /\ g.components = C /\ g.edges = edges /\ g.runtime_edges = runtime_edges(rows)
      /\ g.fan_in = ins /\ g.fan_out = outs /\ g.files = sizes
      /\ g.churn = Totals(i.churn, of)
      /\ g.abstract_types = Totals(i.abstract, of) /\ g.total_types = Totals(i.total, of)
  BY <1>4
<1> QED BY <1>5, Zenon DEF IsGraphOf, C, of, rows, edges, ins, outs, sizes, g

LEMMA GraphsHaveOneStructure ==
  ASSUME NEW i, IsInput(i), NEW config
  PROVE  SameStructure(build_graph(i, config), build_graph(WithoutHistory(i), config))
<1>1. LET o == WithoutHistory(i)
      IN o.files = i.files /\ o.deps = i.deps /\ o.abstract = i.abstract /\ o.total = i.total
  BY WithoutIsInput
<1> DEFINE o == WithoutHistory(i)
           g == build_graph(i, config)
           h == build_graph(o, config)
<1>2. IsGraphOf(g, i.files, i.deps, i.churn, i.abstract, i.total, config)
  BY PartsOfGraph
<1>3. IsGraphOf(h, i.files, i.deps, o.churn, i.abstract, i.total, config)
  BY <1>1, PartsOfGraph
<1> HIDE DEF o, g, h
<1>4. SameStructure(g, h)
  BY <1>2, <1>3, Zenon DEF IsGraphOf, SameStructure
<1> QED BY <1>4 DEF o, g, h

LEMMA ComponentsAreFinite ==
  ASSUME NEW i, IsInput(i), NEW config
  PROVE  /\ IsFiniteSet(ComponentsOf(i.files, i.deps, config))
         /\ \A c \in ComponentsOf(i.files, i.deps, config) :
              /\ IsFiniteSet(FilesIn(i.files, i.deps, config)[c])
              /\ FilesIn(i.files, i.deps, config)[c] \subseteq i.files
<1> DEFINE kept == {x \in i.files : ~ is_excluded(x, config)}
           used == {e \in Range(i.deps) : leads_to_file(e) /\ is_included(e, config)}
           of == FilesIn(i.files, i.deps, config)
<1>1. IsFiniteSet(i.files) /\ IsFiniteSet(kept)
  BY FS_Subset DEF IsInput
<1>2. {x[1] : x \in OwnedBy(i.files, config)} = {component_for(f, config) : f \in kept}
  <2>1. ASSUME NEW f \in kept PROVE component_for(f, config) \in {x[1] : x \in OwnedBy(i.files, config)}
    <3>1. <<component_for(f, config), f>> \in OwnedBy(i.files, config)
      BY DEF OwnedBy
    <3> QED BY <3>1
  <2>2. ASSUME NEW x \in OwnedBy(i.files, config) PROVE x[1] \in {component_for(f, config) : f \in kept}
    <3>1. PICK f \in kept : x = <<component_for(f, config), f>>
      BY DEF OwnedBy
    <3> QED BY <3>1
  <2> HIDE DEF kept
  <2> QED BY <2>1, <2>2
<1>3. IsFiniteSet({component_for(f, config) : f \in kept})
  <2> DEFINE at == [f \in kept |-> component_for(f, config)]
  <2>1. {component_for(f, config) : f \in kept} = {at[f] : f \in kept} /\ DOMAIN at = kept
    OBVIOUS
  <2> HIDE DEF kept, at
  <2>2. IsFiniteSet({at[f] : f \in kept})
    BY <1>1, <2>1, ImageIsFinite
  <2> QED BY <2>1, <2>2
<1>4. IsFiniteSet(used)
  <2>1. IsFiniteSet(Range(i.deps))
    <3> DEFINE n == Len(i.deps)
    <3>1. n \in Nat /\ DOMAIN i.deps = 1 .. n
      BY DEF IsInput
    <3>2. Range(i.deps) = {i.deps[k] : k \in 1 .. n}
      BY <3>1 DEF Range
    <3>3. IsFiniteSet(1 .. n)
      BY <3>1, FS_Interval
    <3> DEFINE ds == i.deps
    <3>0. DOMAIN ds = 1 .. n
      BY <3>1
    <3> HIDE DEF n, ds
    <3>4. IsFiniteSet({ds[k] : k \in 1 .. n})
      BY <3>0, <3>3, ImageIsFinite
    <3> QED BY <3>2, <3>4 DEF ds
  <2> QED BY <2>1, FS_Subset
<1>5. IsFiniteSet(UNION {{component_for(d.from, config), component_for(d.to, config)} : d \in used})
  <2> DEFINE ends == UNION {{component_for(d.from, config), component_for(d.to, config)} : d \in used}
             from == {component_for(d.from, config) : d \in used}
             to == {component_for(d.to, config) : d \in used}
  <2>1. ends = from \cup to
    OBVIOUS
  <2>2. IsFiniteSet(from) /\ IsFiniteSet(to)
    <3> DEFINE at == [d \in used |-> component_for(d.from, config)]
               behind == [d \in used |-> component_for(d.to, config)]
    <3>1. from = {at[d] : d \in used} /\ to = {behind[d] : d \in used}
          /\ DOMAIN at = used /\ DOMAIN behind = used
      OBVIOUS
    <3> HIDE DEF used, at, behind
    <3>2. IsFiniteSet({at[d] : d \in used})
      BY <1>4, <3>1, ImageIsFinite
    <3>3. IsFiniteSet({behind[d] : d \in used})
      BY <1>4, <3>1, ImageIsFinite
    <3> QED BY <3>1, <3>2, <3>3
  <2> HIDE DEF ends, from, to
  <2>3. IsFiniteSet(ends)
    BY <2>1, <2>2, FS_Union
  <2> QED BY <2>3 DEF ends
<1>6. IsFiniteSet(ComponentsOf(i.files, i.deps, config))
  BY <1>2, <1>3, <1>5, FS_Union DEF ComponentsOf
<1>7. ASSUME NEW c \in ComponentsOf(i.files, i.deps, config)
      PROVE  IsFiniteSet(of[c]) /\ of[c] \subseteq i.files
  <2>1. of[c] \subseteq i.files
    BY DEF FilesIn, OwnedBy
  <2> HIDE DEF of
  <2> QED BY <1>1, <2>1, FS_Subset
<1> QED BY <1>6, <1>7

\* Without a history there is nothing to measure.
LEMMA NothingChanged ==
  ASSUME NEW i, IsInput(i), NEW config, config.evolutionary_min_history \in Nat \ {0}
  PROVE  ~ Measurable(build_graph(WithoutHistory(i), config), config)
<1> DEFINE o == WithoutHistory(i)
           h == build_graph(o, config)
           C == ComponentsOf(i.files, i.deps, config)
           of == FilesIn(i.files, i.deps, config)
<1>1. o.files = i.files /\ o.deps = i.deps /\ o.churn = [f \in i.files |-> 0]
  BY WithoutIsInput
<1>2. h.components = C /\ h.churn = Totals(o.churn, of)
  <2>1. IsGraphOf(h, i.files, i.deps, o.churn, i.abstract, i.total, config)
    <3>1. IsGraphOf(h, o.files, o.deps, o.churn, o.abstract, o.total, config)
      BY PartsOfGraph
    <3>2. o.abstract = i.abstract /\ o.total = i.total
      BY WithoutIsInput
    <3> HIDE DEF o, h
    <3> QED BY <1>1, <3>1, <3>2
  <2> HIDE DEF o, h
  <2> QED BY <2>1, Zenon DEF IsGraphOf
<1>3. DOMAIN of = C
  BY DEF FilesIn
<1>4. ASSUME NEW c \in C PROVE h.churn[c] = 0
  <2>1. IsFiniteSet(of[c]) /\ of[c] \subseteq i.files
    BY ComponentsAreFinite
  <2>2. \A f \in of[c] : o.churn[f] = 0
    <3> HIDE DEF o, of
    <3> QED BY <1>1, <2>1
  <2>3. h.churn[c] = SumOver(o.churn, of[c])
    <3> HIDE DEF o, of, C, h
    <3> QED BY <1>2, <1>3 DEF Totals
  <2> HIDE DEF o, of, C, h
  <2>4. SumOver(o.churn, of[c]) = 0
    BY <2>1, <2>2, SumOfNothing
  <2> QED BY <2>3, <2>4
<1>5. IsFiniteSet(C)
  BY ComponentsAreFinite
<1> HIDE DEF o, C, of, h
<1>6. SumOver(h.churn, C) = 0
  BY <1>4, <1>5, SumOfNothing
<1>7. TotalChurn(h) = 0
  BY <1>2, <1>6, Zenon DEF TotalChurn, SumOver
<1>8. ~ Measurable(h, config)
  BY <1>7 DEF Measurable
<1> QED BY <1>8 DEF h, o

--------------------------------------------------------------------------------
(* What the detectors read. *)

\* Those that the history has nothing to say to.
StructuralFindings(g, input, config) ==
  detect_cyclic_dependency(g, input, config) \cup detect_file_cycle(input, config)
  \cup detect_hub_like(g, config) \cup detect_unstable_dependency(g, config)
  \cup detect_god_component(g, config) \cup detect_dense_structure(g, config)
EvolutionaryFindings(g, input, config) ==
  detect_hotspots(g, config) \cup detect_unstable_interface(g, config) \cup detect_change_coupling(g, input, config)

LEMMA DiagnosisIsSplit ==
  ASSUME NEW input, NEW config
  PROVE  LET g == build_graph(input, config)
         IN diagnose(input, config) =
              {x \in StructuralFindings(g, input, config) \cup detect_zone_of_pain(g, config)
                     \cup EvolutionaryFindings(g, input, config) : confident(x, g, input, config)}
<1> DEFINE g == build_graph(input, config)
           all == StructuralFindings(g, input, config) \cup detect_zone_of_pain(g, config)
                  \cup EvolutionaryFindings(g, input, config)
<1>1. detected(g, input, config) = all
  <2> HIDE DEF g
  <2> QED BY Zenon DEF detected, StructuralFindings, EvolutionaryFindings
<1>2. diagnose(input, config) = {x \in detected(g, input, config) : confident(x, g, input, config)}
  BY DEF diagnose
<1> HIDE DEF all, g
<1>3. diagnose(input, config) = {x \in all : confident(x, g, input, config)}
  BY <1>1, <1>2
<1> QED BY <1>3 DEF all, g

\* How confident a smell of the structure is does not depend on the history, nor on how
\* severe it is.
LEMMA ConfidenceIsStructural ==
  ASSUME NEW g, NEW h, SameStructure(g, h), NEW i, NEW o, NEW config,
         NEW x, NEW y, x.detector = y.detector, x.target = y.target, x.detector \notin Evolutionary
  PROVE  confident(x, g, i, config) <=> confident(y, h, o, config)
<1>1. confident(x, g, i, config) <=> confident_by_structure(x, g, config)
  BY DEF confident
<1>2. confident(y, h, o, config) <=> confident_by_structure(y, h, config)
  BY DEF confident
<1>3. \A c, d : MoreStable(g, c, d) <=> MoreStable(h, c, d)
  BY DEF SameStructure, MoreStable
<1>4. \A c : ZoneDistance(g, c) = ZoneDistance(h, c)
  BY DEF SameStructure, ZoneDistance
<1>5. confident_by_structure(x, g, config) <=> confident_by_structure(y, h, config)
  BY <1>3, <1>4, Zenon DEF SameStructure, confident_by_structure
<1> QED BY <1>1, <1>2, <1>5

LEMMA SameLoops ==
  ASSUME NEW g, NEW h, SameStructure(g, h), NEW i, NEW o, i.deps = o.deps, NEW config
  PROVE  /\ detect_cyclic_dependency(g, i, config) = detect_cyclic_dependency(h, o, config)
         /\ detect_file_cycle(i, config) = detect_file_cycle(o, config)
<1> DEFINE Loops(components, edges, ds) ==
             {LoopFinding("cyclic_dependency", scc, BetweenComponents(ds, config),
                          IF Cardinality(scc) >= 3 THEN high ELSE medium)
              : scc \in strongly_connected(components, edges)}
<1>1. \A k, j : detect_cyclic_dependency(k, j, config) = Loops(k.components, k.runtime_edges, j.deps)
  BY Zenon DEF detect_cyclic_dependency
<1>2. detect_cyclic_dependency(g, i, config) = detect_cyclic_dependency(h, o, config)
  <2> HIDE DEF Loops
  <2> QED BY <1>1 DEF SameStructure
<1> DEFINE FileLoops(ds) ==
             LET rows == BetweenFiles(ds, config)
                 component == [n \in {d.source : d \in Range(rows)} |->
                                 component_for((CHOOSE d \in Range(rows) : d.source = n).from, config)]
             IN {LoopFinding("file_cycle", scc, rows, IF Cardinality(scc) >= 4 THEN high ELSE medium)
                 : scc \in {s \in strongly_connected({d.source : d \in Range(rows)}, runtime_edges(rows)) :
                              Cardinality({component[n] : n \in s}) = 1}}
<1>3. \A j : detect_file_cycle(j, config) = FileLoops(j.deps)
  BY Zenon DEF detect_file_cycle
<1>4. detect_file_cycle(i, config) = detect_file_cycle(o, config)
  <2> HIDE DEF FileLoops
  <2> QED BY <1>3
<1> QED BY <1>2, <1>4

LEMMA SameHubs ==
  ASSUME NEW g, NEW h, SameStructure(g, h), NEW config
  PROVE  /\ detect_hub_like(g, config) = detect_hub_like(h, config)
         /\ detect_unstable_dependency(g, config) = detect_unstable_dependency(h, config)
         /\ detect_god_component(g, config) = detect_god_component(h, config)
         /\ detect_dense_structure(g, config) = detect_dense_structure(h, config)
<1>1. detect_hub_like(g, config) = detect_hub_like(h, config)
  BY Zenon DEF SameStructure, detect_hub_like
<1>2. detect_unstable_dependency(g, config) = detect_unstable_dependency(h, config)
  BY Zenon DEF SameStructure, detect_unstable_dependency, MoreStable
<1>3. detect_god_component(g, config) = detect_god_component(h, config)
  BY Zenon DEF SameStructure, detect_god_component
<1>4. detect_dense_structure(g, config) = detect_dense_structure(h, config)
  BY Zenon DEF SameStructure, detect_dense_structure
<1> QED BY <1>1, <1>2, <1>3, <1>4

LEMMA SameZones ==
  ASSUME NEW g, NEW h, SameStructure(g, h), NEW config, NEW c
  PROVE  InZone(g, c, config) <=> InZone(h, c, config)
BY DEF SameStructure, InZone, ZoneDistance

IsDiagnosis(x, detectors) ==
  \E d \in detectors, s \in {low, medium, high} : \E t, m, e : x = Diagnosis(d, t, m, s, e)

LEMMA NamesOfDetectors ==
  ASSUME NEW g, NEW input, NEW config
  PROVE  /\ \A x \in StructuralFindings(g, input, config) :
              IsDiagnosis(x, {"cyclic_dependency", "file_cycle", "hub_like_dependency", "unstable_dependency",
                              "god_component", "dense_structure"})
         /\ \A x \in EvolutionaryFindings(g, input, config) : IsDiagnosis(x, Evolutionary)
<1> DEFINE Is(x, d) == \E s \in {low, medium, high} : \E t, m, e : x = Diagnosis(d, t, m, s, e)
<1>1. ASSUME NEW d, NEW c, NEW s \in {low, medium, high} PROVE Is(OfComponent(d, c, s), d)
  BY DEF OfComponent
<1>2. ASSUME NEW d, NEW scc, NEW rows, NEW s \in {low, medium, high} PROVE Is(LoopFinding(d, scc, rows, s), d)
  BY DEF LoopFinding
<1>3. ASSUME NEW d, NEW t, NEW m, NEW e, NEW s \in {low, medium, high} PROVE Is(Diagnosis(d, t, m, s, e), d)
  OBVIOUS
<1> HIDE DEF Is
<1>4. ASSUME NEW x \in detect_cyclic_dependency(g, input, config) PROVE Is(x, "cyclic_dependency")
  BY <1>2 DEF detect_cyclic_dependency
<1>5. ASSUME NEW x \in detect_file_cycle(input, config) PROVE Is(x, "file_cycle")
  BY <1>2 DEF detect_file_cycle
<1>6. ASSUME NEW x \in detect_hub_like(g, config) PROVE Is(x, "hub_like_dependency")
  BY <1>1 DEF detect_hub_like
<1>7. ASSUME NEW x \in detect_unstable_dependency(g, config) PROVE Is(x, "unstable_dependency")
  BY <1>1 DEF detect_unstable_dependency
<1>8. ASSUME NEW x \in detect_god_component(g, config) PROVE Is(x, "god_component")
  BY <1>1 DEF detect_god_component
<1>9. ASSUME NEW x \in detect_dense_structure(g, config) PROVE Is(x, "dense_structure")
  BY <1>3 DEF detect_dense_structure
<1>10. ASSUME NEW x \in detect_hotspots(g, config) PROVE Is(x, "hotspot")
  BY <1>1, Zenon DEF detect_hotspots
<1>11. ASSUME NEW x \in detect_unstable_interface(g, config) PROVE Is(x, "unstable_interface")
  BY <1>1 DEF detect_unstable_interface
<1>12. ASSUME NEW x \in detect_change_coupling(g, input, config)
       PROVE  Is(x, "change_coupling") \/ Is(x, "modularity_violation")
  BY <1>3 DEF detect_change_coupling
<1>13. ASSUME NEW x, NEW D, NEW d \in D, Is(x, d) PROVE IsDiagnosis(x, D)
  BY <1>13 DEF IsDiagnosis, Is
<1>14. ASSUME NEW x \in StructuralFindings(g, input, config)
       PROVE  IsDiagnosis(x, {"cyclic_dependency", "file_cycle", "hub_like_dependency", "unstable_dependency",
                              "god_component", "dense_structure"})
  BY <1>4, <1>5, <1>6, <1>7, <1>8, <1>9, <1>13 DEF StructuralFindings
<1>15. ASSUME NEW x \in EvolutionaryFindings(g, input, config) PROVE IsDiagnosis(x, Evolutionary)
  BY <1>10, <1>11, <1>12, <1>13 DEF EvolutionaryFindings, Evolutionary
<1> QED BY <1>14, <1>15

LEMMA WhatDiagnosesAre ==
  ASSUME NEW x, NEW D, IsDiagnosis(x, D)
  PROVE  x.detector \in D /\ x = [x EXCEPT !.severity = x.severity] /\ x.severity >= x.severity
<1>1. PICK d \in D, s \in {low, medium, high} : \E t, m, e : x = Diagnosis(d, t, m, s, e)
  BY DEF IsDiagnosis
<1>2. PICK t, m, e : x = Diagnosis(d, t, m, s, e)
  BY <1>1
<1>3. s >= s
  BY DEF low, medium, high
<1> DEFINE fix == fix_spec[d]
<1>4. x = [detector |-> d, target |-> t, members |-> m, severity |-> s, evidence |-> e, fix |-> fix]
  BY <1>2 DEF Diagnosis
<1> HIDE DEF fix
<1> QED BY <1>3, <1>4

\* The three that speak of an evolution are silent when there is too little of it.
LEMMA SilentWithoutHistory ==
  ASSUME NEW h, NEW input, NEW config, ~ Measurable(h, config)
  PROVE  EvolutionaryFindings(h, input, config) = {}
BY Zenon DEF EvolutionaryFindings, detect_hotspots, detect_unstable_interface, detect_change_coupling

\* A zone of pain is one by its shape; how loud it is told depends on its changes.
LEMMA ZonesAreByShape ==
  ASSUME NEW g, NEW config
  PROVE  /\ \A x \in detect_zone_of_pain(g, config) :
              \E c \in g.components, s \in {low, medium, high} :
                InZone(g, c, config) /\ x = OfComponent("zone_of_pain", c, s)
                /\ (~ Measurable(g, config) => s = low)
         /\ \A c \in g.components : InZone(g, c, config) =>
              \E s \in {low, medium, high} : OfComponent("zone_of_pain", c, s) \in detect_zone_of_pain(g, config)
<1> DEFINE severity(c) ==
             IF ~ (Measurable(g, config) /\ g.churn[c] >= config.hotspot_min_churn) THEN low
             ELSE IF /\ 100 * ZoneDistance(g, c) >= 85 * g.total_types[c] * (g.fan_in[c] + g.fan_out[c])
                     /\ g.fan_in[c] >= 6
                  THEN high ELSE medium
<1>1. detect_zone_of_pain(g, config) =
        {OfComponent("zone_of_pain", c, severity(c)) : c \in {k \in g.components : InZone(g, k, config)}}
  BY Zenon DEF detect_zone_of_pain
<1>2. \A c : severity(c) \in {low, medium, high} /\ (~ Measurable(g, config) => severity(c) = low)
  OBVIOUS
<1> HIDE DEF severity
<1> QED BY <1>1, <1>2

LEMMA Louder ==
  ASSUME NEW c, NEW s, NEW r
  PROVE  LET x == OfComponent("zone_of_pain", c, s)
             y == OfComponent("zone_of_pain", c, r)
         IN y = [x EXCEPT !.severity = y.severity] /\ x.severity = s /\ y.severity = r
<1> DEFINE fix == fix_spec["zone_of_pain"]
           it == {c}
           none == <<>>
           x == [detector |-> "zone_of_pain", target |-> it, members |-> it, severity |-> s, evidence |-> none,
                 fix |-> fix]
           y == [detector |-> "zone_of_pain", target |-> it, members |-> it, severity |-> r, evidence |-> none,
                 fix |-> fix]
<1>1. OfComponent("zone_of_pain", c, s) = x /\ OfComponent("zone_of_pain", c, r) = y
  BY DEF OfComponent, Diagnosis
<1> HIDE DEF fix, it, none
<1>2. y = [x EXCEPT !.severity = y.severity] /\ x.severity = s /\ y.severity = r
  OBVIOUS
<1> HIDE DEF x, y
<1> QED BY <1>1, <1>2

LEMMA RaisedOnly ==
  ASSUME NEW i, IsInput(i), NEW config, config.evolutionary_min_history \in Nat \ {0}
  PROVE  OnlyRaises(i, config)
<1> DEFINE o == WithoutHistory(i)
           g == build_graph(i, config)
           h == build_graph(o, config)
           shared == StructuralFindings(g, i, config)
           evolving == EvolutionaryFindings(g, i, config)
           with == diagnose(i, config)
           without == diagnose(o, config)
<1>1. SameStructure(g, h) /\ i.deps = o.deps
  BY GraphsHaveOneStructure, WithoutIsInput
<1>2. ~ Measurable(h, config)
  BY NothingChanged
<1>3. with = {x \in shared \cup detect_zone_of_pain(g, config) \cup evolving : confident(x, g, i, config)}
  BY DiagnosisIsSplit
<1>4. without = {x \in shared \cup detect_zone_of_pain(h, config) : confident(x, h, o, config)}
  <2>1. without = {x \in StructuralFindings(h, o, config) \cup detect_zone_of_pain(h, config)
                         \cup EvolutionaryFindings(h, o, config) : confident(x, h, o, config)}
    BY DiagnosisIsSplit
  <2> HIDE DEF o, g, h
  <2>2. StructuralFindings(h, o, config) = StructuralFindings(g, i, config)
    BY <1>1, SameLoops, SameHubs DEF StructuralFindings
  <2>3. EvolutionaryFindings(h, o, config) = {}
    BY <1>2, SilentWithoutHistory
  <2> QED BY <2>1, <2>2, <2>3
<1>5. ASSUME NEW x \in shared
      PROVE  x.detector \notin Evolutionary /\ x = [x EXCEPT !.severity = x.severity] /\ x.severity >= x.severity
  BY NamesOfDetectors, WhatDiagnosesAre DEF Evolutionary
<1>6. \A x \in evolving : x.detector \in Evolutionary
  BY NamesOfDetectors, WhatDiagnosesAre
<1>conf. ASSUME NEW x, NEW y, x.detector = y.detector, x.target = y.target, x.detector \notin Evolutionary
      PROVE  confident(x, g, i, config) <=> confident(y, h, o, config)
  BY <1>1, <1>conf, ConfidenceIsStructural
<1> HIDE DEF o, g, h, shared, evolving, with, without
<1>7. ASSUME NEW x \in detect_zone_of_pain(h, config)
      PROVE  /\ \E y \in detect_zone_of_pain(g, config) :
                  /\ y = [x EXCEPT !.severity = y.severity] /\ y.severity >= x.severity
                  /\ y.detector = x.detector /\ y.target = x.target
             /\ x.detector \notin Evolutionary
  <2>1. PICK c \in h.components : InZone(h, c, config) /\ x = OfComponent("zone_of_pain", c, low)
    BY <1>2, ZonesAreByShape
  <2>2. c \in g.components /\ InZone(g, c, config)
    BY <1>1, <2>1, SameZones DEF SameStructure
  <2>3. PICK s \in {low, medium, high} : OfComponent("zone_of_pain", c, s) \in detect_zone_of_pain(g, config)
    BY <2>2, ZonesAreByShape
  <2> DEFINE y == OfComponent("zone_of_pain", c, s)
  <2>4. y = [x EXCEPT !.severity = y.severity] /\ x.severity = low /\ y.severity = s
    BY <2>1, Louder
  <2>5. y.severity >= x.severity
    BY <2>4 DEF low, medium, high
  <2>6. x.detector = "zone_of_pain" /\ y.detector = x.detector /\ y.target = x.target
    BY <2>1 DEF OfComponent, Diagnosis
  <2> QED BY <2>3, <2>4, <2>5, <2>6 DEF Evolutionary
<1>8. ASSUME NEW y \in detect_zone_of_pain(g, config)
      PROVE  /\ \E x \in detect_zone_of_pain(h, config) :
                  y = [x EXCEPT !.severity = y.severity] /\ y.detector = x.detector /\ y.target = x.target
             /\ y.detector \notin Evolutionary
  <2>1. PICK c \in g.components, s \in {low, medium, high} :
          InZone(g, c, config) /\ y = OfComponent("zone_of_pain", c, s)
    BY ZonesAreByShape
  <2>2. c \in h.components /\ InZone(h, c, config)
    BY <1>1, <2>1, SameZones DEF SameStructure
  <2>3. PICK r \in {low, medium, high} : OfComponent("zone_of_pain", c, r) \in detect_zone_of_pain(h, config)
    BY <2>2, ZonesAreByShape
  <2> DEFINE x == OfComponent("zone_of_pain", c, r)
  <2>4. x.detector = "zone_of_pain" /\ y.detector = x.detector /\ y.target = x.target
    BY <2>1 DEF OfComponent, Diagnosis
  <2>5. y = [x EXCEPT !.severity = y.severity]
    BY <2>1, Louder
  <2> QED BY <2>3, <2>4, <2>5 DEF Evolutionary
<1>9. ASSUME NEW x \in without
      PROVE  /\ \E y \in with : y = [x EXCEPT !.severity = y.severity] /\ y.severity >= x.severity
             /\ x.detector \notin Evolutionary
  <2>1. CASE x \in shared
    BY <1>3, <1>4, <1>5, <1>conf, <2>1
  <2>2. CASE x \in detect_zone_of_pain(h, config)
    <3>1. PICK y \in detect_zone_of_pain(g, config) :
            /\ y = [x EXCEPT !.severity = y.severity] /\ y.severity >= x.severity
            /\ y.detector = x.detector /\ y.target = x.target
      BY <1>7, <2>2
    <3>2. x.detector \notin Evolutionary /\ confident(x, h, o, config)
      BY <1>4, <1>7, <2>2
    <3>3. confident(y, g, i, config)
      BY <1>conf, <3>1, <3>2
    <3> QED BY <1>3, <3>1, <3>2, <3>3
  <2> QED BY <1>4, <2>1, <2>2
<1>10. ASSUME NEW y \in with
       PROVE  y.detector \in Evolutionary \/ \E x \in without : y = [x EXCEPT !.severity = y.severity]
  <2>1. CASE y \in shared
    BY <1>3, <1>4, <1>5, <1>conf, <2>1
  <2>2. CASE y \in detect_zone_of_pain(g, config)
    <3>1. PICK x \in detect_zone_of_pain(h, config) :
            y = [x EXCEPT !.severity = y.severity] /\ y.detector = x.detector /\ y.target = x.target
      BY <1>8, <2>2
    <3>2. y.detector \notin Evolutionary /\ confident(y, g, i, config)
      BY <1>3, <1>8, <2>2
    <3>3. confident(x, h, o, config)
      BY <1>conf, <3>1, <3>2
    <3> QED BY <1>4, <3>1, <3>3
  <2> QED BY <1>3, <1>6, <2>1, <2>2
<1> DEFINE Holds(r) ==
             /\ \A x \in r.without : \E y \in r.with : y = [x EXCEPT !.severity = y.severity] /\ y.severity >= x.severity
             /\ \A y \in r.with : y.detector \in Evolutionary \/ \E x \in r.without : y = [x EXCEPT !.severity = y.severity]
             /\ \A x \in r.without : x.detector \notin Evolutionary
           it == [with |-> with, without |-> without]
<1>11. it.with = with /\ it.without = without
  OBVIOUS
<1> HIDE DEF it
<1>12. Holds(it)
  BY <1>9, <1>10, <1>11
<1> HIDE DEF Holds
<1>13. \A r \in {it} : Holds(r)
  BY <1>12
<1> QED BY <1>13, Zenon DEF OnlyRaises, Holds, it, with, without, o

--------------------------------------------------------------------------------

LEMMA InputIsInput ==
  ASSUME files = owner, IsOwner(owner, log)
  PROVE  IsInput(InputOfDiagnosis)
<1> DEFINE indexed == {FileAt[p] : p \in DOMAIN files}
           at == [p \in DOMAIN files |-> FileAt[p]]
           i == InputOfDiagnosis
<1>1. DOMAIN files \subseteq Paths /\ IsFiniteSet(DOMAIN files)
  <2>1. DOMAIN files \subseteq Paths
    BY DEF IsOwner
  <2> QED BY <2>1, PathsAreNumbers, FS_Subset
<1>2. IsFiniteSet(indexed)
  <2>1. indexed = {at[p] : p \in DOMAIN files} /\ DOMAIN at = DOMAIN files
    OBVIOUS
  <2> HIDE DEF at, indexed
  <2> QED BY <1>1, <2>1, ImageIsFinite
<1>3. ImportsAmong(DOMAIN files) \in Seq(Range(ImportsAmong(DOMAIN files)))
  BY <1>1, DependenciesAreListed
<1> DEFINE churn == file_churn(db)
           path(f) == CHOOSE p \in DOMAIN files : FileAt[p] = f
           measured(f) == MeasuresAt[path(f)]
           ds == ImportsAmong(DOMAIN files)
           churns == [f \in indexed |-> IF path(f) \in DOMAIN churn THEN churn[path(f)] ELSE 0]
           complexity == [f \in indexed |-> measured(f).complexity]
           abstract == [f \in indexed |-> measured(f).abstract]
           total == [f \in indexed |-> measured(f).total]
           pairs == {[left |-> FileAt[Min(x.pair)], right |-> FileAt[Max(x.pair)], count |-> x.count]
                     : x \in co_change_pairs(db, 2)}
<1>4. i = [files |-> indexed, deps |-> ds, churn |-> churns, complexity |-> complexity, abstract |-> abstract,
           total |-> total, co_change |-> pairs]
  BY Zenon DEF InputOfDiagnosis
<1>5. ds \in Seq(Range(ds)) /\ DOMAIN churns = indexed
  BY <1>3
<1> HIDE DEF i, indexed, at, ds, churns, complexity, abstract, total, pairs
<1>6. /\ i.files = indexed /\ i.deps = ds /\ i.churn = churns /\ i.complexity = complexity
      /\ i.abstract = abstract /\ i.total = total /\ i.co_change = pairs
  BY <1>4
<1>7. IsInput(i)
  BY <1>2, <1>4, <1>5, <1>6 DEF IsInput
<1> QED BY <1>7 DEF i

\* Whatever was committed, renamed and interrupted, the history of an index adds to its
\* diagnosis: no smell of the structure is hidden by it or played down (`diagnose`,
\* `detect_zone_of_pain`), for any layout, code and configuration that asks for a history.
THEOREM HistoryRaises == Spec => []HistoryOnlyRaises
<1>1. BranchInv => HistoryOnlyRaises
  <2> SUFFICES ASSUME BranchInv, Fresh PROVE OnlyRaises(InputOfDiagnosis, DiagnoseConfig)
    BY DEF HistoryOnlyRaises
  <2>1. IsInput(InputOfDiagnosis)
    BY InputIsInput DEF BranchInv, IsBranch, Fresh
  <2> QED BY <2>1, HistoryIsSomething, RaisedOnly
<1> QED BY BranchInvariance, <1>1, PTL

========================================================================================
