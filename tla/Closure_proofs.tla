----------------------------- MODULE Closure_proofs -----------------------------
(***************************************************************************)
(* What paths of edges lead to is the least set that no edge leaves, of a  *)
(* finite graph, whether it is found step by step or by chains; a finite   *)
(* set is put in order, and a fold goes through a sequence from the left.  *)
(***************************************************************************)
EXTENDS Sets, SequencesExt, Functions, FiniteSetTheorems, SequenceTheorems, WellFoundedInduction, TLAPS

\* A set of numbers has a least one.
LEMMA LeastNumber ==
  ASSUME NEW S, S \subseteq Nat, S # {}
  PROVE  \E n \in S : \A m \in S : n <= m
<1> DEFINE Less == {pair \in Nat \X Nat : pair[1] < pair[2]}
<1>1. IsWellFoundedOn(Less, Nat)
  BY NatLessThanWellFounded DEF OpToRel
<1>2. \A x, y \in Nat : y < x => <<y, x>> \in Less
  OBVIOUS
<1> HIDE DEF Less
<1>3. PICK n \in S : \A m \in S : ~(<<m, n>> \in Less)
  BY <1>1, WFMin
<1>4. \A m \in S : ~(m < n)
  BY <1>2, <1>3
<1> QED BY <1>4

LEMMA LeastOfNumbers ==
  ASSUME NEW S, S \subseteq Nat, S # {}
  PROVE  Min(S) \in S /\ \A n \in S : Min(S) <= n
<1>1. \E n \in S : \A m \in S : n <= m
  BY LeastNumber
<1> QED BY <1>1 DEF Min

LEMMA ImageIsFinite ==
  ASSUME NEW S, IsFiniteSet(S), NEW f, DOMAIN f = S
  PROVE  IsFiniteSet({f[x] : x \in S})
<1> DEFINE T == {f[x] : x \in S}
           g == [x \in S |-> f[x]]
<1>1. g \in [S -> T] /\ \A y \in T : \E x \in S : g[x] = y
  OBVIOUS
<1> HIDE DEF g, T
<1>2. g \in Surjection(S, T)
  BY <1>1 DEF Surjection
<1>3. IsFiniteSet(T)
  BY <1>2, FS_Surjection
<1> QED BY <1>3 DEF T

\* Of finitely many that are ordered in part there is one that no other is above.
LEMMA MaximalElement ==
  ASSUME NEW S, IsFiniteSet(S), S # {}, NEW above,
         \A x \in S : <<x, x>> \notin above,
         \A x, y, z \in S : <<x, y>> \in above /\ <<y, z>> \in above => <<x, z>> \in above
  PROVE  \E m \in S : \A x \in S : <<x, m>> \notin above
<1> DEFINE Over(x) == {y \in S : <<y, x>> \in above}
           sizes == {Cardinality(Over(x)) : x \in S}
<1>1. \A x \in S : IsFiniteSet(Over(x)) /\ Cardinality(Over(x)) \in Nat
  BY FS_Subset, FS_CardinalityType
<1>2. sizes \subseteq Nat /\ sizes # {}
  <2> HIDE DEF Over
  <2>1. PICK x : x \in S
    OBVIOUS
  <2>2. Cardinality(Over(x)) \in sizes
    BY <2>1
  <2> QED BY <1>1, <2>2
<1>3. PICK m \in S : \A x \in S : Cardinality(Over(m)) <= Cardinality(Over(x))
  <2> HIDE DEF Over
  <2>1. PICK k \in sizes : \A j \in sizes : k <= j
    BY <1>2, LeastNumber
  <2> QED BY <2>1
<1>4. ASSUME NEW x \in S, <<x, m>> \in above PROVE FALSE
  <2>1. Over(x) \in SUBSET Over(m)
    BY <1>4
  <2>2. x \in Over(m) /\ x \notin Over(x)
    BY <1>4
  <2>3. Cardinality(Over(x)) <= Cardinality(Over(m)) /\ Cardinality(Over(m)) # Cardinality(Over(x))
    BY <1>1, <2>1, <2>2, FS_Subset
  <2> HIDE DEF Over
  <2> QED BY <1>1, <1>3, <2>3
<1> QED BY <1>4

\* Induction, for a property that is given as a set.
LEMMA AllNumbers ==
  ASSUME NEW S, 0 \in S, \A n \in Nat : n \in S => n + 1 \in S
  PROVE  \A n \in Nat : n \in S
<1> SUFFICES ASSUME NEW k \in Nat, k \notin S PROVE FALSE
  OBVIOUS
<1> DEFINE out == {n \in Nat : n \notin S}
<1>1. out \subseteq Nat /\ out # {}
  OBVIOUS
<1>2. PICK n \in out : \A m \in out : n <= m
  BY <1>1, LeastNumber
<1>3. n # 0
  OBVIOUS
<1>4. n - 1 \in Nat /\ n - 1 \notin out
  BY <1>2, <1>3
<1> QED BY <1>4

--------------------------------------------------------------------------------
\* The first n steps.
IsWalk(h, n, start, edges) ==
  /\ h[0] = start
  /\ \A i \in Nat : i < n => h[i + 1] = Onward(h[i], edges)

LEMMA WalkExists ==
  ASSUME NEW start, NEW edges
  PROVE  \A n \in Nat : \E h : IsWalk(h, n, start, edges)
<1> DEFINE good == {n \in Nat : \E h : IsWalk(h, n, start, edges)}
<1>1. 0 \in good
  <2> DEFINE h == [i \in Nat |-> start]
  <2>1. IsWalk(h, 0, start, edges)
    BY DEF IsWalk
  <2> QED BY <2>1
<1>2. ASSUME NEW n \in Nat, n \in good PROVE n + 1 \in good
  <2>1. PICK h : IsWalk(h, n, start, edges)
    BY <1>2
  <2> DEFINE g == [i \in Nat |-> IF i <= n THEN h[i] ELSE Onward(h[n], edges)]
  <2>2. g[0] = start
    BY <2>1 DEF IsWalk
  <2>3. ASSUME NEW i \in Nat, i < n + 1 PROVE g[i + 1] = Onward(g[i], edges)
    <3>1. CASE i < n
      BY <2>1, <3>1 DEF IsWalk
    <3>2. CASE i = n
      BY <3>2
    <3> QED BY <2>3, <3>1, <3>2
  <2> HIDE DEF g
  <2>4. IsWalk(g, n + 1, start, edges)
    BY <2>2, <2>3 DEF IsWalk
  <2> QED BY <2>4
<1> HIDE DEF good
<1>3. \A n \in Nat : n \in good
  BY <1>1, <1>2, AllNumbers
<1> QED BY <1>3 DEF good

LEMMA WalksAgree ==
  ASSUME NEW start, NEW edges, NEW h, NEW g, NEW n \in Nat,
         IsWalk(h, n, start, edges), IsWalk(g, n, start, edges)
  PROVE  \A i \in Nat : i <= n => h[i] = g[i]
<1> DEFINE same == {i \in Nat : i <= n => h[i] = g[i]}
<1>1. 0 \in same
  BY DEF IsWalk
<1>2. ASSUME NEW i \in Nat, i \in same PROVE i + 1 \in same
  BY <1>2 DEF IsWalk
<1> HIDE DEF same
<1>3. \A i \in Nat : i \in same
  BY <1>1, <1>2, AllNumbers
<1> QED BY <1>3 DEF same

\* The function that Closure defines exists.
IsWithin(w, start, edges) ==
  w = [n \in Nat |-> IF n = 0 THEN start ELSE Onward(w[n - 1], edges)]

LEMMA WithinExists ==
  ASSUME NEW start, NEW edges
  PROVE  \E w : IsWithin(w, start, edges)
<1> DEFINE walk(n) == CHOOSE h : IsWalk(h, n, start, edges)
           w == [n \in Nat |-> walk(n)[n]]
<1>1. \A n \in Nat : IsWalk(walk(n), n, start, edges)
  BY WalkExists
<1> HIDE DEF walk
<1>2. w[0] = start
  BY <1>1 DEF IsWalk
<1>3. ASSUME NEW n \in Nat PROVE w[n + 1] = Onward(w[n], edges)
  <2>1. IsWalk(walk(n), n, start, edges) /\ IsWalk(walk(n + 1), n, start, edges)
    BY <1>1 DEF IsWalk
  <2>2. walk(n + 1)[n] = walk(n)[n]
    BY <2>1, WalksAgree
  <2>3. walk(n + 1)[n + 1] = Onward(walk(n + 1)[n], edges)
    BY <1>1 DEF IsWalk
  <2> QED BY <2>2, <2>3
<1>4. \A n \in Nat : w[n] = IF n = 0 THEN start ELSE Onward(w[n - 1], edges)
  <2> SUFFICES ASSUME NEW n \in Nat, n # 0 PROVE w[n] = Onward(w[n - 1], edges)
    BY <1>2
  <2>1. n - 1 \in Nat /\ (n - 1) + 1 = n
    OBVIOUS
  <2> HIDE DEF w
  <2> QED BY <1>3, <2>1
<1>5. w = [n \in Nat |-> w[n]]
  OBVIOUS
<1> HIDE DEF w
<1>6. IsWithin(w, start, edges)
  BY <1>4, <1>5 DEF IsWithin
<1> QED BY <1>6

\* The steps of a closure: w[n] is what n edges lead to.
IsSteps(w, start, edges) ==
  w[0] = start /\ \A n \in Nat : w[n + 1] = Onward(w[n], edges)

LEMMA ClosureSteps ==
  ASSUME NEW start, NEW edges
  PROVE  \E w : IsSteps(w, start, edges) /\ Closure(start, edges) = w[Cardinality(Sources(edges))]
<1> DEFINE within == CHOOSE w : IsWithin(w, start, edges)
<1>1. \E w : IsWithin(w, start, edges)
  BY WithinExists
<1>2. Closure(start, edges) = within[Cardinality(Sources(edges))]
  BY DEF Closure, IsWithin
<1>3. IsWithin(within, start, edges)
  BY <1>1
<1> HIDE DEF within
<1>4. within[0] = start
  BY <1>3 DEF IsWithin
<1>5. ASSUME NEW n \in Nat PROVE within[n + 1] = Onward(within[n], edges)
  <2>1. n + 1 \in Nat /\ n + 1 # 0 /\ (n + 1) - 1 = n
    OBVIOUS
  <2>2. within[n + 1] = Onward(within[(n + 1) - 1], edges)
    BY <1>3, <2>1 DEF IsWithin
  <2> QED BY <2>1, <2>2
<1>6. IsSteps(within, start, edges)
  BY <1>4, <1>5 DEF IsSteps
<1> QED BY <1>2, <1>6

\* Sets that grow at each step in a finite one do so only so often.
LEMMA GrowthIsBounded ==
  ASSUME NEW A, NEW n \in Nat, NEW B, IsFiniteSet(B), A[0] # {},
         \A i \in Nat : i <= n => A[i] \subseteq B,
         \A i \in Nat : i < n => A[i] \subseteq A[i + 1] /\ A[i] # A[i + 1]
  PROVE  n + 1 <= Cardinality(B)
<1> DEFINE grown == {i \in Nat : i <= n => i + 1 <= Cardinality(A[i])}
<1>1. \A i \in Nat : i <= n => IsFiniteSet(A[i]) /\ Cardinality(A[i]) \in Nat
  BY FS_Subset, FS_CardinalityType
<1>2. 0 \in grown
  <2>1. Cardinality(A[0]) # 0
    BY <1>1, FS_EmptySet
  <2> QED BY <1>1, <2>1
<1>3. ASSUME NEW i \in Nat, i \in grown PROVE i + 1 \in grown
  <2> SUFFICES ASSUME i + 1 <= n PROVE (i + 1) + 1 <= Cardinality(A[i + 1])
    OBVIOUS
  <2>1. IsFiniteSet(A[i + 1]) /\ A[i] \in SUBSET A[i + 1] /\ A[i] # A[i + 1]
    BY <1>1
  <2>2. Cardinality(A[i]) <= Cardinality(A[i + 1]) /\ Cardinality(A[i]) # Cardinality(A[i + 1])
    BY <2>1, FS_Subset
  <2>3. i + 1 <= Cardinality(A[i]) /\ Cardinality(A[i]) \in Nat /\ Cardinality(A[i + 1]) \in Nat
    BY <1>1, <1>3
  <2> QED BY <2>2, <2>3
<1> HIDE DEF grown
<1>4. n \in grown
  BY <1>2, <1>3, AllNumbers
<1>5. n + 1 <= Cardinality(A[n]) /\ Cardinality(A[n]) \in Nat
  BY <1>1, <1>4 DEF grown
<1>6. Cardinality(A[n]) <= Cardinality(B) /\ Cardinality(B) \in Nat
  BY FS_Subset, FS_CardinalityType
<1> QED BY <1>5, <1>6

--------------------------------------------------------------------------------
(* What edges lead to is the least set that they do not leave. *)

Closed(S, edges) == \A e \in edges : e[1] \in S => e[2] \in S

LEMMA StepsAreLeast ==
  ASSUME NEW w, NEW start, NEW edges, IsSteps(w, start, edges),
         NEW T, start \subseteq T, Closed(T, edges)
  PROVE  \A n \in Nat : w[n] \subseteq T
<1> DEFINE inside == {n \in Nat : w[n] \subseteq T}
<1>1. 0 \in inside
  BY DEF IsSteps
<1>2. ASSUME NEW n \in Nat, n \in inside PROVE n + 1 \in inside
  BY <1>2 DEF IsSteps, Onward, Closed
<1> HIDE DEF inside
<1>3. \A n \in Nat : n \in inside
  BY <1>1, <1>2, AllNumbers
<1> QED BY <1>3 DEF inside

LEMMA StepsContainStart ==
  ASSUME NEW w, NEW start, NEW edges, IsSteps(w, start, edges)
  PROVE  \A n \in Nat : start \subseteq w[n]
<1> DEFINE around == {n \in Nat : start \subseteq w[n]}
<1>1. 0 \in around
  BY DEF IsSteps
<1>2. ASSUME NEW n \in Nat, n \in around PROVE n + 1 \in around
  BY <1>2 DEF IsSteps, Onward
<1> HIDE DEF around
<1>3. \A n \in Nat : n \in around
  BY <1>1, <1>2, AllNumbers
<1> QED BY <1>3 DEF around

\* A set that is closed stays as it is.
LEMMA ClosedStays ==
  ASSUME NEW w, NEW start, NEW edges, IsSteps(w, start, edges),
         NEW n \in Nat, Closed(w[n], edges)
  PROVE  \A m \in Nat : w[n + m] = w[n]
<1> DEFINE same == {m \in Nat : w[n + m] = w[n]}
<1>1. 0 \in same
  OBVIOUS
<1>2. ASSUME NEW m \in Nat, m \in same PROVE m + 1 \in same
  <2>1. n + m \in Nat /\ (n + m) + 1 = n + (m + 1)
    OBVIOUS
  <2>2. w[n + (m + 1)] = Onward(w[n], edges)
    BY <1>2, <2>1 DEF IsSteps
  <2>3. Onward(w[n], edges) = w[n]
    BY DEF Onward, Closed
  <2> QED BY <2>2, <2>3
<1> HIDE DEF same
<1>3. \A m \in Nat : m \in same
  BY <1>1, <1>2, AllNumbers
<1> QED BY <1>3 DEF same

\* As many steps as there are nodes to leave are enough.
LEMMA EnoughSteps ==
  ASSUME NEW w, NEW start, NEW edges, IsSteps(w, start, edges), IsFiniteSet(Sources(edges))
  PROVE  Closed(w[Cardinality(Sources(edges))], edges)
<1> DEFINE n == Cardinality(Sources(edges))
<1>1. n \in Nat
  BY FS_CardinalityType
<1> SUFFICES ASSUME ~ Closed(w[n], edges) PROVE FALSE
  OBVIOUS
<1> DEFINE A == [i \in Nat |-> w[i] \cap Sources(edges)]
<1>2. ASSUME NEW i \in Nat, i <= n PROVE ~ Closed(w[i], edges)
  <2> SUFFICES ASSUME Closed(w[i], edges) PROVE FALSE
    OBVIOUS
  <2>1. n - i \in Nat /\ i + (n - i) = n
    BY <1>1, <1>2
  <2>2. w[i + (n - i)] = w[i]
    BY <2>1, ClosedStays
  <2> QED BY <2>1, <2>2
<1>3. A[0] # {}
  BY <1>1, <1>2 DEF Closed, Sources
<1>4. \A i \in Nat : A[i] \subseteq Sources(edges)
  OBVIOUS
<1>5. ASSUME NEW i \in Nat, i < n PROVE A[i] \subseteq A[i + 1] /\ A[i] # A[i + 1]
  <2>1. w[i + 1] = Onward(w[i], edges) /\ i + 1 \in Nat
    BY DEF IsSteps
  <2>2. w[i] \subseteq w[i + 1]
    BY <2>1 DEF Onward
  <2>3. ASSUME A[i] = A[i + 1] PROVE Closed(w[i + 1], edges)
    BY <2>1, <2>3 DEF Onward, Closed, Sources
  <2>4. ~ Closed(w[i + 1], edges)
    BY <1>1, <1>2, <1>5
  <2> QED BY <2>2, <2>3, <2>4
<1> HIDE DEF A
<1>6. n + 1 <= n
  <2>1. \A i \in Nat : i <= n => A[i] \subseteq Sources(edges)
    BY <1>4
  <2>2. \A i \in Nat : i < n => A[i] \subseteq A[i + 1] /\ A[i] # A[i + 1]
    BY <1>5
  <2> HIDE DEF n
  <2>3. n + 1 <= Cardinality(Sources(edges))
    BY <1>1, <1>3, <2>1, <2>2, GrowthIsBounded
  <2> QED BY <2>3 DEF n
<1> QED BY <1>1, <1>6

\* The search for what edges lead to (bfs_reachable, propagate_forwards) stops after
\* as many rounds as there are nodes to leave, and then it has found all: the least
\* set with its start that no edge leaves.
THEOREM ClosureIsLeast ==
  ASSUME NEW start, NEW edges, IsFiniteSet(Sources(edges))
  PROVE  /\ start \subseteq Closure(start, edges)
         /\ Closed(Closure(start, edges), edges)
         /\ \A T : start \subseteq T /\ Closed(T, edges) => Closure(start, edges) \subseteq T
<1>1. PICK w : IsSteps(w, start, edges) /\ Closure(start, edges) = w[Cardinality(Sources(edges))]
  BY ClosureSteps
<1>2. Cardinality(Sources(edges)) \in Nat
  BY FS_CardinalityType
<1> QED BY <1>1, <1>2, StepsContainStart, EnoughSteps, StepsAreLeast

--------------------------------------------------------------------------------
(* What chains of links lead to is that least set, too. *)

LEMMA ChainLength ==
  ASSUME NEW nodes, NEW k \in Nat, NEW p \in [1 .. k -> nodes]
  PROVE  Len(p) = k
<1>1. p \in Seq(nodes)
  BY SeqDef
<1>2. DOMAIN p = 1 .. Len(p) /\ Len(p) \in Nat
  BY <1>1, LenProperties
<1>3. 1 .. k = 1 .. Len(p)
  BY <1>2
<1>4. \A i \in Nat : 1 <= i /\ i <= k <=> 1 <= i /\ i <= Len(p)
  BY <1>3
<1>5. ~ (k < Len(p)) /\ ~ (Len(p) < k)
  BY <1>2, <1>4
<1> QED BY <1>2, <1>5

\* A chain of k nodes, one of the first in from, that ends at x.
IsChain(p, k, nodes, edges, from, x) ==
  /\ p \in [1 .. k -> nodes]
  /\ \A i \in 1 .. k - 1 : <<p[i], p[i + 1]>> \in edges
  /\ p[1] \in from /\ p[k] = x

LEMMA EndsOfChains ==
  ASSUME NEW nodes, NEW edges, NEW from, IsFiniteSet(nodes), NEW x
  PROVE  x \in ChainEnds(Chains(nodes, edges), from)
           <=> \E k \in 1 .. Cardinality(nodes) : \E p : IsChain(p, k, nodes, edges, from, x)
<1>1. Cardinality(nodes) \in Nat
  BY FS_CardinalityType
<1>2. ASSUME x \in ChainEnds(Chains(nodes, edges), from)
      PROVE  \E k \in 1 .. Cardinality(nodes) : \E p : IsChain(p, k, nodes, edges, from, x)
  <2>1. PICK p \in Chains(nodes, edges) : p[1] \in from /\ x = p[Len(p)]
    BY <1>2 DEF ChainEnds
  <2>2. PICK k \in 1 .. Cardinality(nodes) : p \in [1 .. k -> nodes]
    BY <2>1 DEF Chains
  <2>3. Len(p) = k
    BY <1>1, <2>2, ChainLength
  <2>4. IsChain(p, k, nodes, edges, from, x)
    BY <2>1, <2>2, <2>3 DEF IsChain, Chains
  <2> QED BY <2>4
<1>3. ASSUME NEW k \in 1 .. Cardinality(nodes), NEW p, IsChain(p, k, nodes, edges, from, x)
      PROVE  x \in ChainEnds(Chains(nodes, edges), from)
  <2>1. p \in [1 .. k -> nodes] /\ k \in Nat
    BY <1>1, <1>3 DEF IsChain
  <2>2. Len(p) = k
    BY <2>1, ChainLength
  <2>3. p \in Chains(nodes, edges)
    BY <1>3, <2>1, <2>2 DEF IsChain, Chains
  <2> QED BY <1>3, <2>2, <2>3 DEF IsChain, ChainEnds
<1> QED BY <1>2, <1>3

\* As many steps as there are nodes are enough, too.
LEMMA FewerSteps ==
  ASSUME NEW w, NEW start, NEW edges, IsSteps(w, start, edges),
         NEW nodes, IsFiniteSet(nodes), start \subseteq nodes, Closed(nodes, edges), start # {},
         NEW n \in Nat, Cardinality(nodes) = n + 1
  PROVE  Closed(w[n], edges)
<1> SUFFICES ASSUME ~ Closed(w[n], edges) PROVE FALSE
  OBVIOUS
<1>1. \A i \in Nat : w[i] \subseteq nodes
  BY StepsAreLeast
<1>2. ASSUME NEW i \in Nat, i <= n PROVE ~ Closed(w[i], edges)
  <2> SUFFICES ASSUME Closed(w[i], edges) PROVE FALSE
    OBVIOUS
  <2>1. n - i \in Nat /\ i + (n - i) = n
    BY <1>2
  <2>2. w[i + (n - i)] = w[i]
    BY <2>1, ClosedStays
  <2> QED BY <2>1, <2>2
<1>3. ASSUME NEW i \in Nat, i < n + 1 PROVE w[i] \subseteq w[i + 1] /\ w[i] # w[i + 1]
  <2>1. w[i + 1] = Onward(w[i], edges)
    BY DEF IsSteps
  <2>2. ~ Closed(w[i], edges)
    BY <1>2, <1>3
  <2> QED BY <2>1, <2>2 DEF Onward, Closed
<1>4. w[0] # {} /\ n + 1 \in Nat
  BY DEF IsSteps
<1>5. (n + 1) + 1 <= Cardinality(nodes)
  BY <1>1, <1>3, <1>4, GrowthIsBounded
<1> QED BY <1>5

\* A chain goes on along an edge.
LEMMA ChainGoesOn ==
  ASSUME NEW nodes, NEW edges, NEW from, NEW k \in Nat, k # 0, NEW p, NEW x,
         IsChain(p, k, nodes, edges, from, x), NEW y \in nodes, <<x, y>> \in edges
  PROVE  \E q : IsChain(q, k + 1, nodes, edges, from, y)
<1> DEFINE q == [i \in 1 .. k + 1 |-> IF i <= k THEN p[i] ELSE y]
<1>1. q \in [1 .. k + 1 -> nodes] /\ q[1] \in from /\ q[k + 1] = y
  BY DEF IsChain
<1>2. ASSUME NEW i \in 1 .. (k + 1) - 1 PROVE <<q[i], q[i + 1]>> \in edges
  <2>1. CASE i < k
    <3>1. q[i] = p[i] /\ q[i + 1] = p[i + 1] /\ i \in 1 .. k - 1
      BY <2>1
    <3> QED BY <3>1 DEF IsChain
  <2>2. CASE i = k
    <3>1. q[i] = x /\ q[i + 1] = y
      BY <2>2 DEF IsChain
    <3> QED BY <3>1
  <2> QED BY <2>1, <2>2
<1> HIDE DEF q
<1>3. IsChain(q, k + 1, nodes, edges, from, y)
  BY <1>1, <1>2 DEF IsChain
<1> QED BY <1>3

\* What n steps lead to is at the end of a chain of at most n + 1 nodes.
LEMMA StepsAreChains ==
  ASSUME NEW w, NEW start, NEW edges, IsSteps(w, start, edges),
         NEW nodes, start \subseteq nodes, Closed(nodes, edges),
         \A e \in edges : e = <<e[1], e[2]>>
  PROVE  \A n \in Nat : \A x \in w[n] :
           \E k \in 1 .. n + 1 : \E p : IsChain(p, k, nodes, edges, start, x)
<1> DEFINE chained == {n \in Nat : \A x \in w[n] :
             \E k \in 1 .. n + 1 : \E p : IsChain(p, k, nodes, edges, start, x)}
<1>1. 0 \in chained
  <2> SUFFICES ASSUME NEW x \in w[0]
               PROVE  \E k \in 1 .. 1 : \E p : IsChain(p, k, nodes, edges, start, x)
    OBVIOUS
  <2> DEFINE p == [i \in 1 .. 1 |-> x]
  <2>1. IsChain(p, 1, nodes, edges, start, x)
    BY DEF IsChain, IsSteps
  <2> HIDE DEF p
  <2> QED BY <2>1
<1>2. ASSUME NEW n \in Nat, n \in chained PROVE n + 1 \in chained
  <2> SUFFICES ASSUME NEW y \in w[n + 1]
               PROVE  \E k \in 1 .. (n + 1) + 1 : \E p : IsChain(p, k, nodes, edges, start, y)
    OBVIOUS
  <2>1. CASE y \in w[n]
    <3>1. PICK k \in 1 .. n + 1 : \E p : IsChain(p, k, nodes, edges, start, y)
      BY <1>2, <2>1
    <3> QED BY <3>1
  <2>2. CASE y \notin w[n]
    <3>1. PICK e \in edges : e[1] \in w[n] /\ y = e[2]
      BY <2>2 DEF IsSteps, Onward
    <3>2. PICK k \in 1 .. n + 1 : \E p : IsChain(p, k, nodes, edges, start, e[1])
      BY <1>2, <3>1
    <3>3. PICK p : IsChain(p, k, nodes, edges, start, e[1])
      BY <3>2
    <3>4. w[n] \subseteq nodes
      BY StepsAreLeast
    <3>5. y \in nodes /\ <<e[1], y>> \in edges /\ k \in Nat /\ k # 0
      BY <3>1, <3>4 DEF Closed
    <3>6. \E q : IsChain(q, k + 1, nodes, edges, start, y)
      BY <3>3, <3>5, ChainGoesOn
    <3>7. k + 1 \in 1 .. (n + 1) + 1
      OBVIOUS
    <3> QED BY <3>6, <3>7
  <2> QED BY <2>1, <2>2
<1> HIDE DEF chained
<1>3. \A n \in Nat : n \in chained
  BY <1>1, <1>2, AllNumbers
<1> QED BY <1>3 DEF chained

\* A chain stays in a set that edges do not leave.
LEMMA ChainStaysInside ==
  ASSUME NEW nodes, NEW edges, NEW from, NEW T, from \subseteq T, Closed(T, edges),
         NEW k \in Nat, k # 0, NEW p, NEW x, IsChain(p, k, nodes, edges, from, x)
  PROVE  x \in T
<1> DEFINE inside == {i \in Nat : i + 1 <= k => p[i + 1] \in T}
<1>1. 0 \in inside
  BY DEF IsChain
<1>2. ASSUME NEW i \in Nat, i \in inside PROVE i + 1 \in inside
  <2> SUFFICES ASSUME (i + 1) + 1 <= k PROVE p[(i + 1) + 1] \in T
    OBVIOUS
  <2>1. p[i + 1] \in T /\ i + 1 \in 1 .. k - 1
    BY <1>2
  <2>2. <<p[i + 1], p[(i + 1) + 1]>> \in edges
    BY <2>1 DEF IsChain
  <2> QED BY <2>1, <2>2 DEF Closed
<1> HIDE DEF inside
<1>3. k - 1 \in inside
  <2>1. k - 1 \in Nat
    OBVIOUS
  <2> QED BY <1>1, <1>2, <2>1, AllNumbers
<1>4. (k - 1) + 1 = k
  OBVIOUS
<1> QED BY <1>3, <1>4 DEF inside, IsChain

LEMMA EndsAreLeast ==
  ASSUME NEW nodes, NEW edges, NEW from, IsFiniteSet(nodes), from \subseteq nodes,
         Closed(nodes, edges), \A e \in edges : e = <<e[1], e[2]>>
  PROVE  LET ends == ChainEnds(Chains(nodes, edges), from)
         IN /\ from \subseteq ends
            /\ Closed(ends, edges)
            /\ \A T : from \subseteq T /\ Closed(T, edges) => ends \subseteq T
<1> DEFINE ends == ChainEnds(Chains(nodes, edges), from)
           n == Cardinality(nodes)
<1>1. n \in Nat
  BY FS_CardinalityType
<1>2. \A x : x \in ends <=> \E k \in 1 .. n : \E p : IsChain(p, k, nodes, edges, from, x)
  BY EndsOfChains
<1>3. ASSUME NEW T, from \subseteq T, Closed(T, edges) PROVE ends \subseteq T
  <2> SUFFICES ASSUME NEW x \in ends PROVE x \in T
    OBVIOUS
  <2>1. PICK k \in 1 .. n : \E p : IsChain(p, k, nodes, edges, from, x)
    BY <1>2
  <2>2. PICK p : IsChain(p, k, nodes, edges, from, x)
    BY <2>1
  <2>3. k \in Nat /\ k # 0
    BY <1>1
  <2> QED BY <1>3, <2>2, <2>3, ChainStaysInside
<1>4. from \subseteq ends /\ Closed(ends, edges)
  <2>1. CASE from = {}
    <3>1. ends \subseteq {}
      <4>1. from \subseteq {} /\ Closed({}, edges)
        BY <2>1 DEF Closed
      <4> QED BY <4>1, <1>3
    <3> QED BY <2>1, <3>1 DEF Closed
  <2>2. CASE from # {}
    <3>1. nodes # {}
      BY <2>2
    <3>2. n # 0
      BY <3>1, FS_EmptySet
    <3>3. n - 1 \in Nat /\ n = (n - 1) + 1
      BY <1>1, <3>2
    <3>4. PICK w : IsSteps(w, from, edges)
      BY ClosureSteps
    <3>5. Closed(w[n - 1], edges)
      <4> HIDE DEF ends
      <4>1. Cardinality(nodes) = (n - 1) + 1
        BY <3>3
      <4> QED BY <2>2, <3>3, <3>4, <4>1, FewerSteps
    <3>6. from \subseteq w[n - 1]
      BY <3>3, <3>4, StepsContainStart
    <3>7. ends \subseteq w[n - 1]
      BY <1>3, <3>5, <3>6
    <3>8. w[n - 1] \subseteq ends
      <4>1. \A x \in w[n - 1] : \E k \in 1 .. (n - 1) + 1 : \E p : IsChain(p, k, nodes, edges, from, x)
        BY <3>3, <3>4, StepsAreChains
      <4> HIDE DEF ends
      <4> QED BY <1>2, <3>3, <4>1
    <3> QED BY <3>5, <3>6, <3>7, <3>8
  <2> QED BY <2>1, <2>2
<1> QED BY <1>3, <1>4

\* Two least sets are one.
LEMMA ClosureIsEnds ==
  ASSUME NEW nodes, NEW edges, NEW from, IsFiniteSet(nodes), from \subseteq nodes,
         Closed(nodes, edges), \A e \in edges : e = <<e[1], e[2]>>,
         IsFiniteSet(Sources(edges))
  PROVE  Closure(from, edges) = ChainEnds(Chains(nodes, edges), from)
<1> DEFINE ends == ChainEnds(Chains(nodes, edges), from)
<1>1. /\ from \subseteq ends /\ Closed(ends, edges)
      /\ \A T : from \subseteq T /\ Closed(T, edges) => ends \subseteq T
  BY EndsAreLeast
<1> HIDE DEF ends
<1>2. Closure(from, edges) = ends
  BY <1>1, ClosureIsLeast
<1> QED BY <1>2 DEF ends

--------------------------------------------------------------------------------
(* Finite sets in order. *)

\* The elements that come before another.
Lower(x, S, rank) == {y \in S : rank[y] < rank[x]}

\* Distinct ranks of a finite set: each place has an element, each element its place.
LEMMA PlacesAreTaken ==
  ASSUME NEW S, IsFiniteSet(S), NEW rank \in [S -> Nat],
         \A x, y \in S : rank[x] = rank[y] => x = y
  PROVE  /\ \A x \in S : Cardinality(Lower(x, S, rank)) + 1 \in 1 .. Cardinality(S)
         /\ \A x, y \in S : Cardinality(Lower(x, S, rank)) = Cardinality(Lower(y, S, rank)) => x = y
         /\ \A i \in 1 .. Cardinality(S) : \E x \in S : Cardinality(Lower(x, S, rank)) = i - 1
<1> DEFINE below(x) == {y \in S : rank[y] < rank[x]}
           n == Cardinality(S)
           place == [x \in S |-> Cardinality(below(x)) + 1]
<1>1. n \in Nat
  BY FS_CardinalityType
<1>2. \A x \in S : IsFiniteSet(below(x)) /\ Cardinality(below(x)) \in Nat
  BY FS_Subset, FS_CardinalityType
<1>3. \A x \in S : Cardinality(below(x)) + 1 \in 1 .. n
  <2> TAKE x \in S
  <2>1. below(x) \in SUBSET S /\ x \notin below(x)
    OBVIOUS
  <2>2. Cardinality(below(x)) <= n /\ Cardinality(below(x)) # n
    BY <2>1, FS_Subset
  <2> HIDE DEF below, n
  <2> QED BY <1>1, <1>2, <2>2
<1>4. \A x, y \in S : rank[x] < rank[y] => Cardinality(below(x)) < Cardinality(below(y))
  <2> SUFFICES ASSUME NEW x \in S, NEW y \in S, rank[x] < rank[y]
               PROVE  Cardinality(below(x)) < Cardinality(below(y))
    OBVIOUS
  <2>1. below(x) \in SUBSET below(y) /\ x \in below(y) /\ x \notin below(x)
    OBVIOUS
  <2>2. Cardinality(below(x)) <= Cardinality(below(y)) /\ Cardinality(below(x)) # Cardinality(below(y))
    BY <1>2, <2>1, FS_Subset
  <2> HIDE DEF below
  <2> QED BY <1>2, <2>2
<1>5. \A x, y \in S : Cardinality(below(x)) = Cardinality(below(y)) => x = y
  <2> SUFFICES ASSUME NEW x \in S, NEW y \in S, x # y
               PROVE  Cardinality(below(x)) # Cardinality(below(y))
    OBVIOUS
  <2>1. rank[x] < rank[y] \/ rank[y] < rank[x]
    OBVIOUS
  <2> HIDE DEF below
  <2> QED BY <1>2, <1>4, <2>1
<1>6. place \in Injection(S, 1 .. n)
  <2>1. place \in [S -> 1 .. n]
    BY <1>3
  <2>2. \A x, y \in S : place[x] = place[y] => x = y
    <3> HIDE DEF below
    <3> QED BY <1>2, <1>5
  <2> HIDE DEF place, n
  <2> QED BY <2>1, <2>2 DEF Injection, IsInjective
<1>7. IsFiniteSet(1 .. n) /\ Cardinality(1 .. n) = n
  BY <1>1, FS_Interval
<1>8. place \in Surjection(S, 1 .. n)
  <2> HIDE DEF place
  <2> QED BY <1>6, <1>7, FS_Injection
<1>9. \A i \in 1 .. n : \E x \in S : place[x] = i
  <2> HIDE DEF place, n
  <2> QED BY <1>8 DEF Surjection
<1>10. \A i \in 1 .. n : \E x \in S : Cardinality(below(x)) = i - 1
  <2> TAKE i \in 1 .. n
  <2>1. PICK x \in S : place[x] = i
    BY <1>9
  <2>2. place[x] = Cardinality(below(x)) + 1
    OBVIOUS
  <2> HIDE DEF below, place
  <2> QED BY <1>2, <2>1, <2>2
<1> QED BY <1>3, <1>5, <1>10 DEF Lower

\* What a search hands out in order is the set, each element once, the smaller before the
\* larger.
LEMMA NumbersInOrder ==
  ASSUME NEW S, IsFiniteSet(S), S \subseteq Nat
  PROVE  /\ Sorted(S, <) \in Seq(S) /\ Range(Sorted(S, <)) = S
         /\ \A i, j \in DOMAIN Sorted(S, <) : Sorted(S, <)[i] = Sorted(S, <)[j] => i = j
         /\ \A i, j \in DOMAIN Sorted(S, <) : i < j <=> Sorted(S, <)[i] < Sorted(S, <)[j]
<1> DEFINE low(x) == {y \in S : y < x}
           size == Cardinality(S)
           place(i) == CHOOSE x \in S : Cardinality(low(x)) = i - 1
           s == [i \in 1 .. size |-> place(i)]
<1>1. Sorted(S, <) = s
  BY DEF Sorted
<1>2. size \in Nat
  BY FS_CardinalityType
<1>3. /\ \A x \in S : Cardinality(low(x)) + 1 \in 1 .. size
      /\ \A x, y \in S : Cardinality(low(x)) = Cardinality(low(y)) => x = y
      /\ \A i \in 1 .. size : \E x \in S : Cardinality(low(x)) = i - 1
  <2>1. PICK rank : rank = [x \in S |-> x]
    OBVIOUS
  <2>2. rank \in [S -> Nat] /\ \A x, y \in S : rank[x] = rank[y] => x = y
    BY <2>1
  <2>3. \A x \in S : low(x) = Lower(x, S, rank)
    BY <2>1 DEF Lower
  <2> HIDE DEF low, place, s
  <2>4. \A x \in S : Cardinality(Lower(x, S, rank)) + 1 \in 1 .. size
    BY <2>2, PlacesAreTaken
  <2>5. \A x, y \in S : Cardinality(Lower(x, S, rank)) = Cardinality(Lower(y, S, rank)) => x = y
    BY <2>2, PlacesAreTaken
  <2>6. \A i \in 1 .. size : \E x \in S : Cardinality(Lower(x, S, rank)) = i - 1
    BY <2>2, PlacesAreTaken, ZenonT(60)
  <2> HIDE DEF size
  <2> QED BY <2>3, <2>4, <2>5, <2>6
<1>4. \A x \in S : Cardinality(low(x)) \in Nat
  BY FS_Subset, FS_CardinalityType
<1>41. \A x, y \in S : x < y => Cardinality(low(x)) < Cardinality(low(y))
  <2> SUFFICES ASSUME NEW x \in S, NEW y \in S, x < y
               PROVE  Cardinality(low(x)) < Cardinality(low(y))
    OBVIOUS
  <2> HIDE DEF place, s, size
  <2>0. x < y /\ ~ (x < x) /\ \A z \in S : z < x => z < y
    OBVIOUS
  <2>1. low(x) \in SUBSET low(y) /\ x \in low(y) /\ x \notin low(x) /\ low(y) \in SUBSET S
    BY <2>0, Zenon
  <2> HIDE DEF low
  <2>2. IsFiniteSet(low(y))
    BY <2>1, FS_Subset
  <2>3. Cardinality(low(x)) <= Cardinality(low(y)) /\ Cardinality(low(x)) # Cardinality(low(y))
    BY <2>1, <2>2, FS_Subset
  <2> QED BY <1>4, <2>3
<1> HIDE DEF low, size
<1>5. \A i \in 1 .. size : place(i) \in S /\ Cardinality(low(place(i))) = i - 1
  BY <1>3
<1> HIDE DEF place
<1>6. DOMAIN s = 1 .. size /\ \A i \in 1 .. size : s[i] = place(i)
  OBVIOUS
<1>7. s \in [1 .. size -> S]
  BY <1>5
<1> HIDE DEF s
<1>8. s \in Seq(S)
  BY <1>2, <1>7, SeqDef
<1>9. ASSUME NEW x \in S PROVE \E i \in DOMAIN s : s[i] = x
  <2>1. PICK i \in 1 .. size : i = Cardinality(low(x)) + 1
    BY <1>3
  <2>2. Cardinality(low(s[i])) = Cardinality(low(x)) /\ s[i] \in S
    BY <1>4, <1>5, <1>6, <2>1
  <2>3. s[i] = x
    BY <1>3, <2>2
  <2> QED BY <1>6, <2>1, <2>3
<1>10. Range(s) = S
  BY <1>6, <1>7, <1>9 DEF Range
<1>11. \A i, j \in DOMAIN s : s[i] = s[j] => i = j
  <2> SUFFICES ASSUME NEW i \in 1 .. size, NEW j \in 1 .. size, place(i) = place(j) PROVE i = j
    BY <1>6
  <2>1. i - 1 = j - 1
    BY <1>5
  <2> QED BY <1>2, <2>1
<1>12. \A i, j \in DOMAIN s : i < j <=> s[i] < s[j]
  <2> SUFFICES ASSUME NEW i \in 1 .. size, NEW j \in 1 .. size PROVE i < j <=> place(i) < place(j)
    BY <1>6
  <2>1. /\ place(i) \in S /\ Cardinality(low(place(i))) = i - 1
        /\ place(j) \in S /\ Cardinality(low(place(j))) = j - 1
    BY <1>5
  <2>2. place(i) \in Nat /\ place(j) \in Nat
    BY <2>1
  <2>3. place(i) < place(j) => i - 1 < j - 1
    BY <1>41, <2>1
  <2>4. place(j) < place(i) => j - 1 < i - 1
    BY <1>41, <2>1
  <2>5. place(i) = place(j) => i = j
    BY <1>2, <2>1
  <2> QED BY <1>2, <2>2, <2>3, <2>4, <2>5
<1> QED BY <1>1, <1>8, <1>10, <1>11, <1>12

--------------------------------------------------------------------------------
(* Breadth-first search over a finite graph: a queue of paths, which       *)
(* leave it one by one and are followed by those that go on from them to   *)
(* nodes that none has reached.                                            *)

\* A finite graph whose edges are pairs of its nodes.
IsGraph(nodes, edges) ==
  IsFiniteSet(nodes) /\ \A e \in edges : e = <<e[1], e[2]>> /\ e[1] \in nodes /\ e[2] \in nodes

\* What a search is given: the nodes that edges lead to from each node.
Explorable(nodes, nb, edges, start, depth) ==
  /\ IsGraph(nodes, edges) /\ start \in nodes /\ depth \in Nat
  /\ DOMAIN nb = nodes
  /\ \A n \in nodes : nb[n] = {m \in nodes : <<n, m>> \in edges}

\* Paths of the graph that start where the search does and are no longer than it allows.
ArePaths(Q, nodes, edges, start, depth) ==
  /\ Q \in Seq(Seq(nodes)) /\ Len(Q) >= 1 /\ Q[1] = <<start>>
  /\ \A i \in 1 .. Len(Q) :
       /\ Len(Q[i]) \in 1 .. depth + 1 /\ Q[i][1] = start
       /\ i > 1 => Len(Q[i]) > 1
       /\ \A j \in 2 .. Len(Q[i]) : <<Q[i][j - 1], Q[i][j]>> \in edges

\* Each end is at the distance that its path is long; no two paths end at one node.
AreShortest(Q, w) ==
  /\ \A i \in 1 .. Len(Q) :
       /\ Last(Q[i]) \in w[Len(Q[i]) - 1]
       /\ \A d \in Nat : d + 2 <= Len(Q[i]) => Last(Q[i]) \notin w[d]
  /\ \A i, j \in 1 .. Len(Q) : Last(Q[i]) = Last(Q[j]) => i = j

\* Paths are queued by length, and what follows k of them is not much longer.
AreOrdered(Q, k) ==
  /\ \A i, j \in 1 .. Len(Q) : i <= j => Len(Q[i]) <= Len(Q[j])
  /\ \A i, j \in 1 .. Len(Q) : k < i => Len(Q[j]) <= Len(Q[i]) + 1

\* The neighbors of the ends of the first k paths are reached.
AreFollowed(Q, k, edges, depth) ==
  \A i \in 1 .. Len(Q) :
    i <= k /\ Len(Q[i]) <= depth => \A m : <<Last(Q[i]), m>> \in edges => m \in Ends(Q)

LEMMA EndsAre ==
  ASSUME NEW T, NEW Q, Q \in Seq(T)
  PROVE  \A x : x \in Ends(Q) <=> \E i \in 1 .. Len(Q) : x = Last(Q[i])
<1>1. DOMAIN Q = 1 .. Len(Q)
  OBVIOUS
<1> QED BY <1>1 DEF Ends, Last

LEMMA PathTypes ==
  ASSUME NEW nodes, NEW edges, NEW start, NEW depth, depth \in Nat, NEW Q,
         ArePaths(Q, nodes, edges, start, depth)
  PROVE  /\ Q \in Seq(Seq(nodes)) /\ Len(Q) \in Nat /\ DOMAIN Q = 1 .. Len(Q)
         /\ \A i \in 1 .. Len(Q) : Q[i] \in Seq(nodes) /\ Len(Q[i]) \in Nat /\ Last(Q[i]) \in nodes
<1>1. Q \in Seq(Seq(nodes)) /\ Len(Q) \in Nat /\ DOMAIN Q = 1 .. Len(Q)
  BY DEF ArePaths
<1>2. ASSUME NEW i \in 1 .. Len(Q) PROVE Q[i] \in Seq(nodes) /\ Len(Q[i]) \in Nat /\ Last(Q[i]) \in nodes
  <2>1. Q[i] \in Seq(nodes)
    BY <1>1
  <2>2. Len(Q[i]) \in 1 .. depth + 1
    BY DEF ArePaths
  <2> QED BY <2>1, <2>2 DEF Last
<1> QED BY <1>1, <1>2

\* Path k leaves the queue Q, and the paths that go on from it to fresh join it.
Joined(fresh, R, Q, k, nb, depth) ==
  /\ Range(fresh) = IF Len(Q[k]) > depth THEN {} ELSE nb[Last(Q[k])] \ Ends(Q)
  /\ \A i, j \in 1 .. Len(fresh) : fresh[i] = fresh[j] => i = j
  /\ Len(R) = Len(Q) + Len(fresh)
  /\ \A i \in 1 .. Len(Q) : R[i] = Q[i]
  /\ \A i \in 1 .. Len(fresh) : R[Len(Q) + i] = Append(Q[k], fresh[i])

\* A queue that grows by the paths that go on from p.
LEMMA Lengthened ==
  ASSUME NEW nodes, NEW Q \in Seq(Seq(nodes)), NEW p \in Seq(nodes), NEW fresh \in Seq(nodes)
  PROVE  LET R == Q \o [i \in DOMAIN fresh |-> Append(p, fresh[i])]
         IN /\ R \in Seq(Seq(nodes)) /\ Len(R) = Len(Q) + Len(fresh)
            /\ \A i \in 1 .. Len(Q) : R[i] = Q[i]
            /\ \A i \in 1 .. Len(fresh) : R[Len(Q) + i] = Append(p, fresh[i])
<1> DEFINE added == [i \in DOMAIN fresh |-> Append(p, fresh[i])]
<1>1. PICK n \in Nat : n = Len(fresh) /\ DOMAIN fresh = 1 .. n
  OBVIOUS
<1>2. \A i \in 1 .. n : fresh[i] \in nodes
  BY <1>1
<1>3. \A i \in 1 .. n : Append(p, fresh[i]) \in Seq(nodes)
  BY <1>2
<1>4. added \in [1 .. n -> Seq(nodes)] /\ \A i \in 1 .. n : added[i] = Append(p, fresh[i])
  BY <1>1, <1>3
<1> HIDE DEF added
<1>5. added \in Seq(Seq(nodes)) /\ Len(added) = n
  BY <1>4, SeqDef
<1>6. /\ Q \o added \in Seq(Seq(nodes))
      /\ Len(Q \o added) = Len(Q) + Len(added)
      /\ \A i \in 1 .. Len(Q) + Len(added) : (Q \o added)[i] = IF i <= Len(Q) THEN Q[i] ELSE added[i - Len(Q)]
  BY <1>5, ConcatProperties
<1>7. /\ \A i \in 1 .. Len(Q) : (Q \o added)[i] = Q[i]
      /\ \A i \in 1 .. Len(fresh) : (Q \o added)[Len(Q) + i] = Append(p, fresh[i])
  <2>1. Len(Q) \in Nat
    OBVIOUS
  <2> QED BY <1>1, <1>4, <1>5, <1>6, <2>1
<1> QED BY <1>1, <1>5, <1>6, <1>7 DEF added

\* What a search may do: path k of Q leaves the queue, or there is none.
QueueMoves(R, Q, k, nodes, nb, depth) ==
  IF k <= Len(Q) THEN \E fresh \in Seq(nodes) : R \in Seq(Seq(nodes)) /\ Joined(fresh, R, Q, k, nb, depth)
  ELSE R = Q

IsQueue(q, nodes, nb, edges, start, depth) ==
  /\ q[0] = <<<<start>>>>
  /\ \A k \in Nat : ArePaths(q[k], nodes, edges, start, depth) =>
                      QueueMoves(q[k + 1], q[k], k + 1, nodes, nb, depth)

\* Steps of a walk only add.
LEMMA StepsGrow ==
  ASSUME NEW w, NEW start, NEW edges, IsSteps(w, start, edges), NEW n \in Nat
  PROVE  \A m \in Nat : n <= m => w[n] \subseteq w[m]
<1> DEFINE above == {i \in Nat : w[n] \subseteq w[n + i]}
<1>1. 0 \in above
  OBVIOUS
<1>2. ASSUME NEW i \in Nat, i \in above PROVE i + 1 \in above
  <2>1. w[(n + i) + 1] = Onward(w[n + i], edges) /\ n + (i + 1) = (n + i) + 1
    BY DEF IsSteps
  <2> QED BY <1>2, <2>1 DEF Onward
<1> HIDE DEF above
<1>3. \A i \in Nat : i \in above
  BY <1>1, <1>2, AllNumbers
<1>4. ASSUME NEW m \in Nat, n <= m PROVE w[n] \subseteq w[m]
  <2>1. m - n \in Nat /\ n + (m - n) = m
    BY <1>4
  <2>2. m - n \in above
    BY <1>3, <2>1
  <2> QED BY <2>1, <2>2 DEF above
<1> QED BY <1>4

\* What lies nearer than all paths that still wait is reached.
LEMMA NearIsReached ==
  ASSUME NEW nodes, NEW edges, NEW start, NEW depth \in Nat, NEW Q, NEW k \in Nat, NEW w,
         ArePaths(Q, nodes, edges, start, depth), AreShortest(Q, w),
         AreFollowed(Q, k, edges, depth), IsSteps(w, {start}, edges),
         \A e \in edges : e = <<e[1], e[2]>>,
         NEW b \in Nat, b <= depth, \A i \in 1 .. Len(Q) : Len(Q[i]) <= b => i <= k
  PROVE  w[b] \subseteq Ends(Q)
<1> DEFINE near == {d \in Nat : d <= b => w[d] \subseteq Ends(Q)}
<1>1. /\ Len(Q) \in Nat
      /\ \A x : x \in Ends(Q) <=> \E i \in 1 .. Len(Q) : x = Last(Q[i])
      /\ \A i \in 1 .. Len(Q) : Len(Q[i]) \in Nat
  <2>1. Q \in Seq(Seq(nodes)) /\ Len(Q) \in Nat /\ \A i \in 1 .. Len(Q) : Len(Q[i]) \in Nat
    BY PathTypes
  <2>2. \A x : x \in Ends(Q) <=> \E i \in 1 .. Len(Q) : x = Last(Q[i])
    BY <2>1, EndsAre
  <2> QED BY <2>1, <2>2
<1>2. 0 \in near
  <2>1. Len(Q) >= 1 /\ Q[1] = <<start>>
    BY DEF ArePaths
  <2>2. 1 \in 1 .. Len(Q) /\ Last(Q[1]) = start
    BY <1>1, <2>1 DEF Last
  <2>3. w[0] = {start}
    BY DEF IsSteps
  <2> QED BY <1>1, <2>2, <2>3
<1>3. ASSUME NEW d \in Nat, d \in near PROVE d + 1 \in near
  <2> SUFFICES ASSUME d + 1 <= b, NEW y \in w[d + 1] PROVE y \in Ends(Q)
    OBVIOUS
  <2>1. w[d] \subseteq Ends(Q)
    BY <1>3
  <2>2. w[d + 1] = Onward(w[d], edges)
    BY DEF IsSteps
  <2>3. CASE y \in w[d]
    BY <2>1, <2>3
  <2>4. CASE y \notin w[d]
    <3>1. PICK e \in edges : e[1] \in w[d] /\ y = e[2]
      BY <2>2, <2>4 DEF Onward
    <3>2. PICK i \in 1 .. Len(Q) : Last(Q[i]) = e[1]
      BY <1>1, <2>1, <3>1
    <3>3. Len(Q[i]) < d + 2
      BY <1>1, <3>1, <3>2 DEF AreShortest
    <3>4. i <= k /\ Len(Q[i]) <= depth
      BY <1>1, <3>3
    <3>5. <<Last(Q[i]), y>> \in edges
      BY <3>1, <3>2
    <3> QED BY <3>4, <3>5 DEF AreFollowed
  <2> QED BY <2>3, <2>4
<1> HIDE DEF near
<1>4. b \in near
  BY <1>2, <1>3, AllNumbers
<1> QED BY <1>4 DEF near

QueueInv(Q, k, w, nodes, edges, start, depth) ==
  /\ ArePaths(Q, nodes, edges, start, depth) /\ AreShortest(Q, w)
  /\ AreOrdered(Q, k) /\ AreFollowed(Q, k, edges, depth)

LEMMA QueueStarts ==
  ASSUME NEW nodes, NEW nb, NEW edges, NEW start, NEW depth, NEW w,
         Explorable(nodes, nb, edges, start, depth), IsSteps(w, {start}, edges)
  PROVE  QueueInv(<<<<start>>>>, 0, w, nodes, edges, start, depth)
<1> DEFINE Q == <<<<start>>>>
<1>1. start \in nodes /\ depth \in Nat /\ w[0] = {start}
  BY DEF Explorable, IsSteps
<1>2. Q \in Seq(Seq(nodes)) /\ Len(Q) = 1 /\ Q[1] = <<start>> /\ Len(Q[1]) = 1 /\ Q[1][1] = start
  BY <1>1
<1>3. Last(Q[1]) = start
  BY <1>2 DEF Last
<1>4. \A i \in 1 .. Len(Q) : i = 1
  BY <1>2
<1> HIDE DEF Q
<1>5. ArePaths(Q, nodes, edges, start, depth)
  <2>1. /\ Len(Q[1]) \in 1 .. depth + 1 /\ Q[1][1] = start /\ ~ (1 > 1)
        /\ \A j \in 2 .. Len(Q[1]) : FALSE
    BY <1>1, <1>2
  <2>2. \A i \in 1 .. Len(Q) : /\ Len(Q[i]) \in 1 .. depth + 1 /\ Q[i][1] = start
                               /\ i > 1 => Len(Q[i]) > 1
                               /\ \A j \in 2 .. Len(Q[i]) : <<Q[i][j - 1], Q[i][j]>> \in edges
    BY <1>4, <2>1
  <2> QED BY <1>2, <2>2 DEF ArePaths
<1>6. AreShortest(Q, w)
  <2>1. Last(Q[1]) \in w[Len(Q[1]) - 1]
    BY <1>1, <1>2, <1>3
  <2>2. \A d \in Nat : ~ (d + 2 <= Len(Q[1]))
    BY <1>2
  <2> QED BY <1>4, <2>1, <2>2 DEF AreShortest
<1>7. AreOrdered(Q, 0)
  BY <1>2, <1>4 DEF AreOrdered
<1>8. AreFollowed(Q, 0, edges, depth)
  BY <1>4 DEF AreFollowed
<1> QED BY <1>5, <1>6, <1>7, <1>8 DEF QueueInv, Q

\* The next path leaves the queue.
LEMMA QueueStep ==
  ASSUME NEW nodes, NEW nb, NEW edges, NEW start, NEW depth, NEW w, NEW Q, NEW k \in Nat,
         Explorable(nodes, nb, edges, start, depth), IsSteps(w, {start}, edges),
         QueueInv(Q, k, w, nodes, edges, start, depth), NEW R, QueueMoves(R, Q, k + 1, nodes, nb, depth)
  PROVE  QueueInv(R, k + 1, w, nodes, edges, start, depth)
<1>1. /\ ArePaths(Q, nodes, edges, start, depth) /\ AreShortest(Q, w)
      /\ AreOrdered(Q, k) /\ AreFollowed(Q, k, edges, depth) /\ depth \in Nat
  BY DEF QueueInv, Explorable
<1>2. /\ Q \in Seq(Seq(nodes)) /\ Len(Q) \in Nat /\ DOMAIN Q = 1 .. Len(Q)
      /\ \A x : x \in Ends(Q) <=> \E i \in 1 .. Len(Q) : x = Last(Q[i])
  <2>1. Q \in Seq(Seq(nodes)) /\ Len(Q) \in Nat /\ DOMAIN Q = 1 .. Len(Q)
    BY <1>1, PathTypes
  <2>2. \A x : x \in Ends(Q) <=> \E i \in 1 .. Len(Q) : x = Last(Q[i])
    BY <2>1, EndsAre
  <2> QED BY <2>1, <2>2
<1>3. \A i \in 1 .. Len(Q) : Q[i] \in Seq(nodes) /\ Len(Q[i]) \in Nat /\ Last(Q[i]) \in nodes
  BY <1>1, PathTypes
<1>4. CASE ~ (k + 1 <= Len(Q))
  <2>1. R = Q
    BY <1>4 DEF QueueMoves
  <2>2. \A i \in 1 .. Len(Q) : i <= k /\ ~ (k + 1 < i)
    BY <1>2, <1>4
  <2>3. AreOrdered(Q, k + 1)
    BY <1>1, <2>2 DEF AreOrdered
  <2>4. AreFollowed(Q, k + 1, edges, depth)
    BY <1>1, <2>2 DEF AreFollowed
  <2> QED BY <1>1, <2>1, <2>3, <2>4 DEF QueueInv
<1>5. CASE k + 1 <= Len(Q)
  <2>0. PICK fresh \in Seq(nodes) : R \in Seq(Seq(nodes)) /\ Joined(fresh, R, Q, k + 1, nb, depth)
    BY <1>5 DEF QueueMoves
  <2>1. /\ R \in Seq(Seq(nodes))
        /\ Range(fresh) = IF Len(Q[k + 1]) > depth THEN {} ELSE nb[Last(Q[k + 1])] \ Ends(Q)
        /\ \A i, j \in 1 .. Len(fresh) : fresh[i] = fresh[j] => i = j
        /\ Len(R) = Len(Q) + Len(fresh)
        /\ \A i \in 1 .. Len(Q) : R[i] = Q[i]
        /\ \A i \in 1 .. Len(fresh) : R[Len(Q) + i] = Append(Q[k + 1], fresh[i])
    BY <2>0 DEF Joined
  <2>2. PICK p : p = Q[k + 1]
    OBVIOUS
  <2>3. PICK l : l = Len(p)
    OBVIOUS
  <2>4. PICK c : c = Len(fresh)
    OBVIOUS
  <2>5. k + 1 \in 1 .. Len(Q) /\ p \in Seq(nodes) /\ l \in Nat /\ c \in Nat /\ Last(p) \in nodes
        /\ Last(p) = p[l] /\ l \in 1 .. depth + 1 /\ p[1] = start
    <3>1. k + 1 \in 1 .. Len(Q)
      BY <1>2, <1>5
    <3> QED BY <1>1, <1>3, <2>1, <2>2, <2>3, <2>4, <3>1 DEF ArePaths, Last
  \* What joins the queue.
  <2>6. ASSUME NEW i \in 1 .. c
        PROVE  /\ l <= depth
               /\ fresh[i] \in nodes /\ <<Last(p), fresh[i]>> \in edges /\ fresh[i] \notin Ends(Q)
    <3>1. fresh[i] \in Range(fresh)
      <4>1. DOMAIN fresh = 1 .. c
        BY <2>1, <2>4
      <4> QED BY <4>1 DEF Range
    <3>2. ~ (l > depth) /\ fresh[i] \in nb[Last(p)] \ Ends(Q)
      BY <2>1, <2>2, <2>3, <3>1
    <3>3. nb[Last(p)] = {m \in nodes : <<Last(p), m>> \in edges}
      BY <2>5 DEF Explorable
    <3>4. l <= depth
      BY <1>1, <2>5, <3>2
    <3> QED BY <3>2, <3>3, <3>4
  <2>7. ASSUME NEW i \in 1 .. c
        PROVE  /\ Len(R[Len(Q) + i]) = l + 1 /\ Last(R[Len(Q) + i]) = fresh[i] /\ R[Len(Q) + i][1] = start
               /\ \A j \in 1 .. l : R[Len(Q) + i][j] = p[j]
               /\ R[Len(Q) + i][l + 1] = fresh[i]
    <3>1. R[Len(Q) + i] = Append(p, fresh[i]) /\ fresh[i] \in nodes
      BY <2>1, <2>2, <2>4, <2>6
    <3> QED BY <2>3, <2>5, <3>1 DEF Last
  <2>8. Len(R) = Len(Q) + c /\ \A i \in 1 .. Len(Q) : R[i] = Q[i]
    BY <2>1, <2>4
  <2>9. ASSUME NEW i \in 1 .. Len(R), ~ (i <= Len(Q)) PROVE \E h \in 1 .. c : i = Len(Q) + h
    <3>1. i - Len(Q) \in 1 .. c /\ i = Len(Q) + (i - Len(Q))
      BY <1>2, <2>5, <2>8, <2>9
    <3> QED BY <3>1
  <2>10. Ends(R) = Ends(Q) \cup Range(fresh)
    <3>1. DOMAIN R = 1 .. Len(R) /\ DOMAIN fresh = 1 .. c
      BY <2>1, <2>4
    <3>2. ASSUME NEW x \in Ends(R) PROVE x \in Ends(Q) \cup Range(fresh)
      <4>1. PICK i \in 1 .. Len(R) : x = Last(R[i])
        BY <3>1, <3>2 DEF Ends, Last
      <4>2. CASE i <= Len(Q)
        BY <1>2, <2>8, <4>1, <4>2
      <4>3. CASE ~ (i <= Len(Q))
        <5>1. PICK h \in 1 .. c : i = Len(Q) + h
          BY <2>9, <4>3
        <5>2. x = fresh[h] /\ h \in DOMAIN fresh
          BY <2>7, <3>1, <4>1, <5>1
        <5> QED BY <5>2 DEF Range
      <4> QED BY <4>2, <4>3
    <3>3. ASSUME NEW x \in Ends(Q) PROVE x \in Ends(R)
      BY <1>2, <2>5, <2>8, <3>1, <3>3 DEF Ends, Last
    <3>4. ASSUME NEW i \in 1 .. c PROVE fresh[i] \in Ends(R)
      <4>1. Len(Q) + i \in 1 .. Len(R)
        BY <1>2, <2>5, <2>8
      <4> QED BY <2>7, <3>1, <4>1 DEF Ends, Last
    <3> QED BY <3>1, <3>2, <3>3, <3>4 DEF Range
  <2>11. ArePaths(R, nodes, edges, start, depth)
    <3>1. Len(R) >= 1 /\ R[1] = <<start>>
      <4>1. Len(Q) >= 1 /\ Q[1] = <<start>>
        BY <1>1 DEF ArePaths
      <4>2. 1 \in 1 .. Len(Q)
        BY <1>2, <4>1
      <4> QED BY <1>2, <2>5, <2>8, <4>1, <4>2
    <3>2. ASSUME NEW i \in 1 .. Len(R)
          PROVE  /\ Len(R[i]) \in 1 .. depth + 1 /\ R[i][1] = start
                 /\ i > 1 => Len(R[i]) > 1
                 /\ \A j \in 2 .. Len(R[i]) : <<R[i][j - 1], R[i][j]>> \in edges
      <4>1. CASE i <= Len(Q)
        <5>1. i \in 1 .. Len(Q) /\ R[i] = Q[i]
          BY <1>2, <2>8, <4>1
        <5> QED BY <1>1, <5>1 DEF ArePaths
      <4>2. CASE ~ (i <= Len(Q))
        <5>1. PICK h \in 1 .. c : i = Len(Q) + h
          BY <2>9, <4>2
        <5>2. /\ Len(R[i]) = l + 1 /\ R[i][1] = start /\ l <= depth
              /\ \A j \in 1 .. l : R[i][j] = p[j]
              /\ R[i][l + 1] = fresh[h] /\ <<p[l], fresh[h]>> \in edges
          BY <2>5, <2>6, <2>7, <5>1
        <5>3. \A j \in 2 .. l : <<p[j - 1], p[j]>> \in edges
          BY <1>1, <2>2, <2>3, <2>5 DEF ArePaths
        <5>4. ASSUME NEW j \in 2 .. l + 1 PROVE <<R[i][j - 1], R[i][j]>> \in edges
          <6>1. CASE j <= l
            <7>1. j \in 1 .. l /\ j - 1 \in 1 .. l /\ j \in 2 .. l
              BY <2>5, <6>1
            <7> QED BY <5>2, <5>3, <7>1
          <6>2. CASE j = l + 1
            <7>1. j - 1 = l /\ l \in 1 .. l
              BY <2>5, <6>2
            <7> QED BY <5>2, <6>2, <7>1
          <6> QED BY <2>5, <6>1, <6>2
        <5> QED BY <1>1, <2>5, <5>2, <5>4
      <4> QED BY <4>1, <4>2
    <3> QED BY <2>1, <3>1, <3>2 DEF ArePaths
  <2>12. AreShortest(R, w)
    <3>1. w[l] = Onward(w[l - 1], edges) /\ l - 1 \in Nat
      <4>1. l - 1 \in Nat /\ (l - 1) + 1 = l
        BY <2>5
      <4> QED BY <4>1 DEF IsSteps
    <3>2. Last(p) \in w[l - 1]
      BY <1>1, <2>2, <2>3, <2>5 DEF AreShortest
    <3>3. ASSUME l <= depth PROVE w[l - 1] \subseteq Ends(Q)
      <4>1. \A i \in 1 .. Len(Q) : k + 1 <= i => l <= Len(Q[i])
        BY <1>1, <2>2, <2>3, <2>5 DEF AreOrdered
      <4>2. \A i \in 1 .. Len(Q) : Len(Q[i]) <= l - 1 => i <= k
        BY <1>2, <1>3, <2>5, <4>1
      <4>3. \A e \in edges : e = <<e[1], e[2]>>
        BY DEF Explorable, IsGraph
      <4>4. l - 1 <= depth
        BY <1>1, <2>5, <3>3
      <4> QED BY <1>1, <3>1, <4>2, <4>3, <4>4, NearIsReached
    <3>4. ASSUME NEW h \in 1 .. c
          PROVE  /\ fresh[h] \in w[l]
                 /\ \A d \in Nat : d + 2 <= l + 1 => fresh[h] \notin w[d]
      <4>1. l <= depth /\ <<Last(p), fresh[h]>> \in edges /\ fresh[h] \notin Ends(Q)
        BY <2>6
      <4>2. fresh[h] \in w[l]
        BY <3>1, <3>2, <4>1 DEF Onward
      <4>3. ASSUME NEW d \in Nat, d + 2 <= l + 1 PROVE fresh[h] \notin w[d]
        <5>1. d <= l - 1
          BY <2>5, <4>3
        <5>2. w[d] \subseteq w[l - 1]
          BY <3>1, <5>1, StepsGrow
        <5> QED BY <3>3, <4>1, <5>2
      <4> QED BY <4>2, <4>3
    <3>5. ASSUME NEW i \in 1 .. Len(R)
          PROVE  /\ Last(R[i]) \in w[Len(R[i]) - 1]
                 /\ \A d \in Nat : d + 2 <= Len(R[i]) => Last(R[i]) \notin w[d]
      <4>1. CASE i <= Len(Q)
        <5>1. i \in 1 .. Len(Q) /\ R[i] = Q[i]
          BY <1>2, <2>8, <4>1
        <5> QED BY <1>1, <5>1 DEF AreShortest
      <4>2. CASE ~ (i <= Len(Q))
        <5>1. PICK h \in 1 .. c : i = Len(Q) + h
          BY <2>9, <4>2
        <5>2. Len(R[i]) = l + 1 /\ Last(R[i]) = fresh[h]
          BY <2>7, <5>1
        <5>3. (l + 1) - 1 = l
          BY <2>5
        <5> QED BY <3>4, <5>2, <5>3
      <4> QED BY <4>1, <4>2
    <3>6. ASSUME NEW i \in 1 .. Len(R), NEW j \in 1 .. Len(R), Last(R[i]) = Last(R[j])
          PROVE  i = j
      <4>1. ASSUME NEW a \in 1 .. Len(R), a <= Len(Q) PROVE a \in 1 .. Len(Q) /\ R[a] = Q[a] /\ Last(R[a]) \in Ends(Q)
        BY <1>2, <2>8, <4>1
      <4>2. ASSUME NEW a \in 1 .. Len(R), ~ (a <= Len(Q))
            PROVE  /\ Last(R[a]) \notin Ends(Q)
                   /\ \E h \in 1 .. c : a = Len(Q) + h /\ Last(R[a]) = fresh[h]
        <5>1. PICK h \in 1 .. c : a = Len(Q) + h
          BY <2>9, <4>2
        <5> QED BY <2>6, <2>7, <5>1
      <4>3. CASE i <= Len(Q)
        <5>1. j <= Len(Q)
          BY <3>6, <4>1, <4>2, <4>3
        <5> QED BY <1>1, <3>6, <4>1, <4>3, <5>1 DEF AreShortest
      <4>4. CASE ~ (i <= Len(Q))
        <5>1. ~ (j <= Len(Q))
          BY <3>6, <4>1, <4>2, <4>4
        <5>2. PICK h \in 1 .. c : i = Len(Q) + h /\ Last(R[i]) = fresh[h]
          BY <4>2, <4>4
        <5>3. PICK g \in 1 .. c : j = Len(Q) + g /\ Last(R[j]) = fresh[g]
          BY <4>2, <5>1
        <5>4. h = g
          BY <2>1, <2>4, <3>6, <5>2, <5>3
        <5> QED BY <5>2, <5>3, <5>4
      <4> QED BY <4>3, <4>4
    <3> QED BY <3>5, <3>6 DEF AreShortest
  \* The length of each path of the new queue.
  <2>13. ASSUME NEW i \in 1 .. Len(R)
         PROVE  /\ i <= Len(Q) => i \in 1 .. Len(Q) /\ R[i] = Q[i] /\ Len(Q[i]) \in Nat
                /\ ~ (i <= Len(Q)) => Len(R[i]) = l + 1 /\ l <= depth
    <3>1. CASE i <= Len(Q)
      BY <1>2, <1>3, <2>8, <3>1
    <3>2. CASE ~ (i <= Len(Q))
      <4>1. PICK h \in 1 .. c : i = Len(Q) + h
        BY <2>9, <3>2
      <4> QED BY <2>6, <2>7, <3>2, <4>1
    <3> QED BY <3>1, <3>2
  <2>14. AreOrdered(R, k + 1)
    <3>1. \A i \in 1 .. Len(Q) : Len(Q[i]) <= l + 1 /\ (k + 1 <= i => l <= Len(Q[i]))
      BY <1>1, <2>2, <2>3, <2>5 DEF AreOrdered
    <3>2. ASSUME NEW i \in 1 .. Len(R), NEW j \in 1 .. Len(R), i <= j PROVE Len(R[i]) <= Len(R[j])
      <4>1. CASE j <= Len(Q)
        <5>1. i <= Len(Q)
          BY <1>2, <3>2, <4>1
        <5> QED BY <1>1, <2>13, <3>2, <4>1, <5>1 DEF AreOrdered
      <4>2. CASE ~ (j <= Len(Q))
        <5>1. Len(R[j]) = l + 1
          BY <2>13, <4>2
        <5>2. CASE i <= Len(Q)
          BY <2>13, <3>1, <5>1, <5>2
        <5>3. CASE ~ (i <= Len(Q))
          <6>1. Len(R[i]) = l + 1 /\ l + 1 <= l + 1
            BY <2>5, <2>13, <5>3
          <6> QED BY <5>1, <6>1
        <5> QED BY <5>2, <5>3
      <4> QED BY <4>1, <4>2
    <3>3. ASSUME NEW i \in 1 .. Len(R), NEW j \in 1 .. Len(R), k + 1 < i PROVE Len(R[j]) <= Len(R[i]) + 1
      <4> l \in Nat /\ l + 1 \in Nat /\ l <= l + 1 /\ l + 1 <= l + 1
        BY <2>5
      <4>1. l <= Len(R[i]) /\ Len(R[i]) \in Nat
        <5>1. CASE i <= Len(Q)
          <6>1. i \in 1 .. Len(Q) /\ R[i] = Q[i] /\ Len(Q[i]) \in Nat
            BY <2>13, <5>1
          <6>2. k + 1 <= i
            BY <1>5, <3>3
          <6>3. l <= Len(Q[i])
            BY <3>1, <6>1, <6>2
          <6> QED BY <6>1, <6>3
        <5>2. CASE ~ (i <= Len(Q))
          <6>1. Len(R[i]) = l + 1
            BY <2>13, <5>2
          <6> QED BY <6>1
        <5> QED BY <5>1, <5>2
      <4>2. Len(R[j]) <= l + 1 /\ Len(R[j]) \in Nat
        <5>1. CASE j <= Len(Q)
          <6>1. j \in 1 .. Len(Q) /\ R[j] = Q[j] /\ Len(Q[j]) \in Nat
            BY <2>13, <5>1
          <6>2. Len(Q[j]) <= l + 1
            BY <3>1, <6>1
          <6> QED BY <6>1, <6>2
        <5>2. CASE ~ (j <= Len(Q))
          <6>1. Len(R[j]) = l + 1
            BY <2>13, <5>2
          <6> QED BY <6>1
        <5> QED BY <5>1, <5>2
      <4>3. PICK x, y : x = Len(R[i]) /\ y = Len(R[j])
        OBVIOUS
      <4>4. x \in Nat /\ y \in Nat /\ l \in Nat /\ l <= x /\ y <= l + 1
        BY <2>5, <4>1, <4>2, <4>3
      <4>5. y <= x + 1
        BY <4>4
      <4> QED BY <4>3, <4>5
    <3> QED BY <3>2, <3>3 DEF AreOrdered
  <2>15. AreFollowed(R, k + 1, edges, depth)
    <3> SUFFICES ASSUME NEW i \in 1 .. Len(R), i <= k + 1, Len(R[i]) <= depth,
                        NEW m, <<Last(R[i]), m>> \in edges
                 PROVE  m \in Ends(Q) \cup Range(fresh)
      BY <2>10 DEF AreFollowed
    <3>1. i \in 1 .. Len(Q) /\ R[i] = Q[i]
      BY <1>2, <1>5, <2>13
    <3>2. CASE i <= k
      BY <1>1, <3>1, <3>2 DEF AreFollowed
    <3>3. CASE i = k + 1
      <4>1. Range(fresh) = nb[Last(p)] \ Ends(Q)
        BY <1>1, <2>1, <2>2, <2>3, <2>5, <3>1, <3>3
      <4>2. nb[Last(p)] = {n \in nodes : <<Last(p), n>> \in edges}
        BY <2>5 DEF Explorable
      <4>3. m \in nodes
        BY DEF Explorable, IsGraph
      <4>4. <<Last(p), m>> \in edges
        BY <2>2, <3>1, <3>3
      <4> QED BY <4>1, <4>2, <4>3, <4>4
    <3> QED BY <3>2, <3>3
  <2> QED BY <2>1, <2>11, <2>12, <2>14, <2>15 DEF QueueInv
<1> QED BY <1>2, <1>4, <1>5


LEMMA QueueInvariance ==
  ASSUME NEW nodes, NEW nb, NEW edges, NEW start, NEW depth, NEW w, NEW q,
         Explorable(nodes, nb, edges, start, depth), IsSteps(w, {start}, edges),
         IsQueue(q, nodes, nb, edges, start, depth)
  PROVE  \A k \in Nat : QueueInv(q[k], k, w, nodes, edges, start, depth)
<1> DEFINE kept == {k \in Nat : QueueInv(q[k], k, w, nodes, edges, start, depth)}
<1>1. 0 \in kept
  BY QueueStarts DEF IsQueue
<1>2. ASSUME NEW k \in Nat, k \in kept PROVE k + 1 \in kept
  <2>1. QueueInv(q[k], k, w, nodes, edges, start, depth)
    BY <1>2
  <2>2. QueueMoves(q[k + 1], q[k], k + 1, nodes, nb, depth)
    BY <2>1 DEF IsQueue, QueueInv
  <2>3. QueueInv(q[k + 1], k + 1, w, nodes, edges, start, depth)
    BY <2>1, <2>2, QueueStep
  <2> QED BY <2>3
<1> HIDE DEF kept
<1>3. \A k \in Nat : k \in kept
  BY <1>1, <1>2, AllNumbers
<1> QED BY <1>3 DEF kept

\* There are no more paths than nodes.
LEMMA AllLeave ==
  ASSUME NEW nodes, NEW nb, NEW edges, NEW start, NEW depth, NEW w, NEW Q, NEW k,
         Explorable(nodes, nb, edges, start, depth), QueueInv(Q, k, w, nodes, edges, start, depth)
  PROVE  Len(Q) <= Cardinality(nodes) /\ Cardinality(nodes) \in Nat
<1>1. IsFiniteSet(nodes) /\ Cardinality(nodes) \in Nat /\ depth \in Nat
  BY FS_CardinalityType DEF Explorable, IsGraph
<1>2. Len(Q) \in Nat /\ \A i \in 1 .. Len(Q) : Last(Q[i]) \in nodes
  BY <1>1, PathTypes DEF QueueInv
<1> DEFINE f == [i \in 1 .. Len(Q) |-> Last(Q[i])]
<1>3. f \in [1 .. Len(Q) -> nodes]
  BY <1>2
<1>4. \A i, j \in 1 .. Len(Q) : f[i] = f[j] => i = j
  BY DEF QueueInv, AreShortest
<1> HIDE DEF f
<1>5. f \in Injection(1 .. Len(Q), nodes)
  BY <1>3, <1>4 DEF Injection, IsInjective
<1>6. IsFiniteSet(1 .. Len(Q)) /\ Cardinality(1 .. Len(Q)) = Len(Q)
  BY <1>2, FS_Interval
<1>7. Cardinality(1 .. Len(Q)) <= Cardinality(nodes)
  BY <1>1, <1>5, <1>6, FS_Injection
<1> QED BY <1>1, <1>6, <1>7

LEMMA EndsAreNear ==
  ASSUME NEW nodes, NEW nb, NEW edges, NEW start, NEW depth, NEW w, NEW Q, NEW k,
         Explorable(nodes, nb, edges, start, depth), QueueInv(Q, k, w, nodes, edges, start, depth),
         IsSteps(w, {start}, edges)
  PROVE  Ends(Q) \subseteq w[depth]
<1>1. depth \in Nat
  BY DEF Explorable
<1>2. Q \in Seq(Seq(nodes)) /\ \A i \in 1 .. Len(Q) : Len(Q[i]) \in Nat
  BY <1>1, PathTypes DEF QueueInv
<1>3. \A x : x \in Ends(Q) <=> \E i \in 1 .. Len(Q) : x = Last(Q[i])
  BY <1>2, EndsAre
<1>4. ASSUME NEW i \in 1 .. Len(Q) PROVE Last(Q[i]) \in w[depth]
  <2>1. Len(Q[i]) - 1 \in Nat /\ Len(Q[i]) - 1 <= depth
    BY <1>1, <1>2 DEF QueueInv, ArePaths
  <2>2. Last(Q[i]) \in w[Len(Q[i]) - 1]
    BY DEF QueueInv, AreShortest
  <2>3. w[Len(Q[i]) - 1] \subseteq w[depth]
    BY <1>1, <2>1, StepsGrow
  <2> QED BY <2>2, <2>3
<1> QED BY <1>3, <1>4

\* When all paths have left the queue, their ends are what lies within the depth.
LEMMA QueueIsExact ==
  ASSUME NEW nodes, NEW nb, NEW edges, NEW start, NEW depth, NEW w, NEW q, NEW n \in Nat,
         Explorable(nodes, nb, edges, start, depth), IsSteps(w, {start}, edges),
         IsQueue(q, nodes, nb, edges, start, depth), Cardinality(nodes) <= n
  PROVE  QueueInv(q[n], n, w, nodes, edges, start, depth) /\ Ends(q[n]) = w[depth]
<1>1. PICK Q : Q = q[n]
  OBVIOUS
<1>2. depth \in Nat
  BY DEF Explorable
<1>3. QueueInv(Q, n, w, nodes, edges, start, depth)
  BY <1>1, QueueInvariance
<1>4. /\ ArePaths(Q, nodes, edges, start, depth) /\ AreShortest(Q, w)
      /\ AreFollowed(Q, n, edges, depth)
  BY <1>3 DEF QueueInv
<1>5. Len(Q) <= Cardinality(nodes) /\ Cardinality(nodes) \in Nat
  BY <1>3, AllLeave
<1>6. Len(Q) \in Nat
  BY <1>2, <1>4, PathTypes
<1>7. \A i \in 1 .. Len(Q) : i <= n
  BY <1>5, <1>6
<1>8. \A e \in edges : e = <<e[1], e[2]>>
  BY DEF Explorable, IsGraph
<1>9. depth <= depth
  BY <1>2
<1>10. w[depth] \subseteq Ends(Q)
  BY <1>2, <1>4, <1>7, <1>8, <1>9, NearIsReached
<1>11. Ends(Q) \subseteq w[depth]
  BY <1>3, EndsAreNear
<1> QED BY <1>1, <1>3, <1>10, <1>11


--------------------------------------------------------------------------------
(* Orders. *)

\* Before one another, in one way only, and without a circle.
IsOrder(less, S) ==
  /\ \A x, y \in S : x # y <=> <<x, y>> \in less \/ <<y, x>> \in less
  /\ \A x, y, z \in S : <<x, y>> \in less /\ <<y, z>> \in less => <<x, z>> \in less

OrderedBy(S, less) == Sorted(S, LAMBDA a, b : <<a, b>> \in less)

\* So does any other order of a finite set.
LEMMA ElementsInOrder ==
  ASSUME NEW S, IsFiniteSet(S), NEW less, IsOrder(less, S)
  PROVE  LET s == OrderedBy(S, less)
         IN /\ s \in Seq(S) /\ Range(s) = S /\ Len(s) = Cardinality(S)
            /\ \A i, j \in DOMAIN s : s[i] = s[j] => i = j
            /\ \A i, j \in DOMAIN s : i < j <=> <<s[i], s[j]>> \in less
            /\ \A i \in 1 .. Cardinality(S), x \in S :
                 Cardinality({y \in S : <<y, x>> \in less}) = i - 1 <=> x = s[i]
<1> DEFINE before(x) == {y \in S : <<y, x>> \in less}
           size == Cardinality(S)
           rank == [x \in S |-> Cardinality(before(x))]
           place(i) == CHOOSE x \in S : Cardinality(before(x)) = i - 1
           s == [i \in 1 .. size |-> place(i)]
<1>1. OrderedBy(S, less) = s
  BY DEF OrderedBy, Sorted
<1>2. size \in Nat
  BY FS_CardinalityType
<1>3. \A x \in S : IsFiniteSet(before(x)) /\ Cardinality(before(x)) \in Nat
  BY FS_Subset, FS_CardinalityType
<1>4. \A x \in S : <<x, x>> \notin less
  BY DEF IsOrder
<1>5. \A x, y \in S : <<x, y>> \in less => rank[x] < rank[y]
  <2> SUFFICES ASSUME NEW x \in S, NEW y \in S, <<x, y>> \in less PROVE rank[x] < rank[y]
    OBVIOUS
  <2>1. before(x) \in SUBSET before(y) /\ x \in before(y) /\ x \notin before(x)
    BY <1>4 DEF IsOrder
  <2>2. Cardinality(before(x)) <= Cardinality(before(y)) /\ Cardinality(before(x)) # Cardinality(before(y))
    BY <1>3, <2>1, FS_Subset
  <2>3. rank[x] = Cardinality(before(x)) /\ rank[y] = Cardinality(before(y))
    OBVIOUS
  <2> HIDE DEF before, rank
  <2> QED BY <1>3, <2>2, <2>3
<1>6. rank \in [S -> Nat]
  BY <1>3
<1>7. \A x, y \in S : rank[x] = rank[y] => x = y
  <2> SUFFICES ASSUME NEW x \in S, NEW y \in S, x # y PROVE rank[x] # rank[y]
    OBVIOUS
  <2> HIDE DEF rank
  <2>1. rank[x] \in Nat /\ rank[y] \in Nat
    BY <1>6
  <2>2. <<x, y>> \in less \/ <<y, x>> \in less
    BY DEF IsOrder
  <2>3. rank[x] < rank[y] \/ rank[y] < rank[x]
    BY <1>5, <2>2
  <2> QED BY <2>1, <2>3
<1>8. \A x \in S : Lower(x, S, rank) = before(x)
  <2> SUFFICES ASSUME NEW x \in S, NEW y \in S PROVE rank[y] < rank[x] <=> <<y, x>> \in less
    BY DEF Lower
  <2>1. rank[x] \in Nat /\ rank[y] \in Nat
    BY <1>6
  <2> HIDE DEF rank
  <2>2. CASE x = y
    BY <1>4, <2>1, <2>2
  <2>3. CASE <<y, x>> \in less
    BY <1>5, <2>3
  <2>4. CASE <<x, y>> \in less
    BY <1>4, <1>5, <2>1, <2>4 DEF IsOrder
  <2> QED BY <2>2, <2>3, <2>4 DEF IsOrder
<1>9. /\ \A x \in S : Cardinality(Lower(x, S, rank)) + 1 \in 1 .. Cardinality(S)
      /\ \A x, y \in S : Cardinality(Lower(x, S, rank)) = Cardinality(Lower(y, S, rank)) => x = y
      /\ \A i \in 1 .. Cardinality(S) : \E x \in S : Cardinality(Lower(x, S, rank)) = i - 1
  <2> HIDE DEF rank
  <2> QED BY <1>6, <1>7, PlacesAreTaken
<1>10. /\ \A x \in S : Cardinality(before(x)) + 1 \in 1 .. size
       /\ \A i \in 1 .. size : \E x \in S : Cardinality(before(x)) = i - 1
  <2> HIDE DEF before, rank
  <2> QED BY <1>8, <1>9
<1>11. \A i \in 1 .. size : place(i) \in S /\ Cardinality(before(place(i))) = i - 1
  <2> SUFFICES ASSUME NEW i \in 1 .. size
               PROVE  place(i) \in S /\ Cardinality(before(place(i))) = i - 1
    OBVIOUS
  <2>1. PICK x \in S : Cardinality(before(x)) = i - 1
    BY <1>10
  <2> HIDE DEF before
  <2> QED BY <2>1
<1>12. DOMAIN s = 1 .. size /\ \A i \in 1 .. size : s[i] \in S /\ rank[s[i]] = i - 1
  <2> HIDE DEF before
  <2> QED BY <1>11 DEF s, rank
<1> HIDE DEF s, place
<1>13. s \in Seq(S) /\ Len(s) = size
  <2>1. s \in [1 .. size -> S]
    <3>1. s = [i \in 1 .. size |-> s[i]]
      BY DEF s
    <3> QED BY <1>12, <3>1
  <2> QED BY <1>2, <2>1
<1>14. \A x \in S : \E i \in 1 .. size : s[i] = x
  <2> SUFFICES ASSUME NEW x \in S PROVE \E i \in 1 .. size : s[i] = x
    OBVIOUS
  <2>1. rank[x] = Cardinality(before(x)) /\ rank[x] \in Nat /\ rank[x] + 1 \in 1 .. size
    BY <1>3, <1>10
  <2>2. s[rank[x] + 1] \in S /\ rank[s[rank[x] + 1]] = (rank[x] + 1) - 1
    BY <1>12, <2>1
  <2> HIDE DEF rank, before
  <2>3. rank[s[rank[x] + 1]] = rank[x]
    BY <2>1, <2>2
  <2>4. s[rank[x] + 1] = x
    BY <1>7, <2>2, <2>3
  <2> QED BY <2>1, <2>4
<1>15. Range(s) = S
  BY <1>12, <1>14 DEF Range
<1> HIDE DEF rank
<1>16. \A i, j \in 1 .. size : s[i] = s[j] => i = j
  BY <1>12
<1>17. \A i, j \in 1 .. size : i < j <=> <<s[i], s[j]>> \in less
  <2> SUFFICES ASSUME NEW i \in 1 .. size, NEW j \in 1 .. size PROVE i < j <=> <<s[i], s[j]>> \in less
    OBVIOUS
  <2>1. s[i] \in S /\ s[j] \in S /\ rank[s[i]] = i - 1 /\ rank[s[j]] = j - 1
    BY <1>12
  <2>2. CASE i = j
    BY <1>4, <2>1, <2>2
  <2>3. CASE <<s[i], s[j]>> \in less
    BY <1>5, <2>1, <2>3
  <2>4. CASE i # j /\ <<s[j], s[i]>> \in less
    <3>1. j < i
      BY <1>5, <2>1, <2>4
    <3>2. <<s[i], s[j]>> \notin less
      BY <1>4, <2>1, <2>4 DEF IsOrder
    <3> QED BY <3>1, <3>2
  <2>5. i # j => s[i] # s[j]
    BY <1>16
  <2> QED BY <2>1, <2>2, <2>3, <2>4, <2>5 DEF IsOrder
<1>18. \A i \in 1 .. size, x \in S : rank[x] = i - 1 <=> x = s[i]
  BY <1>7, <1>12
<1>19. \A i \in 1 .. size, x \in S : Cardinality(before(x)) = i - 1 <=> x = s[i]
  BY <1>18 DEF rank
<1> HIDE DEF size
<1> QED BY <1>1, <1>19, <1>12, <1>13, <1>15, <1>16, <1>17 DEF size

--------------------------------------------------------------------------------
(* Folds. *)

\* What a fold from the left makes of the places in a set, by a table of its steps.
IsFold(it, table, base, seq) ==
  it = [s \in SUBSET DOMAIN seq |->
          IF s = {} THEN base ELSE table[<<it[s \ {Max(s)}], seq[Max(s)]>>]]

LEMMA LargestPlace ==
  ASSUME NEW n \in Nat, NEW s \in SUBSET (1 .. n), s # {}
  PROVE  Max(s) \in s /\ \A i \in s : i <= Max(s)
<1> DEFINE up == {n - i : i \in s}
<1>0. \A i \in s : i \in Nat /\ i <= n
  OBVIOUS
<1>1. up \subseteq Nat /\ up # {}
  <2>1. \A i \in s : n - i \in Nat
    BY <1>0
  <2>2. PICK i : i \in s
    OBVIOUS
  <2>3. n - i \in up
    BY <2>2
  <2> QED BY <2>1, <2>3
<1>2. PICK m \in up : \A k \in up : m <= k
  BY <1>1, LeastNumber
<1>3. PICK x \in s : m = n - x
  OBVIOUS
<1>4. \A i \in s : x >= i
  <2> TAKE i \in s
  <2>1. n - i \in up
    OBVIOUS
  <2>2. m <= n - i /\ i \in Nat /\ x \in Nat
    BY <1>0, <1>2, <2>1
  <2> QED BY <1>3, <2>2
<1>5. \E y \in s : \A i \in s : y >= i
  BY <1>4
<1>6. Max(s) \in s /\ \A i \in s : Max(s) >= i
  BY <1>5 DEF Max
<1> QED BY <1>0, <1>6

\* The same for the first n places.
FoldsTo(it, table, base, seq, n) ==
  \A s \in SUBSET (1 .. n) :
    it[s] = IF s = {} THEN base ELSE table[<<it[s \ {Max(s)}], seq[Max(s)]>>]
CanFold(A, table, base, seq, n) == \E it \in [SUBSET (1 .. n) -> A] : FoldsTo(it, table, base, seq, n)

\* A fold is a recursive function, of the sets of places.
LEMMA FoldExists ==
  ASSUME NEW A, NEW E, NEW table \in [A \X E -> A], NEW base \in A, NEW seq \in Seq(E)
  PROVE  \E it \in [SUBSET DOMAIN seq -> A] : IsFold(it, table, base, seq)
<1> DEFINE good == {n \in Nat : n <= Len(seq) => CanFold(A, table, base, seq, n)}
<1>1. DOMAIN seq = 1 .. Len(seq) /\ Len(seq) \in Nat
  OBVIOUS
<1>2. 0 \in good
  <2> DEFINE it == [s \in SUBSET (1 .. 0) |-> base]
  <2>1. it \in [SUBSET (1 .. 0) -> A] /\ FoldsTo(it, table, base, seq, 0)
    BY DEF FoldsTo
  <2> HIDE DEF it
  <2>2. CanFold(A, table, base, seq, 0)
    BY <2>1 DEF CanFold
  <2> QED BY <2>2
<1>3. ASSUME NEW n \in Nat, n \in good PROVE n + 1 \in good
  <2> SUFFICES ASSUME n + 1 <= Len(seq) PROVE CanFold(A, table, base, seq, n + 1)
    OBVIOUS
  <2>0. n <= Len(seq)
    BY <1>1
  <2>1. PICK it \in [SUBSET (1 .. n) -> A] : FoldsTo(it, table, base, seq, n)
    BY <1>3, <2>0 DEF CanFold
  <2> DEFINE more == [s \in SUBSET (1 .. n + 1) |->
                        IF n + 1 \in s THEN table[<<it[s \ {n + 1}], seq[n + 1]>>] ELSE it[s]]
  <2>2. seq[n + 1] \in E
    BY <1>1
  <2>3. \A s \in SUBSET (1 .. n + 1) : (n + 1 \in s => s \ {n + 1} \in SUBSET (1 .. n))
                                       /\ (n + 1 \notin s => s \in SUBSET (1 .. n))
    OBVIOUS
  <2>4. more \in [SUBSET (1 .. n + 1) -> A]
    <3> SUFFICES ASSUME NEW s \in SUBSET (1 .. n + 1)
                 PROVE  (IF n + 1 \in s THEN table[<<it[s \ {n + 1}], seq[n + 1]>>] ELSE it[s]) \in A
      OBVIOUS
    <3>1. CASE n + 1 \in s
      <4>1. it[s \ {n + 1}] \in A
        BY <2>3, <3>1
      <4>2. <<it[s \ {n + 1}], seq[n + 1]>> \in A \X E
        BY <2>2, <4>1
      <4> QED BY <3>1, <4>2
    <3>2. CASE n + 1 \notin s
      BY <2>3, <3>2
    <3> QED BY <3>1, <3>2
  <2>5. \A s \in SUBSET (1 .. n) : more[s] = it[s]
    OBVIOUS
  <2>6. ASSUME NEW s \in SUBSET (1 .. n + 1)
        PROVE  more[s] = IF s = {} THEN base ELSE table[<<more[s \ {Max(s)}], seq[Max(s)]>>]
    <3>1. CASE n + 1 \in s
      <4>1. Max(s) \in s /\ \A i \in s : i <= Max(s)
        <5>1. n + 1 \in Nat /\ s # {}
          BY <3>1
        <5> QED BY <5>1, LargestPlace
      <4>2. Max(s) = n + 1
        <5>1. n + 1 <= Max(s) /\ Max(s) \in 1 .. n + 1
          BY <3>1, <4>1
        <5> QED BY <5>1
      <4>3. more[s \ {n + 1}] = it[s \ {n + 1}]
        BY <2>3, <2>5, <3>1
      <4>4. more[s] = table[<<it[s \ {n + 1}], seq[n + 1]>>]
        BY <3>1
      <4> HIDE DEF more
      <4> QED BY <3>1, <4>2, <4>3, <4>4
    <3>2. CASE n + 1 \notin s
      <4>1. s \in SUBSET (1 .. n) /\ s \ {Max(s)} \in SUBSET (1 .. n)
        BY <2>3, <3>2
      <4>2. more[s] = it[s] /\ more[s \ {Max(s)}] = it[s \ {Max(s)}]
        BY <2>5, <4>1
      <4> HIDE DEF more
      <4> QED BY <2>1, <4>1, <4>2 DEF FoldsTo
    <3> QED BY <3>1, <3>2
  <2> HIDE DEF more
  <2>7. FoldsTo(more, table, base, seq, n + 1)
    BY <2>6 DEF FoldsTo
  <2> QED BY <2>4, <2>7 DEF CanFold
<1> HIDE DEF good
<1>4. Len(seq) \in good
  BY <1>1, <1>2, <1>3, AllNumbers
<1>5. PICK it \in [SUBSET (1 .. Len(seq)) -> A] : FoldsTo(it, table, base, seq, Len(seq))
  <2>1. CanFold(A, table, base, seq, Len(seq))
    BY <1>1, <1>4 DEF good
  <2> QED BY <2>1 DEF CanFold
<1>6. it = [s \in SUBSET DOMAIN seq |-> it[s]]
  BY <1>1, <1>5
<1>7. IsFold(it, table, base, seq)
  BY <1>1, <1>5, <1>6 DEF IsFold, FoldsTo
<1> QED BY <1>1, <1>5, <1>7

\* It goes through a sequence from the left.
LEMMA PlacesInTurn ==
  ASSUME NEW seq, NEW E, seq \in Seq(E)
  PROVE  /\ 1 .. 0 = {} /\ DOMAIN seq = 1 .. Len(seq) /\ Len(seq) \in Nat
         /\ \A n \in Nat : n < Len(seq) =>
              /\ 1 .. n + 1 \in SUBSET DOMAIN seq /\ 1 .. n + 1 # {}
              /\ Max(1 .. n + 1) = n + 1 /\ (1 .. n + 1) \ {n + 1} = 1 .. n
<1>1. DOMAIN seq = 1 .. Len(seq) /\ Len(seq) \in Nat
  OBVIOUS
<1>2. ASSUME NEW n \in Nat, n < Len(seq)
      PROVE  /\ 1 .. n + 1 \in SUBSET DOMAIN seq /\ 1 .. n + 1 # {}
             /\ Max(1 .. n + 1) = n + 1 /\ (1 .. n + 1) \ {n + 1} = 1 .. n
  <2>1. n + 1 \in 1 .. n + 1 /\ n + 1 \in Nat /\ \A i \in 1 .. n + 1 : i \in 1 .. Len(seq)
    BY <1>1, <1>2
  <2>2. /\ 1 .. n + 1 \in SUBSET DOMAIN seq /\ 1 .. n + 1 # {}
        /\ (1 .. n + 1) \ {n + 1} = 1 .. n
    <3>1. \A i \in (1 .. n + 1) \ {n + 1} : i \in 1 .. n
      OBVIOUS
    <3>2. \A i \in 1 .. n : i \in 1 .. n + 1 /\ i # n + 1
      OBVIOUS
    <3>3. 1 .. n + 1 \in SUBSET DOMAIN seq /\ 1 .. n + 1 # {}
      BY <1>1, <2>1
    <3> QED BY <3>1, <3>2, <3>3
  <2>3. Max(1 .. n + 1) \in 1 .. n + 1 /\ \A i \in 1 .. n + 1 : i <= Max(1 .. n + 1)
    BY <2>1, <2>2, LargestPlace
  <2>4. Max(1 .. n + 1) = n + 1
    BY <2>3
  <2> QED BY <2>2, <2>4
<1> QED BY <1>1, <1>2

LEMMA SequencesOverRange ==
  ASSUME NEW S, NEW s \in Seq(S)
  PROVE  s \in Seq(Range(s))
<1>1. Len(s) \in Nat /\ DOMAIN s = 1 .. Len(s) /\ s = [i \in DOMAIN s |-> s[i]]
  BY LenProperties, SeqDef
<1>2. s \in [1 .. Len(s) -> Range(s)]
  BY <1>1 DEF Range
<1> QED BY <1>1, <1>2, SeqDef

LEMMA SequencesOverMore ==
  ASSUME NEW S, NEW s \in Seq(S), NEW A, S \subseteq A
  PROVE  s \in Seq(A)
BY SeqDef

\* Where a path begins with two others, the second comes behind the first.
LEMMA PrefixPlace ==
  ASSUME NEW A, NEW r \in Seq(A), NEW u \in Seq(A), NEW s \in Seq(A), Len(u) > 0, IsPrefix(r \o u, s)
  PROVE  /\ Len(r) + 1 \in DOMAIN s /\ s[Len(r) + 1] = u[1]
         /\ SubSeq(s, 1, Len(r)) = r
<1>1. /\ Len(r) \in Nat /\ Len(u) \in Nat /\ Len(s) \in Nat
      /\ DOMAIN s = 1 .. Len(s) /\ DOMAIN r = 1 .. Len(r)
  BY LenProperties
<1>2. /\ r \o u \in Seq(A) /\ Len(r \o u) = Len(r) + Len(u)
      /\ \A i \in 1 .. Len(r) + Len(u) : (r \o u)[i] = IF i <= Len(r) THEN r[i] ELSE u[i - Len(r)]
  BY ConcatProperties
<1>3. Len(r) + Len(u) <= Len(s) /\ SubSeq(r \o u, 1, Len(r \o u)) = SubSeq(s, 1, Len(r \o u))
  BY <1>2 DEF IsPrefix
<1>4. r \o u = SubSeq(s, 1, Len(r) + Len(u))
  BY <1>2, <1>3, SubSeqFull
<1>5. \A i \in 1 .. Len(s) : s[i] \in A
  BY <1>1, ElementOfSeq
<1>6. \A i \in 1 .. Len(r) + Len(u) : (r \o u)[i] = s[i]
  <2>1. \A i \in 1 .. Len(r) + Len(u) : s[i] \in A
    BY <1>1, <1>3, <1>5
  <2>2. \A i \in 1 .. (Len(r) + Len(u)) - 1 + 1 : SubSeq(s, 1, Len(r) + Len(u))[i] = s[1 + i - 1]
    BY <1>1, <2>1, SubSeqProperties
  <2>3. \A i \in 1 .. Len(r) + Len(u) : i \in 1 .. (Len(r) + Len(u)) - 1 + 1 /\ 1 + i - 1 = i
    BY <1>1
  <2> QED BY <1>4, <2>2, <2>3
<1>7. Len(r) + 1 \in 1 .. Len(s) /\ s[Len(r) + 1] = u[1]
  <2>1. Len(r) + 1 \in 1 .. Len(r) + Len(u) /\ ~ (Len(r) + 1 <= Len(r)) /\ Len(r) + 1 - Len(r) = 1
    BY <1>1
  <2> QED BY <1>1, <1>2, <1>3, <1>6, <2>1
<1>8. SubSeq(s, 1, Len(r)) = r
  <2>1. \A i \in 1 .. Len(r) : s[i] \in A /\ s[i] = r[i]
    BY <1>1, <1>2, <1>3, <1>5, <1>6
  <2>2. /\ SubSeq(s, 1, Len(r)) \in Seq(A) /\ Len(SubSeq(s, 1, Len(r))) = Len(r)
        /\ \A i \in 1 .. Len(r) : SubSeq(s, 1, Len(r))[i] = s[i]
    <3>1. /\ SubSeq(s, 1, Len(r)) \in Seq(A)
          /\ Len(SubSeq(s, 1, Len(r))) = IF 1 <= Len(r) THEN Len(r) - 1 + 1 ELSE 0
          /\ \A i \in 1 .. Len(r) - 1 + 1 : SubSeq(s, 1, Len(r))[i] = s[1 + i - 1]
      BY <1>1, <2>1, SubSeqProperties
    <3>2. \A i \in 1 .. Len(r) : i \in 1 .. Len(r) - 1 + 1 /\ 1 + i - 1 = i
      BY <1>1
    <3> QED BY <1>1, <3>1, <3>2
  <2> QED BY <1>1, <2>1, <2>2, SeqEqual
<1> QED BY <1>1, <1>7, <1>8

================================================================================
