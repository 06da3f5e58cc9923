----------------------------- MODULE Findings_proofs -----------------------------
(***************************************************************************)
(* The report of an index run leaves out no finding and no suppression,    *)
(* the clumps in it are whole, and the flows it reports are those in the   *)
(* code, for any tree, rules and edits; and an audit reports the packages  *)
(* that its advisories affect.                                             *)
(***************************************************************************)
EXTENDS Findings, TaintFlow, Audit, Closure_proofs

--------------------------------------------------------------------------------
(* The chains of imports. *)

LEMMA ClosedUnderLinks ==
  ASSUME NEW S, NEW T
  PROVE  Closed(T, Links(S)) <=> \A s \in S : s.file \in T => s.to \in T
<1>1. \A s \in S : <<s.file, s.to>> \in Links(S)
  BY DEF Links
<1>2. \A e \in Links(S) : \E s \in S : e[1] = s.file /\ e[2] = s.to
  BY DEF Links
<1>3. ASSUME Closed(T, Links(S)), NEW s \in S, s.file \in T PROVE s.to \in T
  <2>1. <<s.file, s.to>>[2] \in T
    BY <1>1, <1>3 DEF Closed
  <2> QED BY <2>1
<1>4. ASSUME \A s \in S : s.file \in T => s.to \in T PROVE Closed(T, Links(S))
  BY <1>2, <1>4 DEF Closed
<1> QED BY <1>3, <1>4

\* The chains of imports lead where the search goes.
LEMMA ReachableIsLive ==
  ASSUME NEW t, IsTree(t)
  PROVE  bfs_reachable(t) = Live(t)
<1> DEFINE links == Links(Internal(t))
<1>1. links = {<<e.source, e.target>> : e \in ImportEdges(t)}
  <2> DEFINE edge(s) == [source |-> s.file, target |-> s.to,
                          names |-> UNION {NamesOf(t, u) : u \in {v \in Internal(t) : v.file = s.file /\ v.to = s.to}}]
  <2>1. ImportEdges(t) = {edge(s) : s \in Internal(t)}
    BY DEF ImportEdges
  <2>2. \A s \in Internal(t) : edge(s).source = s.file /\ edge(s).target = s.to
    OBVIOUS
  <2> HIDE DEF edge
  <2>3. \A l : l \in links <=> \E s \in Internal(t) : l = <<s.file, s.to>>
    BY DEF Links
  <2>4. \A l : l \in {<<e.source, e.target>> : e \in ImportEdges(t)} <=>
                 \E s \in Internal(t) : l = <<edge(s).source, edge(s).target>>
    BY <2>1
  <2> HIDE DEF links
  <2> QED BY <2>2, <2>3, <2>4
<1>2. Closed(t.files, links) /\ \A e \in links : e = <<e[1], e[2]>>
  BY DEF Closed, Links, Internal
<1>3. Sources(links) \subseteq t.files
  BY DEF Sources, Links, Internal, Imports, IsTree
<1>4. IsFiniteSet(Sources(links)) /\ IsFiniteSet(t.files)
  BY <1>3, FS_Subset DEF IsTree
<1>5. entry_points(t) \subseteq t.files
  BY DEF entry_points
<1> HIDE DEF links
<1>6. Closure(entry_points(t), links) = ChainEnds(Chains(t.files, links), entry_points(t))
  BY <1>2, <1>4, <1>5, ClosureIsEnds
<1> QED BY <1>1, <1>6 DEF bfs_reachable, Live, links

LEMMA LiveIsLeast ==
  ASSUME NEW t, IsTree(t)
  PROVE  /\ entry_points(t) \subseteq Live(t) /\ Live(t) \subseteq t.files
         /\ \A s \in Internal(t) : s.file \in Live(t) => s.to \in Live(t)
         /\ \A T : entry_points(t) \subseteq T /\ (\A s \in Internal(t) : s.file \in T => s.to \in T)
                     => Live(t) \subseteq T
<1> DEFINE links == Links(Internal(t))
           from == entry_points(t)
           nodes == t.files
<1>1. Closed(nodes, links) /\ \A e \in links : e = <<e[1], e[2]>>
  BY DEF Closed, Links, Internal
<1>2. IsFiniteSet(nodes) /\ from \subseteq nodes
  BY DEF IsTree, entry_points
<1>3. \A T : Closed(T, links) <=> \A s \in Internal(t) : s.file \in T => s.to \in T
  BY ClosedUnderLinks
<1>4. Live(t) = ChainEnds(Chains(nodes, links), from)
  BY DEF Live
<1> HIDE DEF links, from, nodes
<1>5. /\ from \subseteq Live(t) /\ Closed(Live(t), links)
      /\ \A T : from \subseteq T /\ Closed(T, links) => Live(t) \subseteq T
  BY <1>1, <1>2, <1>4, EndsAreLeast
<1>6. Live(t) \subseteq nodes
  BY <1>1, <1>2, <1>5
<1>7. /\ from \subseteq Live(t) /\ Live(t) \subseteq nodes
      /\ \A s \in Internal(t) : s.file \in Live(t) => s.to \in Live(t)
      /\ \A T : from \subseteq T /\ (\A s \in Internal(t) : s.file \in T => s.to \in T)
                  => Live(t) \subseteq T
  BY <1>3, <1>5, <1>6
<1> QED BY <1>7 DEF from, nodes

LEMMA ConsumedIsLeast ==
  ASSUME NEW t, IsTree(t), NEW name
  PROVE  /\ Roots(t, name) \subseteq Consumed(t, name)
         /\ \A s \in Passing(t, name) : s.file \in Consumed(t, name) => s.to \in Consumed(t, name)
         /\ \A T : /\ Roots(t, name) \subseteq T
                   /\ \A s \in Passing(t, name) : s.file \in T => s.to \in T
                   => Consumed(t, name) \subseteq T
<1> DEFINE links == Links(Passing(t, name))
           from == Roots(t, name)
           nodes == t.files
           consumed == Consumed(t, name)
<1>1. Closed(nodes, links) /\ \A e \in links : e = <<e[1], e[2]>>
  BY DEF Closed, Links, Passing, Internal
<1>2. IsFiniteSet(nodes) /\ from \subseteq nodes
  BY DEF IsTree, entry_points, Roots, Internal
<1>3. \A T : Closed(T, links) <=> \A s \in Passing(t, name) : s.file \in T => s.to \in T
  BY ClosedUnderLinks
<1>4. consumed = ChainEnds(Chains(nodes, links), from)
  BY DEF Consumed
<1> HIDE DEF links, from, nodes, consumed
<1>5. /\ from \subseteq consumed /\ Closed(consumed, links)
      /\ \A T : from \subseteq T /\ Closed(T, links) => consumed \subseteq T
  BY <1>1, <1>2, <1>4, EndsAreLeast
<1>6. /\ from \subseteq consumed
      /\ \A s \in Passing(t, name) : s.file \in consumed => s.to \in consumed
      /\ \A T : from \subseteq T /\ (\A s \in Passing(t, name) : s.file \in T => s.to \in T)
                  => consumed \subseteq T
  BY <1>3, <1>5
<1> QED BY <1>6 DEF from, consumed

--------------------------------------------------------------------------------
(* An export is used in the code just if a chain of re-exports takes it. *)

ReexportsName(t, f, n) ==
  \E s \in Of(t, "forward") : s.file = f /\ n \in (IF s.names = {} THEN {AllNames} ELSE s.names)

LEMMA ExportedNames ==
  ASSUME NEW t, NEW f, NEW n
  PROVE  /\ n \in collect_reexport_names(t, f) <=> ReexportsName(t, f, n)
         /\ n \in Exported(t, f) <=> \/ \E s \in Of(t, "export") : s.file = f /\ s.name = n
                                     \/ ReexportsName(t, f, n)
<1> DEFINE own == {[file |-> s.file, name |-> s.name, line |-> s.line, type |-> s.mark, re_export |-> FALSE]
                   : s \in Of(t, "export")}
           passed == UNION {{[file |-> s.file, name |-> m, line |-> s.line, type |-> FALSE, re_export |-> TRUE]
                     : m \in IF s.names = {} THEN {AllNames} ELSE s.names} : s \in Of(t, "forward")}
<1>1. ExportFacts(t) = own \cup passed
  BY DEF ExportFacts
<1>2. \A x \in own : x.re_export = FALSE
  OBVIOUS
<1>3. \A x \in passed : x.re_export = TRUE
  OBVIOUS
<1>4. (\E x \in own : x.file = f /\ x.name = n) <=> \E s \in Of(t, "export") : s.file = f /\ s.name = n
  <2>1. ASSUME NEW x \in own, x.file = f, x.name = n
        PROVE  \E s \in Of(t, "export") : s.file = f /\ s.name = n
    BY <2>1
  <2>2. ASSUME NEW s \in Of(t, "export"), s.file = f, s.name = n
        PROVE  \E x \in own : x.file = f /\ x.name = n
    <3> DEFINE x == [file |-> s.file, name |-> s.name, line |-> s.line, type |-> s.mark, re_export |-> FALSE]
    <3>1. x \in own
      OBVIOUS
    <3>2. x.file = f /\ x.name = n
      BY <2>2
    <3> QED BY <3>1, <3>2
  <2> QED BY <2>1, <2>2
<1>5. (\E x \in passed : x.file = f /\ x.name = n) <=> ReexportsName(t, f, n)
  <2>1. ASSUME NEW x \in passed, x.file = f, x.name = n PROVE ReexportsName(t, f, n)
    BY <2>1 DEF ReexportsName
  <2>2. ASSUME ReexportsName(t, f, n) PROVE \E x \in passed : x.file = f /\ x.name = n
    <3>1. PICK s \in Of(t, "forward") :
            s.file = f /\ n \in (IF s.names = {} THEN {AllNames} ELSE s.names)
      BY <2>2 DEF ReexportsName
    <3> DEFINE x == [file |-> s.file, name |-> n, line |-> s.line, type |-> FALSE, re_export |-> TRUE]
    <3> DEFINE of(u) == {[file |-> u.file, name |-> m, line |-> u.line, type |-> FALSE, re_export |-> TRUE]
                         : m \in IF u.names = {} THEN {AllNames} ELSE u.names}
    <3>2. x \in of(s)
      BY <3>1
    <3>3. passed = UNION {of(u) : u \in Of(t, "forward")}
      OBVIOUS
    <3> HIDE DEF of, passed, x
    <3>4. x \in passed
      BY <3>1, <3>2, <3>3
    <3>5. x.file = f /\ x.name = n
      BY <3>1 DEF x
    <3> QED BY <3>4, <3>5
  <2> QED BY <2>1, <2>2
<1> HIDE DEF own, passed
<1>6. n \in Exported(t, f) <=> \E x \in own \cup passed : x.file = f /\ x.name = n
  BY <1>1 DEF Exported
<1>7. n \in collect_reexport_names(t, f) <=> \E x \in passed : x.file = f /\ x.name = n
  BY <1>1, <1>2, <1>3 DEF collect_reexport_names
<1> QED BY <1>4, <1>5, <1>6, <1>7

\* What one edge stands for.
LEMMA StatementHasEdge ==
  ASSUME NEW t, Unmixed(t), NEW s \in Internal(t)
  PROVE  \E e \in ImportEdges(t) :
           /\ e.source = s.file /\ e.target = s.to
           /\ NamesOf(t, s) \subseteq e.names /\ (NamesOf(t, s) = {} => e.names = {})
<1> DEFINE names == UNION {NamesOf(t, u) : u \in {v \in Internal(t) : v.file = s.file /\ v.to = s.to}}
           e == [source |-> s.file, target |-> s.to, names |-> names]
<1>1. e \in ImportEdges(t)
  BY DEF ImportEdges
<1>2. NamesOf(t, s) \subseteq names
  OBVIOUS
<1>3. ASSUME NamesOf(t, s) = {} PROVE names = {}
  <2>1. \A u \in Internal(t) : u.file = s.file /\ u.to = s.to => NamesOf(t, u) = {}
    BY <1>3 DEF NamesOf, Unmixed, Internal
  <2> QED BY <2>1
<1> HIDE DEF names
<1>4. e.source = s.file /\ e.target = s.to /\ e.names = names
  OBVIOUS
<1> HIDE DEF e
<1> QED BY <1>1, <1>2, <1>3, <1>4

LEMMA EdgeHasStatement ==
  ASSUME NEW t, NEW e \in ImportEdges(t)
  PROVE  /\ \A n \in e.names : \E s \in Internal(t) :
              s.file = e.source /\ s.to = e.target /\ n \in NamesOf(t, s)
         /\ e.names = {} => \E s \in Internal(t) :
              s.file = e.source /\ s.to = e.target /\ NamesOf(t, s) = {}
<1> DEFINE names(f, g) == UNION {NamesOf(t, u) : u \in {v \in Internal(t) : v.file = f /\ v.to = g}}
<1>1. PICK s \in Internal(t) : e = [source |-> s.file, target |-> s.to, names |-> names(s.file, s.to)]
  BY DEF ImportEdges
<1>2. e.source = s.file /\ e.target = s.to /\ e.names = names(e.source, e.target)
  BY <1>1
<1>3. ASSUME NEW n \in e.names
      PROVE  \E u \in Internal(t) : u.file = e.source /\ u.to = e.target /\ n \in NamesOf(t, u)
  BY <1>2
<1>4. ASSUME e.names = {}
      PROVE  \E u \in Internal(t) : u.file = e.source /\ u.to = e.target /\ NamesOf(t, u) = {}
  <2>1. NamesOf(t, s) \subseteq e.names
    BY <1>2
  <2> QED BY <1>2, <1>4, <2>1
<1> QED BY <1>3, <1>4

LEMMA SeedsOfUsage ==
  ASSUME NEW t
  PROVE  LET live == {e \in ImportEdges(t) : e.source \in bfs_reachable(t)}
             seeds == seed_from_imports(t, bfs_reachable(t))
             passes(e, n) == n \in e.names \cap Exported(t, e.target)
                               /\ n \in collect_reexport_names(t, e.source)
             takes(e, n) == n \in Exported(t, e.target)
                              /\ (e.names = {} \/ (n \in e.names /\ ~ passes(e, n)))
         IN /\ \A p : p \in seeds.used <=> \E e \in live : \E n : takes(e, n) /\ p = <<e.target, n>>
            /\ \A p : p \in seeds.forwards <=>
                        \E e \in live : \E n : passes(e, n) /\ p = <<<<e.source, n>>, <<e.target, n>>>>
<1> DEFINE live == {e \in ImportEdges(t) : e.source \in bfs_reachable(t)}
           seeds == seed_from_imports(t, bfs_reachable(t))
           pulled(e) == IF is_namespace(e) THEN Exported(t, e.target)
                        ELSE e.names \cap Exported(t, e.target)
           passed(e) == IF is_namespace(e) THEN {}
                        ELSE pulled(e) \cap collect_reexport_names(t, e.source)
           passes(e, n) == n \in e.names \cap Exported(t, e.target)
                             /\ n \in collect_reexport_names(t, e.source)
           takes(e, n) == n \in Exported(t, e.target)
                            /\ (e.names = {} \/ (n \in e.names /\ ~ passes(e, n)))
<1>1. /\ seeds.used = UNION {{e.target} \X (pulled(e) \ passed(e)) : e \in live}
      /\ seeds.forwards = UNION {{<<<<e.source, n>>, <<e.target, n>>>> : n \in passed(e)} : e \in live}
  BY DEF seed_from_imports
<1>2. ASSUME NEW e, NEW n
      PROVE  (n \in passed(e) <=> passes(e, n)) /\ (n \in pulled(e) \ passed(e) <=> takes(e, n))
  BY DEF is_namespace
<1> HIDE DEF seeds, pulled, passed, passes, takes, live
<1>3. \A p : p \in seeds.used <=> \E e \in live : \E n : takes(e, n) /\ p = <<e.target, n>>
  <2>1. \A p : p \in seeds.used <=> \E e \in live : \E n \in pulled(e) \ passed(e) : p = <<e.target, n>>
    BY <1>1
  <2> QED BY <1>2, <2>1
<1>4. \A p : p \in seeds.forwards <=>
               \E e \in live : \E n : passes(e, n) /\ p = <<<<e.source, n>>, <<e.target, n>>>>
  <2>1. \A p : p \in seeds.forwards <=>
          \E e \in live : \E n \in passed(e) : p = <<<<e.source, n>>, <<e.target, n>>>>
    BY <1>1
  <2> QED BY <1>2, <2>1
<1> QED BY <1>3, <1>4 DEF live, seeds, passes, takes

LEMMA NamesAreFinite ==
  ASSUME NEW t, IsTree(t)
  PROVE  IsFiniteSet(UNION {s.names : s \in t.statements})
<1> DEFINE sets == {s.names : s \in t.statements}
           f == [s \in t.statements |-> s.names]
<1>1. f \in Surjection(t.statements, sets)
  BY DEF Surjection
<1>2. IsFiniteSet(t.statements) /\ \A T \in sets : IsFiniteSet(T)
  BY DEF IsTree, Parsed
<1> HIDE DEF f
<1>3. IsFiniteSet(sets)
  BY <1>1, <1>2, FS_Surjection
<1> HIDE DEF sets
<1>4. IsFiniteSet(UNION sets)
  BY <1>2, <1>3, FS_UNION
<1> QED BY <1>4 DEF sets

\* The seeds of usage, and how it is passed on.
Used0(t) == seed_public_surface(t) \cup seed_from_imports(t, bfs_reachable(t)).used
Forwards(t) == seed_from_imports(t, bfs_reachable(t)).forwards
Passes(t, e, n) == n \in e.names \cap Exported(t, e.target) /\ n \in collect_reexport_names(t, e.source)
LiveEdges(t) == {e \in ImportEdges(t) : e.source \in Live(t)}

LEMMA SeedsAndForwards ==
  ASSUME NEW t, IsTree(t)
  PROVE  /\ \A p : p \in Used0(t) <=>
              \/ \E f \in entry_points(t) : \E n \in Exported(t, f) : p = <<f, n>>
              \/ \E e \in LiveEdges(t) : \E n \in Exported(t, e.target) :
                   (e.names = {} \/ (n \in e.names /\ ~ Passes(t, e, n))) /\ p = <<e.target, n>>
         /\ \A p : p \in Forwards(t) <=>
              \E e \in LiveEdges(t) : \E n : Passes(t, e, n) /\ p = <<<<e.source, n>>, <<e.target, n>>>>
<1>1. \A p : p \in seed_public_surface(t) <=>
              \E f \in entry_points(t) : \E n \in Exported(t, f) : p = <<f, n>>
  BY DEF seed_public_surface, Exported
<1>2. bfs_reachable(t) = Live(t)
  BY ReachableIsLive
<1>3. /\ \A p : p \in seed_from_imports(t, bfs_reachable(t)).used <=>
              \E e \in LiveEdges(t) : \E n \in Exported(t, e.target) :
                   (e.names = {} \/ (n \in e.names /\ ~ Passes(t, e, n))) /\ p = <<e.target, n>>
      /\ \A p : p \in Forwards(t) <=>
              \E e \in LiveEdges(t) : \E n : Passes(t, e, n) /\ p = <<<<e.source, n>>, <<e.target, n>>>>
  BY <1>2, SeedsOfUsage DEF LiveEdges, Passes, Forwards
<1> QED BY <1>1, <1>3 DEF Used0

LEMMA UsedIsLeast ==
  ASSUME NEW t, IsTree(t), Unmixed(t)
  PROVE  /\ Used0(t) \subseteq used_exports(t) /\ Closed(used_exports(t), Forwards(t))
         /\ \A T : Used0(t) \subseteq T /\ Closed(T, Forwards(t)) => used_exports(t) \subseteq T
<1> DEFINE names == UNION {s.names : s \in t.statements}
<1>1. used_exports(t) = Closure(Used0(t), Forwards(t))
  BY DEF used_exports, propagate_forwards, Used0, Forwards
<1>2. IsFiniteSet(t.files \X names)
  <2>1. IsFiniteSet(t.files) /\ IsFiniteSet(names)
    BY NamesAreFinite DEF IsTree
  <2> HIDE DEF names
  <2> QED BY <2>1, FS_Product
<1>3. Sources(Forwards(t)) \subseteq t.files \X names
  <2> SUFFICES ASSUME NEW p \in Forwards(t) PROVE p[1] \in t.files \X names
    BY DEF Sources
  <2>1. PICK e \in LiveEdges(t) : \E n : Passes(t, e, n) /\ p = <<<<e.source, n>>, <<e.target, n>>>>
    BY SeedsAndForwards
  <2>0. PICK n : Passes(t, e, n) /\ p = <<<<e.source, n>>, <<e.target, n>>>>
    BY <2>1
  <2>2. PICK s \in Internal(t) : s.file = e.source /\ n \in NamesOf(t, s)
    BY <2>0, EdgeHasStatement DEF LiveEdges, Passes
  <2>3. s \in t.statements /\ n \in s.names
    BY <2>2 DEF Internal, Imports, NamesOf
  <2>4. e.source \in t.files /\ n \in names
    BY <2>2, <2>3 DEF IsTree
  <2> QED BY <2>0, <2>4
<1> HIDE DEF names
<1>4. IsFiniteSet(Sources(Forwards(t)))
  BY <1>2, <1>3, FS_Subset
<1> QED BY <1>1, <1>4, ClosureIsLeast

\* What is used of a file is what chains of re-exports take from it.
LEMMA UsedAreConsumed ==
  ASSUME NEW t, IsTree(t), Unmixed(t), NEW f, NEW n, <<f, n>> \in used_exports(t)
  PROVE  f \in Consumed(t, n)
<1> DEFINE T == {p \in used_exports(t) : p[1] \in Consumed(t, p[2])}
<1>1. Used0(t) \subseteq T
  <2> SUFFICES ASSUME NEW p \in Used0(t) PROVE p[1] \in Roots(t, p[2])
    BY UsedIsLeast, ConsumedIsLeast
  <2>1. CASE \E g \in entry_points(t) : \E m \in Exported(t, g) : p = <<g, m>>
    BY <2>1 DEF Roots
  <2>2. CASE \E e \in LiveEdges(t) : \E m \in Exported(t, e.target) :
               (e.names = {} \/ (m \in e.names /\ ~ Passes(t, e, m))) /\ p = <<e.target, m>>
    <3>0. PICK e \in LiveEdges(t) : \E m \in Exported(t, e.target) :
               (e.names = {} \/ (m \in e.names /\ ~ Passes(t, e, m))) /\ p = <<e.target, m>>
      BY <2>2
    <3>1. PICK m \in Exported(t, e.target) :
               (e.names = {} \/ (m \in e.names /\ ~ Passes(t, e, m))) /\ p = <<e.target, m>>
      BY <3>0
    <3>2. e \in ImportEdges(t) /\ e.source \in Live(t)
      BY DEF LiveEdges
    <3>3. CASE e.names = {}
      <4>1. PICK s \in Internal(t) : s.file = e.source /\ s.to = e.target /\ NamesOf(t, s) = {}
        BY <3>2, <3>3, EdgeHasStatement
      <4> QED BY <3>1, <3>2, <4>1 DEF Roots
    <3>4. CASE m \in e.names /\ ~ Passes(t, e, m)
      <4>1. PICK s \in Internal(t) : s.file = e.source /\ s.to = e.target /\ m \in NamesOf(t, s)
        BY <3>2, <3>4, EdgeHasStatement
      <4>2. s.form # "forward"
        <5> SUFFICES ASSUME s.form = "forward" PROVE FALSE
          OBVIOUS
        <5>1. s \in Of(t, "forward") /\ m \in s.names
          BY <4>1 DEF Of, Internal, Imports, NamesOf
        <5>2. m \in collect_reexport_names(t, e.source)
          BY <4>1, <5>1, ExportedNames DEF ReexportsName
        <5> QED BY <3>4, <5>2 DEF Passes
      <4>3. s.form = "import"
        BY <4>2 DEF Internal, Imports
      <4> QED BY <3>1, <3>2, <4>1, <4>3 DEF Roots
    <3> QED BY <3>1, <3>3, <3>4
  <2> QED BY <2>1, <2>2, SeedsAndForwards
<1>2. Closed(T, Forwards(t))
  <2> SUFFICES ASSUME NEW p \in Forwards(t), p[1] \in T PROVE p[2] \in T
    BY DEF Closed
  <2>1. PICK e \in LiveEdges(t) : \E m : Passes(t, e, m) /\ p = <<<<e.source, m>>, <<e.target, m>>>>
    BY SeedsAndForwards
  <2>0. PICK m : Passes(t, e, m) /\ p = <<<<e.source, m>>, <<e.target, m>>>>
    BY <2>1
  <2>2. p[2] \in used_exports(t)
    BY UsedIsLeast DEF Closed
  <2>3. e \in ImportEdges(t) /\ e.source \in Live(t) /\ e.source \in Consumed(t, m)
    BY <2>0 DEF LiveEdges
  <2>4. PICK s \in Internal(t) : s.file = e.source /\ s.to = e.target /\ m \in NamesOf(t, s)
    BY <2>0, <2>3, EdgeHasStatement DEF Passes
  <2>5. s \in Imports(t) /\ m \in s.names
    BY <2>4 DEF Internal, NamesOf
  <2>6. PICK u \in Of(t, "forward") :
          u.file = s.file /\ m \in (IF u.names = {} THEN {AllNames} ELSE u.names)
    BY <2>0, <2>4, ExportedNames DEF Passes, ReexportsName
  <2>7. m # AllNames
    BY <2>5 DEF Imports, IsTree, Parsed
  <2>8. u \in Imports(t) /\ m \in u.names /\ u.form = "forward"
    BY <2>6, <2>7 DEF Of, Imports
  <2>9. s.form = "forward"
    BY <2>5, <2>6, <2>8 DEF Unmixed, Imports
  <2>10. s \in Passing(t, m)
    BY <2>3, <2>4, <2>9 DEF Passing
  <2>11. e.target \in Consumed(t, m)
    BY <2>3, <2>4, <2>10, ConsumedIsLeast
  <2> QED BY <2>0, <2>2, <2>11
<1>3. used_exports(t) \subseteq T
  BY <1>1, <1>2, UsedIsLeast
<1> QED BY <1>3

LEMMA ConsumedAreUsed ==
  ASSUME NEW t, IsTree(t), Unmixed(t), NEW n, NEW f \in Consumed(t, n), n \in Exported(t, f)
  PROVE  <<f, n>> \in used_exports(t)
<1> DEFINE T == {g \in t.files : n \in Exported(t, g) => <<g, n>> \in used_exports(t)}
<1>1. Roots(t, n) \subseteq T
  <2> SUFFICES ASSUME NEW g \in Roots(t, n), n \in Exported(t, g) PROVE <<g, n>> \in Used0(t)
    BY UsedIsLeast DEF Roots, entry_points, Internal
  <2>1. CASE g \in entry_points(t)
    BY <2>1, SeedsAndForwards
  <2>2. CASE g \notin entry_points(t)
    <3>1. PICK s \in Internal(t) :
            /\ g = s.to /\ s.file \in Live(t)
            /\ NamesOf(t, s) = {} \/ (s.form = "import" /\ n \in NamesOf(t, s))
      BY <2>2 DEF Roots
    <3>2. PICK e \in ImportEdges(t) :
            /\ e.source = s.file /\ e.target = s.to
            /\ NamesOf(t, s) \subseteq e.names /\ (NamesOf(t, s) = {} => e.names = {})
      BY StatementHasEdge
    <3>3. e \in LiveEdges(t) /\ n \in Exported(t, e.target)
      BY <3>1, <3>2 DEF LiveEdges
    <3>4. CASE NamesOf(t, s) = {}
      BY <3>1, <3>2, <3>3, <3>4, SeedsAndForwards
    <3>5. CASE s.form = "import" /\ n \in NamesOf(t, s)
      <4>1. s \in Imports(t) /\ n \in s.names
        BY <3>5 DEF Internal, NamesOf
      <4>2. ~ Passes(t, e, n)
        <5> SUFFICES ASSUME Passes(t, e, n) PROVE FALSE
          OBVIOUS
        <5>1. PICK u \in Of(t, "forward") :
                u.file = s.file /\ n \in (IF u.names = {} THEN {AllNames} ELSE u.names)
          BY <3>2, ExportedNames DEF Passes, ReexportsName
        <5>2. n # AllNames
          BY <4>1 DEF Imports, IsTree, Parsed
        <5>3. u \in Imports(t) /\ n \in u.names /\ u.form = "forward"
          BY <5>1, <5>2 DEF Of, Imports
        <5> QED BY <3>5, <4>1, <5>1, <5>3 DEF Unmixed
      <4>3. n \in e.names
        BY <3>2, <3>5
      <4> QED BY <3>1, <3>2, <3>3, <4>2, <4>3, SeedsAndForwards
    <3> QED BY <3>1, <3>4, <3>5
  <2> QED BY <2>1, <2>2
<1>2. ASSUME NEW s \in Passing(t, n), s.file \in T PROVE s.to \in T
  <2>1. s \in Internal(t) /\ s.form = "forward" /\ s.file \in Live(t) /\ n \in NamesOf(t, s)
    BY DEF Passing
  <2>2. s.to \in t.files
    BY <2>1 DEF Internal
  <2> SUFFICES ASSUME n \in Exported(t, s.to) PROVE <<s.to, n>> \in used_exports(t)
    BY <2>2
  <2>3. s \in Of(t, "forward") /\ n \in s.names
    BY <2>1 DEF Of, Internal, Imports, NamesOf
  <2>4. n \in collect_reexport_names(t, s.file) /\ n \in Exported(t, s.file)
    BY <2>3, ExportedNames DEF ReexportsName
  <2>5. <<s.file, n>> \in used_exports(t)
    BY <1>2, <2>4
  <2>6. PICK e \in ImportEdges(t) :
          e.source = s.file /\ e.target = s.to /\ NamesOf(t, s) \subseteq e.names
    BY <2>1, StatementHasEdge
  <2>7. e \in LiveEdges(t) /\ Passes(t, e, n)
    BY <2>1, <2>4, <2>6 DEF LiveEdges, Passes
  <2>8. <<<<s.file, n>>, <<s.to, n>>>> \in Forwards(t)
    BY <2>6, <2>7, SeedsAndForwards
  <2>9. <<<<s.file, n>>, <<s.to, n>>>>[2] \in used_exports(t)
    BY <2>5, <2>8, UsedIsLeast DEF Closed
  <2> QED BY <2>9
<1>3. Consumed(t, n) \subseteq T
  <2> HIDE DEF T
  <2> QED BY <1>1, <1>2, ConsumedIsLeast
<1> QED BY <1>3

--------------------------------------------------------------------------------
(* One finding for each id. *)

\* Of some findings one was found first.
LEMMA OneIsFirst ==
  ASSUME NEW same, same # {}, \A f \in same : f.order \in Nat
  PROVE  \E f \in same : \A g \in same : f.order <= g.order
<1> DEFINE orders == {f.order : f \in same}
<1>1. orders \subseteq Nat /\ orders # {}
  OBVIOUS
<1> HIDE DEF orders
<1>2. PICK x \in orders : \A y \in orders : x <= y
  BY <1>1, LeastNumber
<1>3. PICK f \in same : f.order = x
  BY DEF orders
<1>4. \A g \in same : f.order <= g.order
  BY <1>2, <1>3 DEF orders
<1> QED BY <1>4

\* The one that is kept of an id.
LEMMA KeptOfId ==
  ASSUME NEW fs, \A f \in fs : f.order \in Nat, NEW id \in Ids(fs)
  PROVE  FirstOfId(fs, id) \in fs /\ FirstOfId(fs, id).id = id
<1>1. OfId(fs, id) # {} /\ \A f \in OfId(fs, id) : f.order \in Nat
  BY DEF Ids, OfId
<1>2. \E f \in OfId(fs, id) : \A g \in OfId(fs, id) : f.order <= g.order
  BY <1>1, OneIsFirst
<1>3. FirstOfId(fs, id) \in OfId(fs, id)
  BY <1>2 DEF FirstOfId
<1> QED BY <1>3 DEF OfId

LEMMA DedupKeepsOne ==
  ASSUME NEW fs, \A f \in fs : f.order \in Nat
  PROVE  /\ dedup_by_id(fs) \subseteq fs
         /\ Ids(dedup_by_id(fs)) = Ids(fs)
         /\ Keyed(dedup_by_id(fs))
<1>1. \A id \in Ids(fs) : FirstOfId(fs, id) \in fs /\ FirstOfId(fs, id).id = id
  BY KeptOfId
<1>2. dedup_by_id(fs) \subseteq fs
  BY <1>1 DEF dedup_by_id
<1>3. Ids(dedup_by_id(fs)) = Ids(fs)
  BY <1>1 DEF dedup_by_id, Ids
<1>4. Keyed(dedup_by_id(fs))
  BY <1>1 DEF dedup_by_id, Keyed
<1> QED BY <1>2, <1>3, <1>4

\* Findings of other ids, one for each, change nothing.
LEMMA DedupOfOthers ==
  ASSUME NEW fs, NEW others, \A f \in fs \cup others : f.order \in Nat,
         Ids(fs) \cap Ids(others) = {}, Keyed(others)
  PROVE  dedup_by_id(fs \cup others) = dedup_by_id(fs) \cup others
<1> SUFFICES ASSUME NEW all, all = fs \cup others
             PROVE  dedup_by_id(all) = dedup_by_id(fs) \cup others
  OBVIOUS
<1>1. \A id \in Ids(fs) : FirstOfId(all, id) = FirstOfId(fs, id)
  <2> SUFFICES ASSUME NEW id \in Ids(fs) PROVE FirstOfId(all, id) = FirstOfId(fs, id)
    OBVIOUS
  <2>1. \A g \in others : g.id # id
    BY DEF Ids
  <2>2. OfId(all, id) = OfId(fs, id)
    BY <2>1 DEF OfId
  <2> QED BY <2>2 DEF FirstOfId
<1>2. \A f \in others : f.id \in Ids(all) /\ FirstOfId(all, f.id) = f
  <2> SUFFICES ASSUME NEW f \in others PROVE f.id \in Ids(all) /\ FirstOfId(all, f.id) = f
    OBVIOUS
  <2>1. f.id \in Ids(all)
    BY DEF Ids
  <2>2. \A g \in fs : g.id # f.id
    BY DEF Ids
  <2>3. FirstOfId(all, f.id) \in all /\ FirstOfId(all, f.id).id = f.id
    BY <2>1, KeptOfId
  <2> QED BY <2>1, <2>2, <2>3 DEF Keyed
<1>3. Ids(all) = Ids(fs) \cup Ids(others)
  BY DEF Ids
<1>4. \A id \in Ids(others) : FirstOfId(all, id) \in others
  BY <1>2 DEF Ids
<1>5. dedup_by_id(all) \subseteq dedup_by_id(fs) \cup others
  BY <1>1, <1>3, <1>4 DEF dedup_by_id
<1>6. dedup_by_id(fs) \subseteq dedup_by_id(all)
  BY <1>1, <1>3 DEF dedup_by_id
<1>7. others \subseteq dedup_by_id(all)
  BY <1>2 DEF dedup_by_id
<1> QED BY <1>5, <1>6, <1>7

--------------------------------------------------------------------------------
(* Where the rules put their findings. *)

IsFinding(f) ==
  /\ f = [id |-> f.id, severity |-> f.severity, evidence |-> f.evidence, order |-> f.order]
  /\ f.order \in Nat

SitedRules ==
  {"command-exec", "secret", "eval", "weak-hash", "cors", "complexity", "long-function",
   "long-parameter-list", "unused-export", "unused-file", "possibly-unused-file"}
DeadCodeRules == {"unused-export", "unused-file", "possibly-unused-file"}
SmellRules == {"feature-envy", "large-class", "data-clumps"}

\* A finding whose id names its line.
Sited(f) == f.id.rule \in SitedRules /\ f.evidence = {<<f.id.file, f.id.line>>}

LEMMA StatementsParsed ==
  ASSUME NEW t, IsTree(t), NEW form, NEW s \in Of(t, form)
  PROVE  s.line \in Nat /\ s.column \in Nat /\ s.form = form /\ Parsed(s)
BY DEF IsTree, Of, Parsed

LEMMA SecurityIsSited ==
  ASSUME NEW t, IsTree(t), NEW f \in security_rules(t)
  PROVE  IsFinding(f) /\ Sited(f) /\ f.id.rule \notin DeadCodeRules
<1>1. PICK s \in Of(t, "pattern") :
        f = FindingRecord(FindingId(security_slug(s.name), s.file, s.line, {}),
                          PatternSeverity(s.name), {Site(s)}, s.column)
  BY DEF security_rules
<1>2. s.column \in Nat /\ s.name \in PatternKinds
  BY StatementsParsed DEF Parsed
<1>3. security_slug(s.name) \in SitedRules \ DeadCodeRules
  BY <1>2 DEF security_slug, SitedRules, DeadCodeRules, PatternKinds
<1> QED BY <1>1, <1>2, <1>3 DEF IsFinding, Sited, FindingRecord, FindingId, Site

LEMMA FunctionsAreSited ==
  ASSUME NEW t, IsTree(t), NEW f \in complexity_findings(t)
  PROVE  IsFinding(f) /\ Sited(f) /\ f.id.rule \notin DeadCodeRules
<1>1. PICK s \in Of(t, "function") :
        f \in long_function_finding(s) \cup long_parameter_list_finding(s) \cup high_complexity_finding(s)
  BY DEF complexity_findings
<1>2. \E rule \in SitedRules \ DeadCodeRules, severity \in 1 .. 4 : f \in FunctionFinding(rule, s, severity)
  <2>1. CASE f \in long_function_finding(s)
    <3> DEFINE lines == Measures[s.name].lines
    <3>1. f \in FunctionFinding("long-function", s, IF lines >= 150 THEN Severities.medium ELSE Severities.low)
      BY <2>1 DEF long_function_finding
    <3> QED BY <3>1 DEF SitedRules, DeadCodeRules, Severities
  <2>2. CASE f \in long_parameter_list_finding(s)
    <3> DEFINE count == Measures[s.name].params
    <3>1. f \in FunctionFinding("long-parameter-list", s,
                                IF count >= 10 THEN Severities.medium ELSE Severities.low)
      BY <2>2 DEF long_parameter_list_finding
    <3> QED BY <3>1 DEF SitedRules, DeadCodeRules, Severities
  <2>3. CASE f \in high_complexity_finding(s)
    <3>1. \/ f \in FunctionFinding("complexity", s, Severities.high)
          \/ f \in FunctionFinding("complexity", s, Severities.medium)
      BY <2>3 DEF high_complexity_finding
    <3> QED BY <3>1 DEF SitedRules, DeadCodeRules, Severities
  <2> QED BY <1>1, <2>1, <2>2, <2>3
<1> QED BY <1>2 DEF FunctionFinding, IsFinding, Sited, FindingRecord, FindingId, Site

LEMMA DeadCodeIsSited ==
  ASSUME NEW t, IsTree(t), NEW f \in deadcode_findings(t)
  PROVE  IsFinding(f) /\ Sited(f) /\ f.id.rule \in DeadCodeRules
<1>1. PICK d \in deadcode_analyze(t) :
        f = FindingRecord(d.id, Severities.low, {<<d.id.file, d.line>>}, d.line)
  BY DEF deadcode_findings
<1>2. d.id.line = d.line /\ d.line \in Nat /\ d.id.rule \in SitedRules \cap DeadCodeRules
  <2>1. CASE d \in flag_unused_exports(t)
    <3>1. PICK x \in ExportFacts(t) :
            d = [id |-> FindingId("unused-export", x.file, x.line, {x.name}), line |-> x.line]
      BY <2>1 DEF flag_unused_exports
    <3>2. x.line \in Nat
      <4>1. \E s \in Of(t, "export") \cup Of(t, "forward") : x.line = s.line
        BY DEF ExportFacts
      <4> QED BY <4>1, StatementsParsed
    <3> QED BY <3>1, <3>2 DEF FindingId, SitedRules, DeadCodeRules
  <2>2. CASE d \in flag_unused_files(t)
    <3>1. PICK g \in t.files :
            d = [id |-> FindingId(IF literal_reference(t, g) THEN "possibly-unused-file" ELSE "unused-file",
                                  g, 1, {}), line |-> 1]
      BY <2>2 DEF flag_unused_files
    <3> QED BY <3>1 DEF FindingId, SitedRules, DeadCodeRules
  <2> QED BY <2>1, <2>2 DEF deadcode_analyze
<1> QED BY <1>1, <1>2 DEF IsFinding, Sited, FindingRecord

\* The evidence for a boundary follows from its modules.
LEMMA BoundariesAreGrouped ==
  ASSUME NEW t, NEW f \in boundary_rules(t)
  PROVE  /\ IsFinding(f) /\ f.id.rule = "boundary"
         /\ f.evidence = FirstSites(Sites(boundary_offending(t, [source |-> f.id.file, target |-> f.id.line])))
<1>1. PICK r \in Boundaries : f \in group_finding(boundary_id(r), r.severity, boundary_offending(t, r))
  BY DEF boundary_rules
<1>2. f = FindingRecord(boundary_id(r), r.severity, FirstSites(Sites(boundary_offending(t, r))), 0)
  BY <1>1 DEF group_finding
<1>3. f.id.rule = "boundary" /\ f.id.file = r.source /\ f.id.line = r.target
  BY <1>2 DEF FindingRecord, boundary_id, FindingId
<1>4. boundary_offending(t, r) = boundary_offending(t, [source |-> f.id.file, target |-> f.id.line])
  BY <1>3 DEF boundary_offending
<1> QED BY <1>2, <1>3, <1>4 DEF IsFinding, FindingRecord

\* The evidence for a ban follows from its pattern.
LEMMA BansAreGrouped ==
  ASSUME NEW t, NEW f \in banned_import_rules(t)
  PROVE  /\ IsFinding(f) /\ f.id.rule = "banned-import"
         /\ f.evidence = FirstSites(Sites(banned_offending(t, [matches |-> f.id.names])))
<1>1. PICK r \in BannedImports : f \in group_finding(banned_id(r), r.severity, banned_offending(t, r))
  BY DEF banned_import_rules
<1>2. f = FindingRecord(banned_id(r), r.severity, FirstSites(Sites(banned_offending(t, r))), 0)
  BY <1>1 DEF group_finding
<1>3. f.id.rule = "banned-import" /\ f.id.names = r.matches
  BY <1>2 DEF FindingRecord, banned_id, FindingId
<1>4. banned_offending(t, r) = banned_offending(t, [matches |-> f.id.names])
  BY <1>3 DEF banned_offending
<1> QED BY <1>2, <1>3, <1>4 DEF IsFinding, FindingRecord

\* Of the imports of one missing file, the first is reported.
LEMMA UnresolvedAtFirst ==
  ASSUME NEW t, IsTree(t), NEW f \in unresolved_import_rule(t), NEW g \in unresolved_import_rule(t)
  PROVE  /\ IsFinding(f) /\ f.id.rule = "unresolved-import"
         /\ f.id = g.id => f.evidence = g.evidence
<1> DEFINE dangling == {s \in Imports(t) : s.to \notin t.files \cup Packages /\ FileKind[s.file] # "config"}
           first(s) == \A u \in dangling : u.file = s.file /\ u.to = s.to => s.line <= u.line
           finding(s) == FindingRecord(FindingId("unresolved-import", s.file, 0, {s.to}),
                                       Severities.medium, {Site(s)}, 0)
<1>1. unresolved_import_rule(t) = {finding(s) : s \in {d \in dangling : first(d)}}
  BY DEF unresolved_import_rule
<1> HIDE DEF dangling
<1>2. PICK s \in dangling : first(s) /\ f = finding(s)
  BY <1>1
<1>3. PICK u \in dangling : first(u) /\ g = finding(u)
  BY <1>1
<1>4. IsFinding(f) /\ f.id.rule = "unresolved-import"
  BY <1>2 DEF IsFinding, FindingRecord, FindingId
<1>5. s.line \in Nat /\ u.line \in Nat
  BY DEF dangling, Imports, IsTree, Parsed
<1>6. ASSUME f.id = g.id PROVE f.evidence = g.evidence
  <2>1. s.file = u.file /\ s.to = u.to
    BY <1>2, <1>3, <1>6 DEF FindingRecord, FindingId
  <2>2. s.line <= u.line /\ u.line <= s.line
    BY <1>2, <1>3, <2>1
  <2>3. s.line = u.line
    BY <1>5, <2>2
  <2> QED BY <1>2, <1>3, <2>1, <2>3 DEF FindingRecord, Site
<1> QED BY <1>4, <1>6

LEMMA SmellsAreFindings ==
  ASSUME NEW t, IsTree(t), NEW f \in feature_envy(t) \cup large_class(t) \cup data_clumps(t)
  PROVE  IsFinding(f) /\ f.id.rule \in SmellRules
<1>1. CASE f \in feature_envy(t)
  <2>1. PICK s \in Of(t, "function") : \E severity :
          f = FindingRecord(FindingId("feature-envy", s.file, 0, {s.name}), severity, {Site(s)}, s.line)
    BY <1>1 DEF feature_envy, envy_finding
  <2>2. s.line \in Nat
    BY StatementsParsed
  <2> QED BY <2>1, <2>2 DEF IsFinding, SmellRules, FindingRecord, FindingId
<1>2. CASE f \in large_class(t)
  <2>1. PICK c \in Of(t, "class") : \E severity :
          f = FindingRecord(FindingId("large-class", c.file, 0, {c.name}), severity, {Site(c)}, c.line)
    BY <1>2 DEF large_class, class_finding
  <2>2. c.line \in Nat
    BY StatementsParsed
  <2> QED BY <2>1, <2>2 DEF IsFinding, SmellRules, FindingRecord, FindingId
<1>3. CASE f \in data_clumps(t)
  <2>1. PICK c \in clumps(t) : \E severity :
          f = FindingRecord(FindingId("data-clumps", c.family, 0, c.names), severity,
                            FirstSites(Sites(c.members)), 0)
    BY <1>3, Zenon DEF data_clumps
  <2> QED BY <2>1 DEF IsFinding, SmellRules, FindingRecord, FindingId
<1> QED BY <1>1, <1>2, <1>3

\* Of the smells no two have one id.
LEMMA SmellsAreKeyed ==
  ASSUME NEW t, IsTree(t)
  PROVE  /\ Keyed(smell_findings(t))
         /\ \A f \in smell_findings(t) : IsFinding(f) /\ f.id.rule \in SmellRules
<1>1. \A f \in feature_envy(t) \cup large_class(t) \cup data_clumps(t) :
        IsFinding(f) /\ f.id.rule \in SmellRules
  BY SmellsAreFindings
<1>2. \A f \in feature_envy(t) \cup large_class(t) \cup data_clumps(t) : f.order \in Nat
  BY <1>1 DEF IsFinding
<1> QED BY <1>1, <1>2, DedupKeepsOne DEF smell_findings

RawRules ==
  SitedRules \cup SmellRules \cup {"boundary", "banned-import", "unresolved-import"}

\* Two findings with one id have the same evidence.
LEMMA RawFindings ==
  ASSUME NEW t, IsTree(t)
  PROVE  /\ \A f \in raw_findings(t) : IsFinding(f) /\ f.id.rule \in RawRules
         /\ \A f, g \in raw_findings(t) : f.id = g.id => f.evidence = g.evidence
<1> DEFINE sited == security_rules(t) \cup complexity_findings(t) \cup deadcode_findings(t)
           Same(S) == \A f, g \in S : f.id = g.id => f.evidence = g.evidence
           Under(S, rules) == \A f \in S : IsFinding(f) /\ f.id.rule \in rules
<1>1. Under(sited, SitedRules) /\ Same(sited)
  <2>1. \A f \in sited : IsFinding(f) /\ Sited(f)
    BY SecurityIsSited, FunctionsAreSited, DeadCodeIsSited
  <2> QED BY <2>1 DEF Sited
<1>2. Under(boundary_rules(t), {"boundary"}) /\ Same(boundary_rules(t))
  BY BoundariesAreGrouped
<1>3. Under(banned_import_rules(t), {"banned-import"}) /\ Same(banned_import_rules(t))
  BY BansAreGrouped
<1>4. Under(unresolved_import_rule(t), {"unresolved-import"}) /\ Same(unresolved_import_rule(t))
  BY UnresolvedAtFirst
<1>5. Under(smell_findings(t), SmellRules) /\ Same(smell_findings(t))
  BY SmellsAreKeyed DEF Keyed
<1>6. raw_findings(t) = sited \cup boundary_rules(t) \cup banned_import_rules(t)
                          \cup unresolved_import_rule(t) \cup smell_findings(t)
  BY DEF raw_findings
<1> HIDE DEF sited
<1>7. Under(raw_findings(t), RawRules)
  BY <1>1, <1>2, <1>3, <1>4, <1>5, <1>6 DEF RawRules
<1>8. Same(raw_findings(t))
  <2> SUFFICES ASSUME NEW f \in raw_findings(t), NEW g \in raw_findings(t), f.id = g.id
               PROVE  f.evidence = g.evidence
    OBVIOUS
  <2>1. CASE f.id.rule \in SitedRules
    <3>1. f \in sited /\ g \in sited
      BY <2>1, <1>2, <1>3, <1>4, <1>5, <1>6 DEF SitedRules, SmellRules
    <3> QED BY <3>1, <1>1
  <2>2. CASE f.id.rule \in SmellRules
    <3>1. f \in smell_findings(t) /\ g \in smell_findings(t)
      BY <2>2, <1>1, <1>2, <1>3, <1>4, <1>6 DEF SitedRules, SmellRules
    <3> QED BY <3>1, <1>5
  <2>3. CASE f.id.rule = "boundary"
    <3>1. f \in boundary_rules(t) /\ g \in boundary_rules(t)
      BY <2>3, <1>1, <1>3, <1>4, <1>5, <1>6 DEF SitedRules, SmellRules
    <3> QED BY <3>1, <1>2
  <2>4. CASE f.id.rule = "banned-import"
    <3>1. f \in banned_import_rules(t) /\ g \in banned_import_rules(t)
      BY <2>4, <1>1, <1>2, <1>4, <1>5, <1>6 DEF SitedRules, SmellRules
    <3> QED BY <3>1, <1>3
  <2>5. CASE f.id.rule = "unresolved-import"
    <3>1. f \in unresolved_import_rule(t) /\ g \in unresolved_import_rule(t)
      BY <2>5, <1>1, <1>2, <1>3, <1>5, <1>6 DEF SitedRules, SmellRules
    <3> QED BY <3>1, <1>4
  <2> QED BY <1>7, <2>1, <2>2, <2>3, <2>4, <2>5 DEF RawRules
<1> QED BY <1>7, <1>8

--------------------------------------------------------------------------------
(* No rule looks at the suppressions. *)

SameCode(t, u) == t.files = u.files /\ t.statements = u.statements /\ t.broken = u.broken

LEMMA SameGraph ==
  ASSUME NEW t, NEW u, SameCode(t, u)
  PROVE  /\ \A form : Of(t, form) = Of(u, form)
         /\ Imports(t) = Imports(u) /\ Internal(t) = Internal(u)
         /\ entry_points(t) = entry_points(u)
         /\ ExportFacts(t) = ExportFacts(u) /\ ImportEdges(t) = ImportEdges(u)
         /\ bfs_reachable(t) = bfs_reachable(u)
<1>1. \A form : Of(t, form) = Of(u, form)
  BY DEF SameCode, Of
<1>2. Imports(t) = Imports(u)
  BY DEF SameCode, Imports
<1>3. Internal(t) = Internal(u)
  BY <1>2 DEF SameCode, Internal
<1>4. entry_points(t) = entry_points(u)
  BY DEF SameCode, entry_points
<1>5. ExportFacts(t) = ExportFacts(u)
  <2> DEFINE own(S) ==
               {[file |-> s.file, name |-> s.name, line |-> s.line, type |-> s.mark, re_export |-> FALSE]
                : s \in S}
             passed(S) ==
               UNION {{[file |-> s.file, name |-> n, line |-> s.line, type |-> FALSE, re_export |-> TRUE]
                       : n \in IF s.names = {} THEN {AllNames} ELSE s.names} : s \in S}
  <2>1. \A w : ExportFacts(w) = own(Of(w, "export")) \cup passed(Of(w, "forward"))
    BY DEF ExportFacts
  <2> HIDE DEF own, passed
  <2> QED BY <1>1, <2>1
<1>6. \A s : NamesOf(t, s) = NamesOf(u, s)
  BY DEF SameCode, NamesOf
<1>7. ImportEdges(t) = ImportEdges(u)
  <2> DEFINE names(w, s) ==
               UNION {NamesOf(w, v) : v \in {x \in Internal(w) : x.file = s.file /\ x.to = s.to}}
  <2>1. \A s : names(t, s) = names(u, s)
    BY <1>3, <1>6
  <2>2. \A w : ImportEdges(w) = {[source |-> s.file, target |-> s.to, names |-> names(w, s)] : s \in Internal(w)}
    BY DEF ImportEdges
  <2> HIDE DEF names
  <2> QED BY <1>3, <2>1, <2>2
<1>8. bfs_reachable(t) = bfs_reachable(u)
  BY <1>4, <1>7 DEF bfs_reachable
<1> QED BY <1>1, <1>2, <1>3, <1>4, <1>5, <1>7, <1>8

LEMMA SameUsage ==
  ASSUME NEW t, NEW u, SameCode(t, u)
  PROVE  used_exports(t) = used_exports(u)
<1>1. ExportFacts(t) = ExportFacts(u) /\ ImportEdges(t) = ImportEdges(u)
      /\ bfs_reachable(t) = bfs_reachable(u) /\ entry_points(t) = entry_points(u)
  BY SameGraph
<1>2. \A file : Exported(t, file) = Exported(u, file)
                /\ collect_reexport_names(t, file) = collect_reexport_names(u, file)
  BY <1>1 DEF Exported, collect_reexport_names
<1>3. seed_public_surface(t) = seed_public_surface(u)
  BY <1>1 DEF seed_public_surface
<1>4. \A live : seed_from_imports(t, live) = seed_from_imports(u, live)
  <2> SUFFICES ASSUME NEW live PROVE seed_from_imports(t, live) = seed_from_imports(u, live)
    OBVIOUS
  <2> DEFINE pulled(w, e) == IF is_namespace(e) THEN Exported(w, e.target)
                             ELSE e.names \cap Exported(w, e.target)
             passed(w, e) == IF is_namespace(e) THEN {}
                             ELSE pulled(w, e) \cap collect_reexport_names(w, e.source)
             used(w, S) == UNION {{e.target} \X (pulled(w, e) \ passed(w, e)) : e \in S}
             hops(w, S) == UNION {{<<<<e.source, n>>, <<e.target, n>>>> : n \in passed(w, e)} : e \in S}
             from(w) == {e \in ImportEdges(w) : e.source \in live}
  <2>1. \A w : seed_from_imports(w, live) = [used |-> used(w, from(w)), forwards |-> hops(w, from(w))]
    BY DEF seed_from_imports
  <2>2. \A e : pulled(t, e) = pulled(u, e)
    BY <1>2
  <2>3. \A e : passed(t, e) = passed(u, e)
    BY <1>2
  <2>4. from(t) = from(u)
    BY <1>1
  <2> HIDE DEF pulled, passed, from
  <2>5. \A S : used(t, S) = used(u, S)
    BY <2>2, <2>3
  <2>6. \A S : hops(t, S) = hops(u, S)
    BY <2>3
  <2> HIDE DEF used, hops
  <2> QED BY <2>1, <2>4, <2>5, <2>6
<1> QED BY <1>1, <1>3, <1>4 DEF used_exports

LEMMA SameDeadCode ==
  ASSUME NEW t, NEW u, SameCode(t, u)
  PROVE  deadcode_findings(t) = deadcode_findings(u)
<1>1. /\ ExportFacts(t) = ExportFacts(u) /\ ImportEdges(t) = ImportEdges(u)
      /\ bfs_reachable(t) = bfs_reachable(u) /\ entry_points(t) = entry_points(u)
      /\ \A form : Of(t, form) = Of(u, form)
  BY SameGraph
<1>2. \A file : SignatureTypes(t, file) = SignatureTypes(u, file)
  BY <1>1 DEF SignatureTypes
<1>3. flag_unused_exports(t) = flag_unused_exports(u)
  <2> DEFINE dead(w) == {y \in ExportFacts(w) :
                           /\ y.file \notin entry_points(w) /\ y.file \in bfs_reachable(w)
                           /\ ~ y.re_export /\ y.name # DefaultName
                           /\ <<y.file, y.name>> \notin used_exports(w)
                           /\ ~ (y.type /\ y.name \in SignatureTypes(w, y.file))}
             flagged(S) == {[id |-> FindingId("unused-export", x.file, x.line, {x.name}), line |-> x.line] : x \in S}
  <2>1. dead(t) = dead(u)
    BY <1>1, <1>2, SameUsage
  <2>2. \A w : flag_unused_exports(w) = flagged(dead(w))
    BY DEF flag_unused_exports
  <2> HIDE DEF dead, flagged
  <2> QED BY <2>1, <2>2
<1>4. \A file : literal_reference(t, file) = literal_reference(u, file)
  BY <1>1 DEF literal_reference
<1>5. \A file : is_barrel_with_reachable_sources(t, file) = is_barrel_with_reachable_sources(u, file)
  BY <1>1 DEF is_barrel_with_reachable_sources
<1>6. flag_unused_files(t) = flag_unused_files(u)
  BY <1>1, <1>4, <1>5 DEF flag_unused_files, SameCode
<1> QED BY <1>1, <1>3, <1>6 DEF deadcode_findings, deadcode_analyze

LEMMA SameRules ==
  ASSUME NEW t, NEW u, SameCode(t, u)
  PROVE  /\ boundary_rules(t) = boundary_rules(u)
         /\ banned_import_rules(t) = banned_import_rules(u)
         /\ unresolved_import_rule(t) = unresolved_import_rule(u)
         /\ security_rules(t) = security_rules(u)
         /\ complexity_findings(t) = complexity_findings(u)
<1>1. /\ Imports(t) = Imports(u) /\ Internal(t) = Internal(u)
      /\ \A form : Of(t, form) = Of(u, form)
  BY SameGraph
<1>2. boundary_rules(t) = boundary_rules(u)
  BY <1>1 DEF boundary_rules, boundary_offending
<1>3. banned_import_rules(t) = banned_import_rules(u)
  BY <1>1 DEF banned_import_rules, banned_offending
<1>4. unresolved_import_rule(t) = unresolved_import_rule(u)
  BY <1>1 DEF unresolved_import_rule, SameCode
<1>5. security_rules(t) = security_rules(u)
  BY <1>1 DEF security_rules
<1>6. complexity_findings(t) = complexity_findings(u)
  BY <1>1 DEF complexity_findings
<1> QED BY <1>2, <1>3, <1>4, <1>5, <1>6

LEMMA SameSmells ==
  ASSUME NEW t, NEW u, SameCode(t, u)
  PROVE  smell_findings(t) = smell_findings(u)
<1>1. entry_points(t) = entry_points(u) /\ \A form : Of(t, form) = Of(u, form)
  BY SameGraph
<1>2. \A f : declared_again(t, f) = declared_again(u, f)
  BY <1>1 DEF declared_again
<1>3. feature_envy(t) = feature_envy(u)
  <2> DEFINE from(w) == {f \in Of(w, "function") :
                           f.file \notin entry_points(w) \cup TestFiles /\ ~ declared_again(w, f)}
  <2>1. from(t) = from(u)
    BY <1>1, <1>2
  <2>2. feature_envy(t) = UNION {envy_finding(s) : s \in from(t)}
        /\ feature_envy(u) = UNION {envy_finding(s) : s \in from(u)}
    BY DEF feature_envy
  <2> QED BY <2>1, <2>2
<1>4. large_class(t) = large_class(u)
  <2> DEFINE methods(w, c) == Cardinality({m \in Of(w, "method") : m.file = c.file /\ m.name = c.name})
             classes(w) == {k \in Of(w, "class") : k.file \notin TestFiles}
  <2>1. classes(t) = classes(u) /\ \A c : methods(t, c) = methods(u, c)
    BY <1>1
  <2>2. /\ large_class(t) = UNION {class_finding(c, methods(t, c)) : c \in classes(t)}
        /\ large_class(u) = UNION {class_finding(c, methods(u, c)) : c \in classes(u)}
    BY DEF large_class
  <2> HIDE DEF methods, classes
  <2> QED BY <2>1, <2>2
<1>5. collect_clump_sites(t) = collect_clump_sites(u)
  BY <1>1 DEF collect_clump_sites
<1>6. data_clumps(t) = data_clumps(u)
  BY <1>5 DEF data_clumps, clumps
<1> QED BY <1>3, <1>4, <1>6 DEF smell_findings

--------------------------------------------------------------------------------
(* The report. *)

\* Tests count less, and nothing else about a finding changes.
Downranked(t) == downrank_test_complexity(downrank_test_security(t, raw_findings(t)))
Kept(t) == {f \in Downranked(t) : f.evidence \cap Suppressed(t) = {}}
Unused(t) == {p \in Suppressed(t) : \A f \in raw_findings(t) : p \notin f.evidence}
StaleFindings(t) == {stale_suppression_finding(p) : p \in Unused(t)}

SameFinding(f, g) == f.id = g.id /\ f.evidence = g.evidence /\ f.order = g.order

LEMMA LoweringKeeps ==
  ASSUME NEW f, IsFinding(f)
  PROVE  IsFinding(Lowered(f)) /\ SameFinding(Lowered(f), f)
<1>1. Lowered(f) = [id |-> f.id, severity |-> Severities.low, evidence |-> f.evidence, order |-> f.order]
  BY DEF Lowered, IsFinding
<1> QED BY <1>1 DEF IsFinding, SameFinding

LEMMA DownrankingKeeps ==
  ASSUME NEW t, IsTree(t)
  PROVE  /\ \A f \in Downranked(t) : IsFinding(f) /\ \E g \in raw_findings(t) : SameFinding(f, g)
         /\ \A g \in raw_findings(t) : \E f \in Downranked(t) : SameFinding(f, g)
<1> DEFINE first == downrank_test_security(t, raw_findings(t))
<1>1. \A f \in raw_findings(t) : IsFinding(f)
  BY RawFindings
<1>2. /\ \A f \in first : IsFinding(f) /\ \E g \in raw_findings(t) : SameFinding(f, g)
      /\ \A g \in raw_findings(t) : \E f \in first : SameFinding(f, g)
  <2> DEFINE low(f) == f.id.rule \in SecurityRules
                         /\ (FilesOf(f) \cap TestFiles # {} \/ f.evidence \cap TestPatterns(t) # {})
             ranked(f) == IF low(f) THEN Lowered(f) ELSE f
  <2>1. first = {ranked(f) : f \in raw_findings(t)}
    BY DEF downrank_test_security
  <2>2. \A f \in raw_findings(t) : IsFinding(ranked(f)) /\ SameFinding(ranked(f), f)
    <3> HIDE DEF low
    <3> QED BY <1>1, LoweringKeeps DEF SameFinding
  <2> HIDE DEF ranked, first
  <2> QED BY <2>1, <2>2
<1>3. /\ \A f \in Downranked(t) : IsFinding(f) /\ \E g \in first : SameFinding(f, g)
      /\ \A g \in first : \E f \in Downranked(t) : SameFinding(f, g)
  <2> DEFINE low(f) == f.id.rule \in HealthRules /\ FilesOf(f) \cap TestFiles # {}
             ranked(f) == IF low(f) THEN Lowered(f) ELSE f
  <2>1. Downranked(t) = {ranked(f) : f \in first}
    BY DEF Downranked, downrank_test_complexity
  <2> HIDE DEF first
  <2>2. \A f \in first : IsFinding(ranked(f)) /\ SameFinding(ranked(f), f)
    <3> HIDE DEF low
    <3> QED BY <1>2, LoweringKeeps DEF SameFinding
  <2> HIDE DEF ranked
  <2> QED BY <2>1, <2>2
<1> HIDE DEF first
<1> QED BY <1>2, <1>3 DEF SameFinding

LEMMA StaleAreKeyed ==
  ASSUME NEW t, IsTree(t)
  PROVE  /\ Keyed(StaleFindings(t))
         /\ \A f \in StaleFindings(t) : /\ f.order \in Nat /\ f.id.rule = "stale-suppression"
                                        /\ <<f.id.file, f.id.line>> \in Unused(t)
         /\ \A p \in Unused(t) : \E f \in StaleFindings(t) : <<f.id.file, f.id.line>> = p
<1>1. \A p \in Unused(t) : p = <<p[1], p[2]>>
  BY DEF Unused, Suppressed, IsTree
<1>2. \A p : stale_suppression_finding(p)
               = [id |-> [rule |-> "stale-suppression", file |-> p[1], line |-> p[2], names |-> {}],
                  severity |-> Severities.low, evidence |-> {p}, order |-> 0]
  BY DEF stale_suppression_finding, FindingRecord, FindingId
<1>3. \A f \in StaleFindings(t) : \E p \in Unused(t) :
        /\ f = stale_suppression_finding(p) /\ f.order = 0 /\ f.id.rule = "stale-suppression"
        /\ f.id.file = p[1] /\ f.id.line = p[2]
  <2> SUFFICES ASSUME NEW f \in StaleFindings(t)
               PROVE  \E p \in Unused(t) :
                        /\ f = stale_suppression_finding(p) /\ f.order = 0 /\ f.id.rule = "stale-suppression"
                        /\ f.id.file = p[1] /\ f.id.line = p[2]
    OBVIOUS
  <2>1. PICK p \in Unused(t) : f = stale_suppression_finding(p)
    BY DEF StaleFindings
  <2> QED BY <1>2, <2>1
<1>4. Keyed(StaleFindings(t))
  <2> SUFFICES ASSUME NEW f \in StaleFindings(t), NEW g \in StaleFindings(t), f.id = g.id PROVE f = g
    BY DEF Keyed
  <2>1. PICK p \in Unused(t) : f = stale_suppression_finding(p) /\ f.id.file = p[1] /\ f.id.line = p[2]
    BY <1>3
  <2>2. PICK q \in Unused(t) : g = stale_suppression_finding(q) /\ g.id.file = q[1] /\ g.id.line = q[2]
    BY <1>3
  <2>3. p = q
    BY <1>1, <2>1, <2>2
  <2> QED BY <2>1, <2>2, <2>3
<1>5. \A p \in Unused(t) : \E f \in StaleFindings(t) : <<f.id.file, f.id.line>> = p
  <2> SUFFICES ASSUME NEW p \in Unused(t)
               PROVE  \E f \in StaleFindings(t) : <<f.id.file, f.id.line>> = p
    OBVIOUS
  <2>1. stale_suppression_finding(p) \in StaleFindings(t)
    BY DEF StaleFindings
  <2> QED BY <1>1, <1>2, <2>1
<1>6. \A f \in StaleFindings(t) : <<f.id.file, f.id.line>> \in Unused(t)
  BY <1>1, <1>3
<1> QED BY <1>3, <1>4, <1>5, <1>6

\* What is reported: one of every id that nothing silences, and the stale suppressions.
LEMMA ReportIsSplit ==
  ASSUME NEW t, IsTree(t)
  PROVE  /\ run_analysis(t) = dedup_by_id(Kept(t)) \cup StaleFindings(t)
         /\ Keyed(run_analysis(t))
<1>1. /\ \A f \in Downranked(t) : IsFinding(f) /\ \E g \in raw_findings(t) : SameFinding(f, g)
      /\ \A g \in raw_findings(t) : \E f \in Downranked(t) : SameFinding(f, g)
  BY DownrankingKeeps
<1>2. Suppressed(t) \ used_suppressions(t, Downranked(t)) = Unused(t)
  BY <1>1 DEF used_suppressions, Unused, SameFinding
<1>3. apply_suppressions(t, Downranked(t)) = Kept(t) \cup StaleFindings(t)
  BY <1>2 DEF apply_suppressions, Kept, StaleFindings
<1>4. \A f \in Kept(t) : f.order \in Nat /\ f.id.rule # "stale-suppression"
  <2> SUFFICES ASSUME NEW f \in Kept(t)
               PROVE  f.order \in Nat /\ f.id.rule # "stale-suppression"
    OBVIOUS
  <2>1. PICK g \in raw_findings(t) : SameFinding(f, g)
    BY <1>1 DEF Kept
  <2>2. g.id.rule \in RawRules /\ IsFinding(g)
    BY RawFindings
  <2> QED BY <2>1, <2>2 DEF SameFinding, IsFinding, RawRules, SitedRules, SmellRules
<1>5. \A f \in Kept(t) \cup StaleFindings(t) : f.order \in Nat
  BY <1>4, StaleAreKeyed
<1>6. Ids(Kept(t)) \cap Ids(StaleFindings(t)) = {}
  <2>1. \A f \in Kept(t), g \in StaleFindings(t) : f.id # g.id
    BY <1>4, StaleAreKeyed
  <2> QED BY <2>1 DEF Ids
<1>7. run_analysis(t) = dedup_by_id(Kept(t) \cup StaleFindings(t))
  BY <1>3 DEF run_analysis, finalize_findings, Downranked
<1>8. Keyed(run_analysis(t))
  BY <1>5, <1>7, DedupKeepsOne
<1>9. run_analysis(t) = dedup_by_id(Kept(t)) \cup StaleFindings(t)
  BY <1>5, <1>6, <1>7, StaleAreKeyed, DedupOfOthers
<1> QED BY <1>8, <1>9

\* Without its stale suppressions a tree has the same report, but for those.
LEMMA ReportWithoutStale ==
  ASSUME NEW t, IsTree(t), NEW u, u = [t EXCEPT !.suppressed = @ \ Unused(t)]
  PROVE  run_analysis(u) = dedup_by_id(Kept(t))
<1>1. u = [files |-> t.files, statements |-> t.statements,
           suppressed |-> t.suppressed \ Unused(t), broken |-> t.broken]
  BY DEF IsTree
<1>2. IsTree(u) /\ SameCode(t, u)
  BY <1>1 DEF IsTree, SameCode
<1>3. raw_findings(t) = raw_findings(u)
  BY <1>2, SameRules, SameDeadCode, SameSmells DEF raw_findings
<1>4. TestPatterns(t) = TestPatterns(u)
  BY <1>2, SameGraph DEF TestPatterns
<1>5. Downranked(t) = Downranked(u)
  BY <1>3, <1>4 DEF Downranked, downrank_test_security
<1>6. Suppressed(u) = Suppressed(t) \ Unused(t)
  BY <1>1 DEF Suppressed
<1>7. Unused(u) = {}
  BY <1>3, <1>6 DEF Unused
<1>8. Kept(u) = Kept(t)
  <2>1. \A f \in Downranked(t) : f.evidence \cap Unused(t) = {}
    <3>1. \A f \in Downranked(t) : \E g \in raw_findings(t) : SameFinding(f, g)
      BY DownrankingKeeps
    <3> QED BY <3>1 DEF Unused, SameFinding
  <2>2. \A f \in Downranked(t) : f.evidence \cap Suppressed(u) = f.evidence \cap Suppressed(t)
    BY <1>6, <2>1
  <2> QED BY <1>5, <2>2 DEF Kept
<1>9. run_analysis(u) = dedup_by_id(Kept(u)) \cup StaleFindings(u)
  BY <1>2, ReportIsSplit
<1>10. StaleFindings(u) = {}
  BY <1>7 DEF StaleFindings
<1> QED BY <1>8, <1>9, <1>10

\* The report of an index run is complete.
LEMMA RunIsComplete ==
  ASSUME IsTree(tree), findings = run_analysis(tree)
  PROVE  ReportIsComplete
<1>1. findings = dedup_by_id(Kept(tree)) \cup StaleFindings(tree) /\ Keyed(findings)
  BY ReportIsSplit
<1>2. /\ \A f \in Downranked(tree) : IsFinding(f) /\ \E g \in raw_findings(tree) : SameFinding(f, g)
      /\ \A g \in raw_findings(tree) : \E f \in Downranked(tree) : SameFinding(f, g)
  BY DownrankingKeeps
<1>3. /\ \A f \in raw_findings(tree) : IsFinding(f) /\ f.id.rule \in RawRules
      /\ \A f, g \in raw_findings(tree) : f.id = g.id => f.evidence = g.evidence
  BY RawFindings
<1>4. /\ dedup_by_id(Kept(tree)) \subseteq Kept(tree)
      /\ Ids(dedup_by_id(Kept(tree))) = Ids(Kept(tree))
  <2>1. \A f \in Kept(tree) : f.order \in Nat
    BY <1>2 DEF Kept, IsFinding
  <2> QED BY <2>1, DedupKeepsOne
<1>5. ASSUME NEW f \in raw_findings(tree), f.evidence \cap Suppressed(tree) = {}
      PROVE  \E g \in findings : g.id.rule = f.id.rule /\ f.evidence \subseteq g.evidence
  <2>1. PICK d \in Downranked(tree) : SameFinding(d, f)
    BY <1>2
  <2>2. d \in Kept(tree) /\ d.id = f.id
    BY <1>5, <2>1 DEF Kept, SameFinding
  <2>3. PICK g \in dedup_by_id(Kept(tree)) : g.id = f.id
    BY <1>4, <2>2 DEF Ids
  <2>4. PICK h \in raw_findings(tree) : SameFinding(g, h)
    BY <1>2, <1>4, <2>3 DEF Kept
  <2>5. g.evidence = f.evidence
    BY <1>3, <2>3, <2>4 DEF SameFinding
  <2> QED BY <1>1, <2>3, <2>5
<1> DEFINE stale == {f \in findings : f.id.rule = "stale-suppression"}
           lines == {<<f.id.file, f.id.line>> : f \in stale}
<1>6. \A f \in dedup_by_id(Kept(tree)) : f.id.rule # "stale-suppression"
  <2>1. \A f \in Kept(tree) : f.id.rule \in RawRules
    BY <1>2, <1>3 DEF Kept, SameFinding
  <2> QED BY <1>4, <2>1 DEF RawRules, SitedRules, SmellRules
<1>7. stale = StaleFindings(tree) /\ findings \ stale = dedup_by_id(Kept(tree))
  BY <1>1, <1>6, StaleAreKeyed
<1>8. lines = Unused(tree)
  <2> HIDE DEF stale
  <2>1. \A f \in stale : <<f.id.file, f.id.line>> \in Unused(tree)
    BY <1>7, StaleAreKeyed
  <2>2. \A p \in Unused(tree) : \E f \in stale : <<f.id.file, f.id.line>> = p
    BY <1>7, StaleAreKeyed
  <2> QED BY <2>1, <2>2
<1>9. run_analysis([tree EXCEPT !.suppressed = @ \ lines]) = findings \ stale
  <2> HIDE DEF lines, stale
  <2> QED BY <1>7, <1>8, ReportWithoutStale
<1>10. lines = {p \in Suppressed(tree) : \A f \in raw_findings(tree) : p \notin f.evidence}
  BY <1>8 DEF Unused
<1> HIDE DEF lines, stale
<1> QED BY <1>1, <1>5, <1>9, <1>10 DEF ReportIsComplete, lines, stale

--------------------------------------------------------------------------------
(* Clumps. *)

\* The functions of a clump are those that take all of its names.
LEMMA MembersAreTakers ==
  ASSUME NEW t, NEW c \in clumps(t)
  PROVE  LET sites == collect_clump_sites(t)
         IN /\ c = [family |-> c.family, members |-> c.members, names |-> c.names]
            /\ c.members = {s \in sites : Family[s.file] = c.family /\ c.names \subseteq ClumpNames(s)}
            /\ Cardinality(c.members) >= MinFunctions
<1> DEFINE sites == collect_clump_sites(t)
           triples == {k \in index_triples(sites) : Cardinality(k.members) >= MinFunctions}
           group(k) == {v \in triples : v.family = k.family /\ v.members = k.members}
<1>1. PICK k \in triples : c = [family |-> k.family, members |-> k.members,
                                names |-> UNION {u.names : u \in group(k)}]
  BY DEF clumps, merge_triples
<1>2. \A v \in triples : v.members = {s \in sites : Family[s.file] = v.family /\ v.names \subseteq ClumpNames(s)}
  BY DEF index_triples, Triple
<1>3. Cardinality(k.members) >= MinFunctions
  OBVIOUS
<1> HIDE DEF triples, sites
<1>4. k \in group(k)
  OBVIOUS
<1>5. k.names \subseteq c.names
  BY <1>1, <1>4
<1>6. \A s \in c.members : s \in sites /\ Family[s.file] = c.family /\ c.names \subseteq ClumpNames(s)
  <2> SUFFICES ASSUME NEW s \in c.members, NEW n \in c.names
               PROVE  s \in sites /\ Family[s.file] = c.family /\ n \in ClumpNames(s)
    BY <1>1, <1>2
  <2>1. PICK v \in group(k) : n \in v.names
    BY <1>1
  <2> QED BY <1>1, <1>2, <2>1
<1>7. \A s \in sites : Family[s.file] = c.family /\ c.names \subseteq ClumpNames(s) => s \in c.members
  BY <1>1, <1>2, <1>5
<1> QED BY <1>1, <1>3, <1>6, <1>7 DEF sites

LEMMA TriplesAreIndexed ==
  ASSUME NEW sites, NEW f \in Families(sites),
         NEW t \in {k \in SUBSET ParameterNames(sites) : Cardinality(k) = 3}
  PROVE  Triple(sites, f, t) \in index_triples(sites)
BY DEF index_triples

\* Clumps are whole, apart and found.
LEMMA ClumpsAreWhole == ClumpsExact
<1> DEFINE sites == collect_clump_sites(tree)
           reported == clumps(tree)
           takers(f, names) == {s \in sites : Family[s.file] = f /\ names \subseteq ClumpNames(s)}
<1>1. \A c \in reported : /\ c = [family |-> c.family, members |-> c.members, names |-> c.names]
                          /\ c.members = takers(c.family, c.names)
                          /\ Cardinality(c.members) >= MinFunctions
  BY MembersAreTakers
<1>2. ASSUME NEW f \in Families(sites), NEW s \in sites, NEW names \in SUBSET ClumpNames(s),
             Cardinality(names) = 3, Cardinality(takers(f, names)) >= MinFunctions
      PROVE  \E c \in reported : c.family = f /\ names \subseteq c.names
  <2> DEFINE k == Triple(sites, f, names)
             triples == {v \in index_triples(sites) : Cardinality(v.members) >= MinFunctions}
             merged == [family |-> k.family, members |-> k.members,
                        names |-> UNION {v.names : v \in {w \in triples : w.family = k.family
                                                                          /\ w.members = k.members}}]
  <2>1. names \in SUBSET ParameterNames(sites)
    BY DEF ParameterNames
  <2>2. k \in triples
    <3> HIDE DEF sites
    <3>1. names \in {x \in SUBSET ParameterNames(sites) : Cardinality(x) = 3}
      BY <1>2, <2>1
    <3>2. k \in index_triples(sites)
      BY <3>1, TriplesAreIndexed
    <3>3. Cardinality(k.members) >= MinFunctions
      BY <1>2 DEF Triple
    <3> QED BY <3>2, <3>3
  <2>3. merged \in reported
    BY <2>2 DEF clumps, merge_triples
  <2>4. merged.family = f /\ names \subseteq merged.names
    BY <2>2 DEF Triple
  <2> QED BY <2>3, <2>4
<1> HIDE DEF sites, reported, takers
<1>3. \A c, d \in reported : c.family = d.family /\ c.names = d.names => c = d
  BY <1>1
<1> QED BY <1>1, <1>2, <1>3 DEF ClumpsExact, sites, reported, takers

--------------------------------------------------------------------------------
(* Dead code. *)

\* The report has the findings about dead code whose line is not suppressed.
LEMMA ReportedDeadCode ==
  ASSUME NEW t, IsTree(t), NEW id, id.rule \in DeadCodeRules
  PROVE  id \in Ids(run_analysis(t)) <=>
           \E d \in deadcode_analyze(t) : d.id = id /\ <<id.file, id.line>> \notin Suppressed(t)
<1>1. run_analysis(t) = dedup_by_id(Kept(t)) \cup StaleFindings(t)
  BY ReportIsSplit
<1>2. /\ \A f \in Downranked(t) : IsFinding(f) /\ \E g \in raw_findings(t) : SameFinding(f, g)
      /\ \A g \in raw_findings(t) : \E f \in Downranked(t) : SameFinding(f, g)
  BY DownrankingKeeps
<1>3. Ids(dedup_by_id(Kept(t))) = Ids(Kept(t))
  <2>1. \A f \in Kept(t) : f.order \in Nat
    BY <1>2 DEF Kept, IsFinding
  <2> QED BY <2>1, DedupKeepsOne
<1>4. id \in Ids(run_analysis(t)) <=> id \in Ids(Kept(t))
  <2>1. \A f \in StaleFindings(t) : f.id # id
    BY StaleAreKeyed DEF DeadCodeRules
  <2> QED BY <1>1, <1>3, <2>1 DEF Ids
<1>5. \A g \in raw_findings(t) : g.id = id => g \in deadcode_findings(t)
  <2> SUFFICES ASSUME NEW g \in raw_findings(t), g.id = id, g \notin deadcode_findings(t) PROVE FALSE
    OBVIOUS
  <2>1. CASE g \in security_rules(t) \cup complexity_findings(t)
    BY <2>1, SecurityIsSited, FunctionsAreSited
  <2>2. CASE g \in boundary_rules(t) \cup banned_import_rules(t) \cup unresolved_import_rule(t)
    BY <2>2, BoundariesAreGrouped, BansAreGrouped, UnresolvedAtFirst DEF DeadCodeRules
  <2>3. CASE g \in smell_findings(t)
    BY <2>3, SmellsAreKeyed DEF SmellRules, DeadCodeRules
  <2> QED BY <2>1, <2>2, <2>3 DEF raw_findings
<1>6. /\ \A g \in deadcode_findings(t) : \E d \in deadcode_analyze(t) : g.id = d.id
      /\ \A d \in deadcode_analyze(t) : \E g \in deadcode_findings(t) : g.id = d.id
  <2>1. \A d : FindingRecord(d.id, Severities.low, {<<d.id.file, d.line>>}, d.line).id = d.id
    BY DEF FindingRecord
  <2> QED BY <2>1 DEF deadcode_findings
<1>7. \A g \in deadcode_findings(t) : g.evidence = {<<g.id.file, g.id.line>>}
  BY DeadCodeIsSited DEF Sited
<1>8. ASSUME id \in Ids(Kept(t))
      PROVE  \E d \in deadcode_analyze(t) : d.id = id /\ <<id.file, id.line>> \notin Suppressed(t)
  <2>1. PICK f \in Kept(t) : f.id = id
    BY <1>8 DEF Ids
  <2>2. PICK g \in raw_findings(t) : SameFinding(f, g)
    BY <1>2 DEF Kept
  <2>3. g \in deadcode_findings(t) /\ g.id = id /\ g.evidence \cap Suppressed(t) = {}
    BY <1>5, <2>1, <2>2 DEF SameFinding, Kept
  <2> QED BY <1>6, <1>7, <2>3
<1>9. ASSUME NEW d \in deadcode_analyze(t), d.id = id, <<id.file, id.line>> \notin Suppressed(t)
      PROVE  id \in Ids(Kept(t))
  <2>1. PICK g \in deadcode_findings(t) : g.id = id
    BY <1>6, <1>9
  <2>2. g \in raw_findings(t) /\ g.evidence \cap Suppressed(t) = {}
    BY <1>7, <1>9, <2>1 DEF raw_findings
  <2>3. PICK f \in Downranked(t) : SameFinding(f, g)
    BY <1>2, <2>2
  <2>4. f \in Kept(t) /\ f.id = id
    BY <2>1, <2>2, <2>3 DEF Kept, SameFinding
  <2> QED BY <2>4 DEF Ids
<1> QED BY <1>4, <1>8, <1>9

\* Which exports are flagged.
Dead(t, s) ==
  /\ s.file \in Live(t) \ Entry /\ s.file \notin Consumed(t, s.name) /\ s.name # DefaultName
  /\ ~ (s.mark /\ s.name \in SignatureTypes(t, s.file))
ExportId(s) == FindingId("unused-export", s.file, s.line, {s.name})

LEMMA FlagsAreDead ==
  ASSUME NEW t, IsTree(t), Unmixed(t), NEW id
  PROVE  (\E d \in flag_unused_exports(t) : d.id = id)
           <=> \E s \in Of(t, "export") : Dead(t, s) /\ id = ExportId(s)
<1> DEFINE fact(s) == [file |-> s.file, name |-> s.name, line |-> s.line, type |-> s.mark, re_export |-> FALSE]
           flagged(x) == /\ x.file \notin entry_points(t) /\ x.file \in bfs_reachable(t)
                         /\ ~ x.re_export /\ x.name # DefaultName
                         /\ <<x.file, x.name>> \notin used_exports(t)
                         /\ ~ (x.type /\ x.name \in SignatureTypes(t, x.file))
           flag(x) == [id |-> FindingId("unused-export", x.file, x.line, {x.name}), line |-> x.line]
<1>1. flag_unused_exports(t) = {flag(x) : x \in {y \in ExportFacts(t) : flagged(y)}}
  BY DEF flag_unused_exports
<1>2. /\ \A s \in Of(t, "export") : fact(s) \in ExportFacts(t)
      /\ \A x \in ExportFacts(t) : ~ x.re_export => \E s \in Of(t, "export") : x = fact(s)
  <2> DEFINE passed == UNION {{[file |-> s.file, name |-> m, line |-> s.line, type |-> FALSE, re_export |-> TRUE]
                     : m \in IF s.names = {} THEN {AllNames} ELSE s.names} : s \in Of(t, "forward")}
  <2>1. ExportFacts(t) = {fact(s) : s \in Of(t, "export")} \cup passed
    BY DEF ExportFacts
  <2>2. \A x \in passed : x.re_export = TRUE
    OBVIOUS
  <2> HIDE DEF passed, fact
  <2> QED BY <2>1, <2>2
<1>3. ASSUME NEW s \in Of(t, "export") PROVE flagged(fact(s)) <=> Dead(t, s)
  <2>1. s.name \in Exported(t, s.file)
    BY ExportedNames
  <2>2. <<s.file, s.name>> \in used_exports(t) <=> s.file \in Consumed(t, s.name)
    BY <2>1, UsedAreConsumed, ConsumedAreUsed
  <2>3. s.file \in bfs_reachable(t) /\ s.file \notin entry_points(t) <=> s.file \in Live(t) \ Entry
    BY ReachableIsLive, LiveIsLeast DEF entry_points
  <2> QED BY <2>2, <2>3 DEF Dead
<1>4. \A s : flag(fact(s)).id = ExportId(s) /\ ~ fact(s).re_export
  BY DEF ExportId
<1>5. \A x : flagged(x) => ~ x.re_export
  OBVIOUS
<1> HIDE DEF flagged, fact, flag
<1>6. ASSUME NEW d \in flag_unused_exports(t), d.id = id
      PROVE  \E s \in Of(t, "export") : Dead(t, s) /\ id = ExportId(s)
  <2>1. PICK x \in ExportFacts(t) : flagged(x) /\ d = flag(x)
    BY <1>1
  <2>2. PICK s \in Of(t, "export") : x = fact(s)
    BY <1>2, <1>5, <2>1
  <2> QED BY <1>3, <1>4, <1>6, <2>1, <2>2
<1>7. ASSUME NEW s \in Of(t, "export"), Dead(t, s), id = ExportId(s)
      PROVE  \E d \in flag_unused_exports(t) : d.id = id
  <2>1. flag(fact(s)) \in flag_unused_exports(t)
    BY <1>1, <1>2, <1>3, <1>7
  <2> QED BY <1>4, <1>7, <2>1
<1> QED BY <1>6, <1>7

LEMMA NothingLivesWithoutEntry ==
  ASSUME NEW t, IsTree(t), entry_points(t) = {}
  PROVE  Live(t) = {}
BY LiveIsLeast

\* With the facts of all files no export is dead that was not.
LEMMA BrokenOnlyUses ==
  ASSUME NEW t, IsTree(t), Unmixed(t), NEW u, u = [t EXCEPT !.broken = {}]
  PROVE  {d.id : d \in flag_unused_exports(t)} \subseteq {d.id : d \in flag_unused_exports(u)}
<1>1. u = [files |-> t.files, statements |-> t.statements, suppressed |-> t.suppressed, broken |-> {}]
  BY DEF IsTree
<1>2. IsTree(u) /\ u.files = t.files /\ u.broken = {} /\ Imports(u) = Imports(t)
      /\ Internal(u) = Internal(t) /\ entry_points(u) = entry_points(t)
  BY <1>1 DEF IsTree, Imports, Internal, entry_points
<1>3. Unmixed(u) /\ Live(u) = Live(t)
  BY <1>2 DEF Unmixed, Live
<1>4. ASSUME NEW n PROVE Consumed(u, n) \subseteq Consumed(t, n)
  <2>1. Roots(u, n) \subseteq Consumed(t, n)
    <3>1. Roots(u, n) \subseteq Roots(t, n)
      BY <1>2, <1>3 DEF Roots, NamesOf
    <3> QED BY <3>1, ConsumedIsLeast
  <2>2. ASSUME NEW s \in Passing(u, n), s.file \in Consumed(t, n) PROVE s.to \in Consumed(t, n)
    <3>1. s \in Internal(t) /\ s.form = "forward" /\ s.file \in Live(t) /\ n \in NamesOf(u, s)
      BY <1>2, <1>3 DEF Passing
    <3>2. CASE s.file \in t.broken
      <4>1. s.to \in Roots(t, n)
        BY <3>1, <3>2 DEF Roots, NamesOf
      <4> QED BY <4>1, ConsumedIsLeast
    <3>3. CASE s.file \notin t.broken
      <4>1. s \in Passing(t, n)
        BY <1>2, <3>1, <3>3 DEF Passing, NamesOf
      <4> QED BY <2>2, <4>1, ConsumedIsLeast
    <3> QED BY <3>2, <3>3
  <2> QED BY <1>2, <2>1, <2>2, ConsumedIsLeast
<1>5. ASSUME NEW s \in Of(t, "export"), Dead(t, s) PROVE s \in Of(u, "export") /\ Dead(u, s)
  <2>1. s \in Of(u, "export")
    BY <1>1 DEF Of
  <2>2. SignatureTypes(u, s.file) = SignatureTypes(t, s.file)
    <3>1. \A v : v.file = s.file => (v \in Of(u, "export") <=> v \in Of(t, "export"))
      BY <1>1 DEF Of
    <3> QED BY <3>1 DEF SignatureTypes
  <2> QED BY <1>3, <1>4, <1>5, <2>1, <2>2 DEF Dead
<1>6. ASSUME NEW d \in flag_unused_exports(t) PROVE \E e \in flag_unused_exports(u) : e.id = d.id
  <2>1. PICK s \in Of(t, "export") : Dead(t, s) /\ d.id = ExportId(s)
    BY FlagsAreDead
  <2>2. \E v \in Of(u, "export") : Dead(u, v) /\ d.id = ExportId(v)
    BY <1>5, <2>1
  <2> QED BY <1>2, <1>3, <2>2, FlagsAreDead
<1> QED BY <1>6

LEMMA DeadCodeIsExactly ==
  ASSUME IsTree(tree), Unmixed(tree), findings = run_analysis(tree)
  PROVE  DeadCodeExact
<1>1. ASSUME NEW s \in Of(tree, "export"), ~ Silent(tree, Site(s))
      PROVE  ExportId(s) \in Ids(findings)
               <=> \E u \in Of(tree, "export") : u.name = s.name /\ Site(u) = Site(s) /\ Dead(tree, u)
  <2> DEFINE id == ExportId(s)
  <2>1. id.rule = "unused-export" /\ id.rule \in DeadCodeRules /\ <<id.file, id.line>> = Site(s)
    BY DEF ExportId, FindingId, DeadCodeRules, Site
  <2>2. id \in Ids(findings) <=> \E d \in deadcode_analyze(tree) : d.id = id
    BY <1>1, <2>1, ReportedDeadCode DEF Silent
  <2>3. (\E d \in deadcode_analyze(tree) : d.id = id) <=>
          entry_points(tree) # {} /\ \E d \in flag_unused_exports(tree) : d.id = id
    <3>1. \A d \in flag_unused_files(tree) : d.id # id
      BY <2>1 DEF flag_unused_files, FindingId
    <3> HIDE DEF id
    <3> QED BY <3>1 DEF deadcode_analyze
  <2>4. (\E d \in flag_unused_exports(tree) : d.id = id)
          <=> \E u \in Of(tree, "export") : Dead(tree, u) /\ id = ExportId(u)
    BY FlagsAreDead
  <2>5. \A u : id = ExportId(u) <=> u.name = s.name /\ Site(u) = Site(s)
    BY DEF ExportId, FindingId, Site
  <2>6. (\E u \in Of(tree, "export") : Dead(tree, u)) => entry_points(tree) # {}
    BY NothingLivesWithoutEntry DEF Dead
  <2> HIDE DEF id
  <2>7. id \in Ids(findings)
          <=> \E u \in Of(tree, "export") : u.name = s.name /\ Site(u) = Site(s) /\ Dead(tree, u)
    BY <2>2, <2>3, <2>4, <2>5, <2>6
  <2> QED BY <2>7 DEF id
<1>2. ASSUME NEW id \in Ids(findings), id.rule = "unused-file" PROVE id.file \notin Live(tree)
  <2>0. id.rule \in DeadCodeRules
    BY <1>2 DEF DeadCodeRules
  <2>1. PICK d \in deadcode_analyze(tree) : d.id = id
    BY <2>0, ReportedDeadCode
  <2>2. \A e \in flag_unused_exports(tree) : e.id.rule = "unused-export"
    <3>1. \A e \in flag_unused_exports(tree) : \E s : e.id = ExportId(s)
      BY FlagsAreDead
    <3>2. \A s : ExportId(s).rule = "unused-export"
      BY DEF ExportId, FindingId
    <3> QED BY <3>1, <3>2
  <2>3. d \in flag_unused_files(tree)
    BY <1>2, <2>1, <2>2 DEF deadcode_analyze
  <2>4. id.file \notin bfs_reachable(tree)
    BY <2>1, <2>3 DEF flag_unused_files, FindingId
  <2> QED BY <2>4, ReachableIsLive
<1>3. {d.id : d \in flag_unused_exports(tree)}
        \subseteq {d.id : d \in flag_unused_exports([tree EXCEPT !.broken = {}])}
  BY BrokenOnlyUses
<1>4. ASSUME NEW name \in {s.name : s \in Of(tree, "export")},
             NEW s \in {u \in {v \in Of(tree, "export") : v.name = name} : ~ Silent(tree, Site(u))}
      PROVE  FindingId("unused-export", s.file, s.line, {name}) \in Ids(findings)
               <=> /\ s.file \in Live(tree) \ Entry /\ s.file \notin Consumed(tree, name)
                   /\ name # DefaultName
                   /\ \E u \in {v \in Of(tree, "export") : v.name = name} :
                        Site(u) = Site(s) /\ ~ (u.mark /\ name \in SignatureTypes(tree, u.file))
  <2>1. s \in Of(tree, "export") /\ s.name = name /\ ~ Silent(tree, Site(s))
    OBVIOUS
  <2>2. \A u : Site(u) = Site(s) => u.file = s.file
    BY DEF Site
  <2>3. FindingId("unused-export", s.file, s.line, {name}) = ExportId(s)
    BY <2>1 DEF ExportId
  <2> QED BY <1>1, <2>1, <2>2, <2>3 DEF Dead
<1> QED BY <1>2, <1>3, <1>4 DEF DeadCodeExact

--------------------------------------------------------------------------------
(* What fixes leave alone. *)

\* Fixes only take away.
PartOf(t, u) ==
  /\ t.files \subseteq u.files /\ t.statements \subseteq u.statements
  /\ u.broken \cap t.files \subseteq t.broken

LEMMA PartsOfParts ==
  ASSUME NEW t, NEW u, IsTree(t), IsTree(u), PartOf(t, u)
  PROVE  /\ \A form : Of(t, form) \subseteq Of(u, form)
         /\ Internal(t) \subseteq Internal(u) /\ Live(t) \subseteq Live(u)
<1>1. \A form : Of(t, form) \subseteq Of(u, form)
  BY DEF Of, PartOf, IsTree
<1>2. Internal(t) \subseteq Internal(u) /\ entry_points(t) \subseteq entry_points(u)
  BY DEF Internal, Imports, PartOf, entry_points
<1>3. Live(t) \subseteq Live(u)
  BY <1>2, LiveIsLeast
<1> QED BY <1>1, <1>2, <1>3

\* The files that re-exports of a name lead to from a file.
Led(t, name, f) == ChainEnds(Chains(t.files, Links(Hops(t, name))), {f})

LEMMA LedIsLeast ==
  ASSUME NEW t, IsTree(t), NEW n, NEW f \in t.files
  PROVE  /\ f \in Led(t, n, f)
         /\ \A s \in Hops(t, n) : s.file \in Led(t, n, f) => s.to \in Led(t, n, f)
         /\ \A T : f \in T /\ (\A s \in Hops(t, n) : s.file \in T => s.to \in T) => Led(t, n, f) \subseteq T
<1> DEFINE links == Links(Hops(t, n))
           nodes == t.files
           led == Led(t, n, f)
<1>1. Closed(nodes, links) /\ \A e \in links : e = <<e[1], e[2]>>
  BY DEF Closed, Links, Hops, Internal
<1>2. IsFiniteSet(nodes) /\ {f} \subseteq nodes
  BY DEF IsTree
<1>3. \A T : Closed(T, links) <=> \A s \in Hops(t, n) : s.file \in T => s.to \in T
  BY ClosedUnderLinks
<1>4. led = ChainEnds(Chains(nodes, links), {f})
  BY DEF Led
<1> HIDE DEF links, nodes, led
<1>5. /\ {f} \subseteq led /\ Closed(led, links)
      /\ \A T : {f} \subseteq T /\ Closed(T, links) => led \subseteq T
  BY <1>1, <1>2, <1>4, EndsAreLeast
<1>6. /\ f \in led
      /\ \A s \in Hops(t, n) : s.file \in led => s.to \in led
      /\ \A T : f \in T /\ (\A s \in Hops(t, n) : s.file \in T => s.to \in T) => led \subseteq T
  BY <1>3, <1>5
<1> QED BY <1>6 DEF led

LEMMA ProvidedWhereLed ==
  ASSUME NEW t, NEW n, NEW f
  PROVE  f \in Provides(t, n) <=> \E g \in Led(t, n, f) : g \in Declaring(t, n)
<1> DEFINE chains == Chains(t.files, Links(Hops(t, n)))
<1>1. \A g : g \in Led(t, n, f) <=> \E q \in chains : q[1] = f /\ g = q[Len(q)]
  BY DEF Led, ChainEnds
<1>2. f \in Provides(t, n) <=> \E q \in chains : q[1] = f /\ q[Len(q)] \in Declaring(t, n)
  BY DEF Provides
<1> HIDE DEF chains
<1> QED BY <1>1, <1>2

\* What an import of a file that is in use takes is in use, in the tree that was
\* indexed, wherever re-exports lead.
LEMMA ImportsLeadToConsumed ==
  ASSUME NEW t, NEW u, IsTree(t), IsTree(u), PartOf(t, u),
         NEW s \in Of(t, "import"), s.file \in Live(u), s.to \in t.files, NEW n \in s.names
  PROVE  Led(t, n, s.to) \subseteq Consumed(u, n) \cap Live(u)
<1> DEFINE T == Consumed(u, n) \cap Live(u)
<1>1. s.to \in T
  <2>1. s \in Of(u, "import") /\ s \in Internal(u)
    BY PartsOfParts DEF Of, Internal, Imports, PartOf
  <2>2. s.form = "import" /\ NamesOf(u, s) = s.names
    BY <2>1 DEF Of, NamesOf
  <2>3. s.to \in Roots(u, n)
    BY <2>1, <2>2 DEF Roots
  <2> QED BY <2>1, <2>3, ConsumedIsLeast, LiveIsLeast
<1>2. ASSUME NEW h \in Hops(t, n), h.file \in T PROVE h.to \in T
  <2>1. h \in Of(u, "forward") /\ h \in Internal(u) /\ (h.names = {} \/ n \in h.names)
    BY PartsOfParts DEF Hops
  <2>2. h.form = "forward" /\ NamesOf(u, h) = h.names
    BY <2>1 DEF Of, NamesOf
  <2>3. h.to \in Live(u)
    BY <1>2, <2>1, LiveIsLeast
  <2>4. CASE h.names = {}
    <3>1. h.to \in Roots(u, n)
      BY <1>2, <2>1, <2>2, <2>4 DEF Roots
    <3> QED BY <2>3, <3>1, ConsumedIsLeast
  <2>5. CASE n \in h.names
    <3>1. h \in Passing(u, n)
      BY <1>2, <2>1, <2>2, <2>5 DEF Passing
    <3> QED BY <1>2, <2>3, <3>1, ConsumedIsLeast
  <2> QED BY <2>1, <2>4, <2>5
<1> HIDE DEF T
<1>3. Led(t, n, s.to) \subseteq T
  BY <1>1, <1>2, LedIsLeast
<1> QED BY <1>3 DEF T

\* What `ovecc fix` removes was dead in the tree that was indexed.
LEMMA FixedWasDead ==
  ASSUME NEW t, IsTree(t), Unmixed(t), NEW id \in Ids(run_analysis(t))
  PROVE  /\ id.rule = "unused-export" =>
              \E y \in Of(t, "export") :
                id.file = y.file /\ id.names = {y.name} /\ y.file \notin Consumed(t, y.name)
         /\ id.rule = "unused-file" => id.file \notin Live(t)
<1>1. \A e \in flag_unused_exports(t) :
        e.id.rule = "unused-export" /\ \E y \in Of(t, "export") : Dead(t, y) /\ e.id = ExportId(y)
  <2>1. \A e \in flag_unused_exports(t) : \E y \in Of(t, "export") : Dead(t, y) /\ e.id = ExportId(y)
    BY FlagsAreDead
  <2>2. \A y : ExportId(y).rule = "unused-export"
    BY DEF ExportId, FindingId
  <2> QED BY <2>1, <2>2
<1>2. \A e \in flag_unused_files(t) : e.id.rule # "unused-export" /\ e.id.file \notin Live(t)
  <2> SUFFICES ASSUME NEW e \in flag_unused_files(t)
               PROVE  e.id.rule # "unused-export" /\ e.id.file \notin Live(t)
    OBVIOUS
  <2>1. PICK g \in t.files \ bfs_reachable(t) :
          e.id = FindingId(IF literal_reference(t, g) THEN "possibly-unused-file" ELSE "unused-file", g, 1, {})
    BY DEF flag_unused_files
  <2> QED BY <2>1, ReachableIsLive DEF FindingId
<1>3. ASSUME id.rule = "unused-export"
      PROVE  \E y \in Of(t, "export") :
               id.file = y.file /\ id.names = {y.name} /\ y.file \notin Consumed(t, y.name)
  <2>1. id.rule \in DeadCodeRules
    BY <1>3 DEF DeadCodeRules
  <2>2. PICK d \in deadcode_analyze(t) : d.id = id
    BY <2>1, ReportedDeadCode
  <2>3. d \in flag_unused_exports(t)
    BY <1>2, <1>3, <2>2 DEF deadcode_analyze
  <2>4. PICK y \in Of(t, "export") : Dead(t, y) /\ id = ExportId(y)
    BY <1>1, <2>2, <2>3
  <2> QED BY <2>4 DEF Dead, ExportId, FindingId
<1>4. ASSUME id.rule = "unused-file" PROVE id.file \notin Live(t)
  <2>1. id.rule \in DeadCodeRules
    BY <1>4 DEF DeadCodeRules
  <2>2. PICK d \in deadcode_analyze(t) : d.id = id
    BY <2>1, ReportedDeadCode
  <2>3. d \in flag_unused_files(t)
    BY <1>1, <1>4, <2>2 DEF deadcode_analyze
  <2> QED BY <1>2, <2>2, <2>3
<1> QED BY <1>3, <1>4

--------------------------------------------------------------------------------
(* The theorems. *)

\* The tree is one a parser can read, and a run has reported on the tree it saw.
FindingsInv ==
  /\ IsTree(tree) /\ IsTree(indexed)
  /\ findings = {} \/ findings = run_analysis(indexed)

\* No edit and no fix breaks the tree.
LEMMA TreesStayTrees ==
  ASSUME IsTree(tree), Edit \/ fix_unused_export \/ fix_unused_file \/ fix_stale_suppression
  PROVE  IsTree(tree')
<1>1. CASE Edit
  <2>1. PICK s \in Statements :
          s.file \in tree.files /\ \E S \in {tree.statements \cup {s}, tree.statements \ {s}} :
                                   tree' = [tree EXCEPT !.statements = S]
    BY <1>1 DEF Edit
  <2>2. Parsed(s)
    BY FindingsAssumption
  <2>3. PICK S \in {tree.statements \cup {s}, tree.statements \ {s}} :
          tree' = [tree EXCEPT !.statements = S]
    BY <2>1
  <2>4. IsFiniteSet(S)
    BY FS_AddElement, FS_RemoveElement DEF IsTree
  <2> QED BY <2>1, <2>2, <2>3, <2>4 DEF IsTree
<1>2. CASE fix_unused_export
  <2>1. PICK s : tree' = [tree EXCEPT !.statements = @ \ {s}]
    BY <1>2 DEF fix_unused_export
  <2>2. IsFiniteSet(tree.statements \ {s})
    BY FS_RemoveElement DEF IsTree
  <2> QED BY <2>1, <2>2 DEF IsTree
<1>3. CASE fix_unused_file
  <2>1. PICK id : tree' = [tree EXCEPT !.files = @ \ {id.file}, !.broken = @ \ {id.file},
                             !.statements = {s \in @ : s.file # id.file},
                             !.suppressed = {p \in @ : p[1] # id.file}]
    BY <1>3 DEF fix_unused_file
  <2>2. IsFiniteSet(tree.files \ {id.file})
    BY FS_RemoveElement DEF IsTree
  <2>3. IsFiniteSet({s \in tree.statements : s.file # id.file})
    BY FS_Subset DEF IsTree
  <2> QED BY <2>1, <2>2, <2>3 DEF IsTree
<1>4. CASE fix_stale_suppression
  <2>1. PICK p : tree' = [tree EXCEPT !.suppressed = @ \ {p}]
    BY <1>4 DEF fix_stale_suppression
  <2> QED BY <2>1 DEF IsTree
<1> QED BY <1>1, <1>2, <1>3, <1>4

LEMMA FindingsInvariant == Spec => []FindingsInv
<1>1. Init => FindingsInv
  BY FindingsAssumption DEF Init, FindingsInv
<1>2. FindingsInv /\ [Next]_vars => FindingsInv'
  <2> SUFFICES ASSUME FindingsInv, [Next]_vars PROVE FindingsInv'
    OBVIOUS
  <2>1. CASE Index
    BY <2>1 DEF Index, FindingsInv
  <2>2. CASE Edit \/ fix_unused_export \/ fix_unused_file \/ fix_stale_suppression
    <3>1. findings' = findings /\ indexed' = indexed
      BY <2>2 DEF Edit, fix_unused_export, fix_unused_file, fix_stale_suppression
    <3> QED BY <2>2, <3>1, TreesStayTrees DEF FindingsInv
  <2>3. CASE UNCHANGED vars
    BY <2>3 DEF vars, FindingsInv
  <2> QED BY <2>1, <2>2, <2>3 DEF Next
<1> QED BY <1>1, <1>2, PTL DEF Spec

\* No rule and no other finding hides a finding: the ids of findings with other
\* evidence differ, one of every id is kept, what a suppression silences has its
\* line as evidence, and to drop the stale ones changes nothing else
\* (ReportIsComplete).
THEOREM NothingIsLost == Spec => []ReportIsComplete
<1>1. FindingsInv => ReportIsComplete
  <2> SUFFICES ASSUME FindingsInv, Fresh PROVE ReportIsComplete
    BY DEF ReportIsComplete
  <2>1. IsTree(tree) /\ findings = run_analysis(tree)
    BY DEF FindingsInv, Fresh
  <2> QED BY <2>1, RunIsComplete
<1> QED BY <1>1, FindingsInvariant, PTL

\* Triples of parameter names that the same functions take become one clump with
\* all functions that take its names, whatever other functions take some of them
\* (ClumpsExact).
THEOREM ClumpsAreExact == Spec => []ClumpsExact
BY ClumpsAreWhole, PTL

\* An export is reported as unused exactly if no chain of re-exports takes it to
\* a file that is in use, whatever the tree and whichever files do not parse
\* (DeadCodeExact).
THEOREM UnusedIsUnused == Spec => []DeadCodeExact
<1>1. FindingsInv => DeadCodeExact
  <2> SUFFICES ASSUME FindingsInv, Fresh, Unmixed(tree) PROVE DeadCodeExact
    BY DEF DeadCodeExact
  <2>1. IsTree(tree) /\ findings = run_analysis(tree)
    BY DEF FindingsInv, Fresh
  <2> QED BY <2>1, DeadCodeIsExactly
<1> QED BY <1>1, FindingsInvariant, PTL

FixInv == FindingsInv /\ edits \in Nat /\ (~ edited => PartOf(tree, indexed))

LEMMA FixInvariant == Spec => []FixInv
<1>1. Init => edits \in Nat /\ (~ edited => PartOf(tree, indexed))
  BY DEF Init, PartOf
<1>2. FindingsInv /\ edits \in Nat /\ (~ edited => PartOf(tree, indexed)) /\ [Next]_vars
        => (edits \in Nat /\ (~ edited => PartOf(tree, indexed)))'
  <2> SUFFICES ASSUME FindingsInv, edits \in Nat, ~ edited => PartOf(tree, indexed), [Next]_vars
               PROVE  (edits \in Nat /\ (~ edited => PartOf(tree, indexed)))'
    OBVIOUS
  <2>1. CASE Index
    BY <2>1 DEF Index, PartOf
  <2>2. CASE Edit
    BY <2>2 DEF Edit
  <2>3. CASE fix_unused_export
    <3>1. PICK s : tree' = [tree EXCEPT !.statements = @ \ {s}]
      BY <2>3 DEF fix_unused_export
    <3>2. tree'.files = tree.files /\ tree'.statements \subseteq tree.statements /\ tree'.broken = tree.broken
      BY <3>1 DEF FindingsInv, IsTree
    <3> QED BY <2>3, <3>2 DEF fix_unused_export, PartOf
  <2>4. CASE fix_unused_file
    <3>1. PICK f : tree' = [tree EXCEPT !.files = @ \ {f}, !.broken = @ \ {f},
                                        !.statements = {s \in @ : s.file # f},
                                        !.suppressed = {p \in @ : p[1] # f}]
      BY <2>4 DEF fix_unused_file
    <3>2. /\ tree'.files = tree.files \ {f} /\ tree'.statements \subseteq tree.statements
          /\ tree'.broken = tree.broken \ {f}
      BY <3>1 DEF FindingsInv, IsTree
    <3> QED BY <2>4, <3>2 DEF fix_unused_file, PartOf
  <2>5. CASE fix_stale_suppression
    <3>1. PICK p : tree' = [tree EXCEPT !.suppressed = @ \ {p}]
      BY <2>5 DEF fix_stale_suppression
    <3>2. tree'.files = tree.files /\ tree'.statements = tree.statements /\ tree'.broken = tree.broken
      BY <3>1 DEF FindingsInv, IsTree
    <3> QED BY <2>5, <3>2 DEF fix_stale_suppression, PartOf
  <2>6. CASE UNCHANGED vars
    BY <2>6 DEF vars, PartOf
  <2> QED BY <2>1, <2>2, <2>3, <2>4, <2>5, <2>6 DEF Next
<1> QED BY <1>1, <1>2, FindingsInvariant, PTL DEF Spec, FixInv

LEMMA ExportFixKeepsImports ==
  ASSUME FixInv, fix_unused_export, ~ edited, Unmixed(indexed),
         NEW s \in Of(tree, "import"), s.file \in bfs_reachable(tree), Satisfied(tree, s)
  PROVE  Satisfied(tree', s)
<1>1. IsTree(tree) /\ IsTree(indexed) /\ PartOf(tree, indexed)
  BY DEF FixInv, FindingsInv
<1>2. PICK id \in Found("unused-export") :
        \E x \in Of(tree, "export") :
          /\ x.file = id.file /\ x.line = id.line /\ {x.name} = id.names
          /\ tree' = [tree EXCEPT !.statements = @ \ {x}]
  BY DEF fix_unused_export
<1>3. PICK x \in Of(tree, "export") :
        x.file = id.file /\ {x.name} = id.names /\ tree' = [tree EXCEPT !.statements = @ \ {x}]
  BY <1>2
<1>4. id \in Ids(findings) /\ id.rule = "unused-export"
  BY DEF Found, Ids
<1>5. id \in Ids(run_analysis(indexed))
  BY <1>4 DEF FixInv, FindingsInv, Ids
<1>6. x.file \notin Consumed(indexed, x.name)
  BY <1>1, <1>3, <1>4, <1>5, FixedWasDead
<1>7. tree'.files = tree.files /\ tree'.broken = tree.broken /\ tree'.statements = tree.statements \ {x}
  BY <1>1, <1>3 DEF IsTree
<1>8. \A n : Hops(tree', n) = Hops(tree, n)
  BY <1>7 DEF Hops, Of, Internal, Imports
<1>9. s.to \in tree'.files /\ s.file \in Live(indexed)
  BY <1>1, <1>7, ReachableIsLive, PartsOfParts DEF Satisfied
<1>10. ASSUME NEW n \in s.names PROVE s.to \in Provides(tree', n)
  <2>1. PICK g \in Led(tree, n, s.to) : g \in Declaring(tree, n)
    BY ProvidedWhereLed DEF Satisfied
  <2>2. g \in Consumed(indexed, n)
    BY <1>1, <1>9, <2>1, ImportsLeadToConsumed DEF Satisfied
  <2>3. PICK y \in Of(tree, "export") : y.file = g /\ y.name = n
    BY <2>1 DEF Declaring
  <2>4. y # x
    BY <1>6, <2>2, <2>3
  <2>5. g \in Declaring(tree', n)
    BY <1>7, <2>3, <2>4 DEF Declaring, Of
  <2>6. g \in Led(tree', n, s.to)
    BY <1>7, <1>8, <2>1 DEF Led
  <2> QED BY <2>5, <2>6, ProvidedWhereLed
<1> QED BY <1>9, <1>10 DEF Satisfied

LEMMA FileFixKeepsImports ==
  ASSUME FixInv, fix_unused_file, ~ edited, Unmixed(indexed),
         NEW s \in Of(tree, "import"), s.file \in bfs_reachable(tree), Satisfied(tree, s)
  PROVE  Satisfied(tree', s)
<1>1. IsTree(tree) /\ IsTree(indexed) /\ PartOf(tree, indexed)
  BY DEF FixInv, FindingsInv
<1>2. PICK id \in Found("unused-file") :
        tree' = [tree EXCEPT !.files = @ \ {id.file}, !.broken = @ \ {id.file},
                             !.statements = {y \in @ : y.file # id.file},
                             !.suppressed = {p \in @ : p[1] # id.file}]
  BY DEF fix_unused_file
<1>3. id \in Ids(findings) /\ id.rule = "unused-file"
  BY DEF Found, Ids
<1>4. id \in Ids(run_analysis(indexed))
  BY <1>3 DEF FixInv, FindingsInv, Ids
<1>5. id.file \notin Live(indexed)
  BY <1>1, <1>3, <1>4, FixedWasDead
<1>6. /\ tree'.files = tree.files \ {id.file} /\ tree'.broken = tree.broken \ {id.file}
      /\ tree'.statements = {y \in tree.statements : y.file # id.file}
  BY <1>1, <1>2 DEF IsTree
<1>7. IsTree(tree')
  BY <1>1, TreesStayTrees
<1>8. s.file \in Live(indexed) /\ s \in Internal(indexed)
  BY <1>1, ReachableIsLive, PartsOfParts DEF Satisfied, Of, Internal, Imports
<1>9. s.to \in tree'.files
  BY <1>1, <1>5, <1>6, <1>8, LiveIsLeast DEF Satisfied
<1>10. ASSUME NEW n \in s.names PROVE s.to \in Provides(tree', n)
  <2>1. PICK g \in Led(tree, n, s.to) : g \in Declaring(tree, n)
    BY ProvidedWhereLed DEF Satisfied
  <2>2. Led(tree, n, s.to) \subseteq Live(indexed)
    BY <1>1, <1>8, ImportsLeadToConsumed DEF Satisfied
  <2> DEFINE T == Led(tree', n, s.to) \cap Live(indexed)
  <2>3. s.to \in T
    <3>1. s.to \in Live(indexed)
      BY <1>1, <1>8, LiveIsLeast
    <3> QED BY <1>7, <1>9, <3>1, LedIsLeast
  <2>4. ASSUME NEW h \in Hops(tree, n), h.file \in T PROVE h.to \in T
    <3>1. h \in Internal(indexed)
      BY <1>1, PartsOfParts DEF Hops
    <3>2. h.to \in Live(indexed) /\ h.file # id.file /\ h.to # id.file
      BY <1>1, <1>5, <2>4, <3>1, LiveIsLeast
    <3>3. h \in Hops(tree', n)
      BY <1>6, <3>2 DEF Hops, Of, Internal, Imports
    <3> QED BY <1>7, <1>9, <2>4, <3>2, <3>3, LedIsLeast
  <2>5. Led(tree, n, s.to) \subseteq T
    <3> HIDE DEF T
    <3>1. s.to \in tree.files
      BY DEF Satisfied
    <3> QED BY <1>1, <2>3, <2>4, <3>1, LedIsLeast
  <2>6. g \in Declaring(tree', n)
    <3>1. PICK y \in Of(tree, "export") : y.file = g /\ y.name = n
      BY <2>1 DEF Declaring
    <3>2. y \in Of(tree', "export")
      BY <1>5, <1>6, <2>1, <2>2, <3>1 DEF Of
    <3> QED BY <3>1, <3>2 DEF Declaring
  <2> QED BY <2>1, <2>5, <2>6, ProvidedWhereLed
<1> QED BY <1>9, <1>10 DEF Satisfied

\* However many exports and files were removed since the index run, the next
\* removal takes away nothing that an import in use still finds (FixKeepsImports).
THEOREM FixesKeepImports == Spec => FixKeepsImports
<1>1. FixInv /\ [Next]_vars =>
        [tree'.statements # tree.statements /\ ~ edited /\ edits' = edits /\ Unmixed(indexed) =>
           \A s \in Of(tree, "import") :
             s.file \in bfs_reachable(tree) /\ Satisfied(tree, s) => Satisfied(tree', s)]_vars
  <2> SUFFICES ASSUME FixInv, [Next]_vars, tree'.statements # tree.statements, ~ edited,
                      edits' = edits, Unmixed(indexed), NEW s \in Of(tree, "import"),
                      s.file \in bfs_reachable(tree), Satisfied(tree, s)
               PROVE  Satisfied(tree', s)
    OBVIOUS
  <2>1. CASE Index
    BY <2>1 DEF Index
  <2>2. CASE Edit
    BY <2>2 DEF Edit, FixInv
  <2>3. CASE fix_unused_export
    BY <2>3, ExportFixKeepsImports
  <2>4. CASE fix_unused_file
    BY <2>4, FileFixKeepsImports
  <2>5. CASE fix_stale_suppression
    <3>1. PICK p : tree' = [tree EXCEPT !.suppressed = @ \ {p}]
      BY <2>5 DEF fix_stale_suppression
    <3> QED BY <3>1 DEF FixInv, FindingsInv, IsTree
  <2>6. CASE UNCHANGED vars
    BY <2>6 DEF vars
  <2> QED BY <2>1, <2>2, <2>3, <2>4, <2>5, <2>6 DEF Next
<1> QED BY <1>1, FixInvariant, PTL DEF Spec, FixKeepsImports

--------------------------------------------------------------------------------
(* The search for flows is a breadth-first search over what it visits: a   *)
(* symbol, and whether input came with it.                                 *)

\* What the files say: symbols and routes are numbers, and there are finitely many.
AreFacts(facts) ==
  /\ IsFiniteSet(facts.apis) /\ \A a \in facts.apis : a.id \in Nat /\ a.handler \in Nat
  /\ IsFiniteSet(facts.calls) /\ \A c \in facts.calls : c.callee \in Nat
  /\ facts.accesses \in Seq(Range(facts.accesses))

FlowNodes(facts, route) == {route} \cup Targets(build_flow_graph(facts))
VisitNodes(facts, route) == FlowNodes(facts, route) \X BOOLEAN
VisitSteps(facts, route) ==
  {e \in VisitNodes(facts, route) \X VisitNodes(facts, route) :
     /\ e[2][1] \in forward(build_flow_graph(facts), e[1][1])
     /\ e[2][2] = tainted(facts, e[1])}
VisitNext(facts, route) ==
  [v \in VisitNodes(facts, route) |-> {u \in VisitNodes(facts, route) : <<v, u>> \in VisitSteps(facts, route)}]

LEMMA TaintedIsBoolean ==
  ASSUME NEW facts, NEW route, NEW at \in VisitNodes(facts, route)
  PROVE  tainted(facts, at) \in BOOLEAN
BY DEF tainted, VisitNodes

LEMMA TargetsAreFinite ==
  ASSUME NEW facts, AreFacts(facts)
  PROVE  IsFiniteSet(Targets(build_flow_graph(facts))) /\ Targets(build_flow_graph(facts)) \subseteq Nat
<1> DEFINE handled == {a \in facts.apis : a.handler # Unresolved}
           called == {c \in facts.calls : c.callee # Unresolved}
           handlers == {a.handler : a \in handled}
           callees == {c.callee : c \in called}
<1>1. IsFiniteSet(handled) /\ IsFiniteSet(called)
  <2>1. handled \in SUBSET facts.apis /\ called \in SUBSET facts.calls
    OBVIOUS
  <2> QED BY <2>1, FS_Subset DEF AreFacts
<1>2. Targets(build_flow_graph(facts)) = handlers \cup callees
  <2>1. ASSUME NEW x \in Targets(build_flow_graph(facts)) PROVE x \in handlers \cup callees
    BY <2>1 DEF Targets, build_flow_graph, Edge
  <2>2. ASSUME NEW x \in handlers PROVE x \in Targets(build_flow_graph(facts))
    <3>1. PICK a \in handled : x = a.handler
      BY <2>2
    <3>2. Edge(a.id, a.handler, "handles") \in build_flow_graph(facts)
      BY DEF build_flow_graph
    <3> QED BY <3>1, <3>2 DEF Targets, Edge
  <2>3. ASSUME NEW x \in callees PROVE x \in Targets(build_flow_graph(facts))
    <3>1. PICK c \in called : x = c.callee
      BY <2>3
    <3>2. Edge(c.caller, c.callee, "calls") \in build_flow_graph(facts)
      BY DEF build_flow_graph
    <3> QED BY <3>1, <3>2 DEF Targets, Edge
  <2> QED BY <2>1, <2>2, <2>3
<1>3. IsFiniteSet(handlers)
  <2> HIDE DEF handled
  <2>1. PICK f : f = [a \in handled |-> a.handler]
    OBVIOUS
  <2>2. f \in Surjection(handled, handlers)
    BY <2>1 DEF Surjection
  <2> HIDE DEF handlers
  <2> QED BY <1>1, <2>2, FS_Surjection
<1>4. IsFiniteSet(callees)
  <2> HIDE DEF called
  <2>1. PICK f : f = [c \in called |-> c.callee]
    OBVIOUS
  <2>2. f \in Surjection(called, callees)
    BY <2>1 DEF Surjection
  <2> HIDE DEF callees
  <2> QED BY <1>1, <2>2, FS_Surjection
<1>5. handlers \subseteq Nat /\ callees \subseteq Nat
  BY DEF AreFacts
<1> HIDE DEF handlers, callees
<1> QED BY <1>2, <1>3, <1>4, <1>5, FS_Union

LEMMA VisitsAreFew ==
  ASSUME NEW facts, AreFacts(facts), NEW route
  PROVE  /\ IsFiniteSet(VisitNodes(facts, route))
         /\ Cardinality(Targets(build_flow_graph(facts))) \in Nat
         /\ Cardinality(VisitNodes(facts, route)) <= 2 * (1 + Cardinality(Targets(build_flow_graph(facts))))
<1> DEFINE T == Targets(build_flow_graph(facts))
           N == T \cup {route}
<1>1. IsFiniteSet(T) /\ Cardinality(T) \in Nat
  BY TargetsAreFinite, FS_CardinalityType
<1> HIDE DEF T
<1>2. IsFiniteSet(N) /\ Cardinality(N) \in Nat /\ Cardinality(N) <= 1 + Cardinality(T)
  <2>1. IsFiniteSet(N) /\ (Cardinality(N) = Cardinality(T) \/ Cardinality(N) = Cardinality(T) + 1)
    BY <1>1, FS_AddElement
  <2> HIDE DEF N
  <2> QED BY <1>1, <2>1
<1>3. IsFiniteSet(BOOLEAN) /\ Cardinality(BOOLEAN) = 2
  <2>1. BOOLEAN = {TRUE} \cup {FALSE} /\ TRUE # FALSE
    OBVIOUS
  <2>2. ASSUME NEW x, NEW y, x # y
        PROVE  IsFiniteSet({x} \cup {y}) /\ Cardinality({x} \cup {y}) = 2
    <3>1. IsFiniteSet({x}) /\ Cardinality({x}) = 1 /\ y \notin {x}
      BY <2>2, FS_Singleton
    <3>2. IsFiniteSet({x} \cup {y}) /\ Cardinality({x} \cup {y}) = 1 + 1
      BY <3>1, FS_AddElement
    <3> QED BY <3>2
  <2>3. IsFiniteSet({TRUE} \cup {FALSE}) /\ Cardinality({TRUE} \cup {FALSE}) = 2
    BY <2>1, <2>2, Zenon
  <2> QED BY <2>1, <2>3, Zenon
<1> HIDE DEF N
<1>4. IsFiniteSet(N \X BOOLEAN) /\ Cardinality(N \X BOOLEAN) = Cardinality(N) * Cardinality(BOOLEAN)
  BY <1>2, <1>3, FS_Product
<1>5. VisitNodes(facts, route) = N \X BOOLEAN
  BY DEF VisitNodes, FlowNodes, N, T
<1>6. Cardinality(N) * 2 <= 2 * (1 + Cardinality(T))
  BY <1>1, <1>2
<1> QED BY <1>1, <1>3, <1>4, <1>5, <1>6 DEF T

LEMMA VisitsAreExplorable ==
  ASSUME NEW facts, AreFacts(facts), NEW route
  PROVE  Explorable(VisitNodes(facts, route), VisitNext(facts, route), VisitSteps(facts, route),
                    <<route, FALSE>>, FlowDepth)
<1>1. IsGraph(VisitNodes(facts, route), VisitSteps(facts, route))
  <2>1. IsFiniteSet(VisitNodes(facts, route))
    BY VisitsAreFew
  <2>2. \A e \in VisitSteps(facts, route) : e \in VisitNodes(facts, route) \X VisitNodes(facts, route)
    BY DEF VisitSteps
  <2> QED BY <2>1, <2>2 DEF IsGraph
<1>2. <<route, FALSE>> \in VisitNodes(facts, route)
  BY DEF VisitNodes, FlowNodes
<1>3. FlowDepth \in Nat
  BY FlowDepthIsPositive
<1>4. /\ DOMAIN VisitNext(facts, route) = VisitNodes(facts, route)
      /\ \A v \in VisitNodes(facts, route) :
           VisitNext(facts, route)[v] = {u \in VisitNodes(facts, route) : <<v, u>> \in VisitSteps(facts, route)}
  BY DEF VisitNext
<1> QED BY <1>1, <1>2, <1>3, <1>4 DEF Explorable

\* What a visit hands on.
LEMMA HandsOn ==
  ASSUME NEW facts, NEW route, NEW at \in VisitNodes(facts, route)
  PROVE  VisitNext(facts, route)[at] = {<<n, tainted(facts, at)>> : n \in forward(build_flow_graph(facts), at[1])}
<1>1. tainted(facts, at) \in BOOLEAN
  BY TaintedIsBoolean
<1>2. forward(build_flow_graph(facts), at[1]) \subseteq FlowNodes(facts, route)
  BY DEF forward, FlowNodes, Targets
<1>3. \A n \in forward(build_flow_graph(facts), at[1]) : <<n, tainted(facts, at)>> \in VisitNodes(facts, route)
  BY <1>1, <1>2 DEF VisitNodes
<1>4. \A u : u \in VisitNext(facts, route)[at] <=>
               /\ u \in VisitNodes(facts, route)
               /\ u[1] \in forward(build_flow_graph(facts), at[1])
               /\ u[2] = tainted(facts, at)
  BY DEF VisitNext, VisitSteps
<1>5. \A u \in VisitNodes(facts, route) : u = <<u[1], u[2]>>
  BY DEF VisitNodes
<1> QED BY <1>3, <1>4, <1>5

\* A visit does what the search may do.
LEMMA VisitMoves ==
  ASSUME NEW facts, AreFacts(facts), NEW route, NEW Q, NEW k \in Nat,
         ArePaths(Q, VisitNodes(facts, route), VisitSteps(facts, route), <<route, FALSE>>, FlowDepth)
  PROVE  QueueMoves(Visit(facts, build_flow_graph(facts), Q, k + 1), Q, k + 1,
                    VisitNodes(facts, route), VisitNext(facts, route), FlowDepth)
<1> DEFINE nodes == VisitNodes(facts, route)
           edges == build_flow_graph(facts)
           p == Q[k + 1]
           at == Last(p)
           carried == tainted(facts, at)
           S == Unvisited(Ends(Q), forward(edges, at[1]), carried)
           names == IF Len(p) > FlowDepth THEN <<>> ELSE Sorted(S, <)
           fresh == [i \in DOMAIN names |-> <<names[i], carried>>]
           R == Visit(facts, edges, Q, k + 1)
<1>1. FlowDepth \in Nat
  BY FlowDepthIsPositive
<1>2. Q \in Seq(Seq(nodes)) /\ Len(Q) \in Nat
  BY <1>1, PathTypes
<1>3. CASE ~ (k + 1 <= Len(Q))
  <2>1. k + 1 > Len(Q)
    BY <1>2, <1>3
  <2>2. R = Q
    BY <2>1, Zenon DEF Visit
  <2> HIDE DEF R, nodes, edges
  <2>3. QueueMoves(R, Q, k + 1, nodes, VisitNext(facts, route), FlowDepth)
    BY <1>3, <2>2 DEF QueueMoves
  <2> QED BY <2>3 DEF R, nodes, edges
<1>4. CASE k + 1 <= Len(Q)
  <2>1. p \in Seq(nodes) /\ Len(p) \in Nat /\ at \in nodes
    <3>1. k + 1 \in 1 .. Len(Q)
      BY <1>2, <1>4
    <3> QED BY <1>1, <3>1, PathTypes
  <2>2. carried \in BOOLEAN
    BY <2>1, TaintedIsBoolean
  <2>3. VisitNext(facts, route)[at] = {<<n, carried>> : n \in forward(edges, at[1])}
    BY <2>1, HandsOn
  <2>4. IsFiniteSet(S) /\ S \subseteq Nat /\ S \subseteq Targets(edges)
    <3>1. S \in SUBSET Targets(edges)
      BY DEF Unvisited, forward, Targets
    <3> HIDE DEF S, edges
    <3>2. IsFiniteSet(Targets(edges)) /\ Targets(edges) \subseteq Nat
      BY TargetsAreFinite DEF edges
    <3> QED BY <3>1, <3>2, FS_Subset
  <2>5. R = Q \o [i \in DOMAIN names |-> Append(p, <<names[i], carried>>)]
    <3>1. ~ (k + 1 > Len(Q))
      BY <1>2, <1>4
    <3> QED BY <3>1, Zenon DEF Visit
  <2> HIDE DEF R, S
  <2>6. /\ names \in Seq(Nat)
        /\ Range(names) = IF Len(p) > FlowDepth THEN {} ELSE S
        /\ \A i, j \in DOMAIN names : names[i] = names[j] => i = j
    <3>1. CASE Len(p) > FlowDepth
      <4>1. names = <<>>
        BY <3>1, Zenon
      <4> HIDE DEF names
      <4>2. DOMAIN names = {}
        BY <4>1
      <4> QED BY <3>1, <4>1, <4>2 DEF Range
    <3>2. CASE ~ (Len(p) > FlowDepth)
      <4>1. names = Sorted(S, <)
        BY <3>2
      <4>2. /\ Sorted(S, <) \in Seq(S) /\ Range(Sorted(S, <)) = S
            /\ \A i, j \in DOMAIN Sorted(S, <) : Sorted(S, <)[i] = Sorted(S, <)[j] => i = j
        BY <2>4, NumbersInOrder
      <4> HIDE DEF names
      <4>3. names \in Seq(Nat)
        <5>1. PICK n \in Nat : names \in [1 .. n -> S]
          BY <4>1, <4>2, SeqDef
        <5>2. names \in [1 .. n -> Nat]
          BY <2>4, <5>1
        <5> QED BY <5>2, SeqDef
      <4> QED BY <3>2, <4>1, <4>2, <4>3
    <3> QED BY <3>1, <3>2
  <2> HIDE DEF names
  <2>7. PICK n \in Nat : n = Len(names) /\ DOMAIN names = 1 .. n
    BY <2>6
  <2>8. \A i \in 1 .. n : <<names[i], carried>> \in nodes
    <3>1. \A i \in 1 .. n : names[i] \in S
      BY <2>6, <2>7 DEF Range
    <3>2. \A i \in 1 .. n : names[i] \in FlowNodes(facts, route)
      BY <2>4, <3>1 DEF FlowNodes
    <3> HIDE DEF carried
    <3> QED BY <2>2, <3>2 DEF VisitNodes
  <2>9. fresh \in Seq(nodes) /\ Len(fresh) = n /\ DOMAIN fresh = 1 .. n
        /\ \A i \in 1 .. n : fresh[i] = <<names[i], carried>>
    <3>1. fresh \in [1 .. n -> nodes] /\ \A i \in 1 .. n : fresh[i] = <<names[i], carried>>
      BY <2>7, <2>8
    <3> HIDE DEF fresh
    <3> QED BY <3>1, SeqDef
  <2> HIDE DEF carried, at, p
  <2>10. Range(fresh) = {<<m, carried>> : m \in Range(names)}
    <3>1. \A m : m \in Range(names) <=> \E i \in 1 .. n : m = names[i]
      BY <2>7 DEF Range
    <3>2. \A u : u \in Range(fresh) <=> \E i \in 1 .. n : u = fresh[i]
      BY <2>9 DEF Range
    <3> HIDE DEF fresh
    <3>3. ASSUME NEW u \in Range(fresh) PROVE \E m \in Range(names) : u = <<m, carried>>
      <4>1. PICK i \in 1 .. n : u = fresh[i]
        BY <3>2
      <4> QED BY <2>9, <3>1, <4>1
    <3>4. ASSUME NEW m \in Range(names) PROVE <<m, carried>> \in Range(fresh)
      <4>1. PICK i \in 1 .. n : m = names[i]
        BY <3>1
      <4>2. fresh[i] = <<m, carried>>
        BY <2>9, <4>1
      <4> QED BY <3>2, <4>2
    <3> QED BY <3>3, <3>4
  <2> HIDE DEF fresh
  <2>11. Range(fresh) = IF Len(p) > FlowDepth THEN {} ELSE VisitNext(facts, route)[at] \ Ends(Q)
    <3>1. CASE Len(p) > FlowDepth
      <4>1. Range(names) = {}
        BY <2>6, <3>1
      <4> QED BY <2>10, <3>1, <4>1
    <3>2. CASE ~ (Len(p) > FlowDepth)
      <4>1. Range(names) = S
        BY <2>6, <3>2
      <4>2. \A m : m \in S <=> m \in forward(edges, at[1]) /\ <<m, carried>> \notin Ends(Q)
        BY DEF S, Unvisited
      <4>3. Range(fresh) = VisitNext(facts, route)[at] \ Ends(Q)
        <5> HIDE DEF edges
        <5> QED BY <2>3, <2>10, <4>1, <4>2
      <4> QED BY <3>2, <4>3
    <3> QED BY <3>1, <3>2
  <2>12. \A i, j \in 1 .. n : fresh[i] = fresh[j] => i = j
    BY <2>6, <2>7, <2>9
  <2>13. R = Q \o [i \in DOMAIN fresh |-> Append(p, fresh[i])]
    <3>1. [i \in DOMAIN names |-> Append(p, <<names[i], carried>>)] = [i \in DOMAIN fresh |-> Append(p, fresh[i])]
      BY <2>7, <2>9
    <3> QED BY <2>5, <3>1
  <2> HIDE DEF nodes
  <2>14. /\ R \in Seq(Seq(nodes)) /\ Len(R) = Len(Q) + Len(fresh)
         /\ \A i \in 1 .. Len(Q) : R[i] = Q[i]
         /\ \A i \in 1 .. Len(fresh) : R[Len(Q) + i] = Append(p, fresh[i])
    BY <1>2, <2>1, <2>9, <2>13, Lengthened
  <2>15. Joined(fresh, R, Q, k + 1, VisitNext(facts, route), FlowDepth)
    BY <2>9, <2>11, <2>12, <2>14 DEF Joined, at, p
  <2>16. QueueMoves(R, Q, k + 1, nodes, VisitNext(facts, route), FlowDepth)
    BY <1>4, <2>9, <2>14, <2>15 DEF QueueMoves
  <2> QED BY <2>16 DEF R, nodes, edges
<1> QED BY <1>3, <1>4

FirstVisit(route) == <<<< <<route, FALSE>> >>>>

\* The visits after each left the queue.
IsVisited(h, n, facts, route) ==
  /\ h[0] = FirstVisit(route)
  /\ \A i \in Nat : i < n => h[i + 1] = Visit(facts, build_flow_graph(facts), h[i], i + 1)

LEMMA VisitedExists ==
  ASSUME NEW facts, NEW route
  PROVE  \A n \in Nat : \E h : IsVisited(h, n, facts, route)
<1> DEFINE good == {n \in Nat : \E h : IsVisited(h, n, facts, route)}
<1>1. 0 \in good
  <2> DEFINE h == [i \in Nat |-> FirstVisit(route)]
  <2>1. IsVisited(h, 0, facts, route)
    BY DEF IsVisited
  <2> QED BY <2>1
<1>2. ASSUME NEW n \in Nat, n \in good PROVE n + 1 \in good
  <2>1. PICK h : IsVisited(h, n, facts, route)
    BY <1>2
  <2> DEFINE g == [i \in Nat |-> IF i <= n THEN h[i] ELSE Visit(facts, build_flow_graph(facts), h[n], n + 1)]
  <2>2. g[0] = FirstVisit(route)
    BY <2>1 DEF IsVisited
  <2>3. ASSUME NEW i \in Nat, i < n + 1 PROVE g[i + 1] = Visit(facts, build_flow_graph(facts), g[i], i + 1)
    <3>1. CASE i < n
      BY <2>1, <3>1 DEF IsVisited
    <3>2. CASE i = n
      BY <3>2
    <3> QED BY <2>3, <3>1, <3>2
  <2> HIDE DEF g
  <2>4. IsVisited(g, n + 1, facts, route)
    BY <2>2, <2>3 DEF IsVisited
  <2> QED BY <2>4
<1> HIDE DEF good
<1>3. \A n \in Nat : n \in good
  BY <1>1, <1>2, AllNumbers
<1> QED BY <1>3 DEF good

LEMMA VisitedAgree ==
  ASSUME NEW facts, NEW route, NEW h, NEW g, NEW n \in Nat,
         IsVisited(h, n, facts, route), IsVisited(g, n, facts, route)
  PROVE  \A i \in Nat : i <= n => h[i] = g[i]
<1> DEFINE same == {i \in Nat : i <= n => h[i] = g[i]}
<1>1. 0 \in same
  BY DEF IsVisited
<1>2. ASSUME NEW i \in Nat, i \in same PROVE i + 1 \in same
  BY <1>2 DEF IsVisited
<1> HIDE DEF same
<1>3. \A i \in Nat : i \in same
  BY <1>1, <1>2, AllNumbers
<1> QED BY <1>3 DEF same

AreVisits(q, facts, route) ==
  q = [k \in Nat |-> IF k = 0 THEN FirstVisit(route)
                     ELSE Visit(facts, build_flow_graph(facts), q[k - 1], k)]

\* The function that visits defines exists.
LEMMA VisitsExist ==
  ASSUME NEW facts, NEW route
  PROVE  \E q : AreVisits(q, facts, route)
<1> DEFINE taken(n) == CHOOSE h : IsVisited(h, n, facts, route)
           q == [n \in Nat |-> taken(n)[n]]
           next(Q, n) == Visit(facts, build_flow_graph(facts), Q, n)
<1>1. \A n \in Nat : IsVisited(taken(n), n, facts, route)
  BY VisitedExists
<1> HIDE DEF taken
<1>2. q[0] = FirstVisit(route)
  BY <1>1 DEF IsVisited
<1>3. ASSUME NEW n \in Nat PROVE q[n + 1] = next(q[n], n + 1)
  <2>1. IsVisited(taken(n), n, facts, route) /\ IsVisited(taken(n + 1), n, facts, route)
    BY <1>1 DEF IsVisited
  <2>2. taken(n + 1)[n] = taken(n)[n]
    BY <2>1, VisitedAgree
  <2>3. taken(n + 1)[n + 1] = next(taken(n + 1)[n], n + 1)
    BY <1>1 DEF IsVisited
  <2> QED BY <2>2, <2>3
<1> HIDE DEF next
<1>4. \A n \in Nat : q[n] = IF n = 0 THEN FirstVisit(route) ELSE next(q[n - 1], n)
  <2> SUFFICES ASSUME NEW n \in Nat, n # 0 PROVE q[n] = next(q[n - 1], n)
    BY <1>2
  <2>1. n - 1 \in Nat /\ (n - 1) + 1 = n
    OBVIOUS
  <2> HIDE DEF q
  <2> QED BY <1>3, <2>1
<1>5. q = [n \in Nat |-> q[n]]
  OBVIOUS
<1> HIDE DEF q
<1>6. AreVisits(q, facts, route)
  BY <1>4, <1>5 DEF AreVisits, next
<1> QED BY <1>6

LEMMA VisitsAreQueue ==
  ASSUME NEW facts, AreFacts(facts), NEW route
  PROVE  \E q : /\ IsQueue(q, VisitNodes(facts, route), VisitNext(facts, route), VisitSteps(facts, route),
                           <<route, FALSE>>, FlowDepth)
                /\ visits(facts, route) = q[2 * (1 + Cardinality(Targets(build_flow_graph(facts))))]
<1> DEFINE queued == CHOOSE q : AreVisits(q, facts, route)
           n == 2 * (1 + Cardinality(Targets(build_flow_graph(facts))))
<1>1. \E q : AreVisits(q, facts, route)
  BY VisitsExist
<1>2. visits(facts, route) = queued[n]
  BY DEF visits, AreVisits, FirstVisit
<1>3. AreVisits(queued, facts, route)
  BY <1>1
<1> HIDE DEF queued
<1>4. queued[0] = FirstVisit(route)
  BY <1>3 DEF AreVisits
<1>5. ASSUME NEW k \in Nat PROVE queued[k + 1] = Visit(facts, build_flow_graph(facts), queued[k], k + 1)
  <2>1. k + 1 \in Nat /\ k + 1 # 0 /\ (k + 1) - 1 = k
    OBVIOUS
  <2>2. queued[k + 1] = Visit(facts, build_flow_graph(facts), queued[(k + 1) - 1], k + 1)
    BY <1>3, <2>1 DEF AreVisits
  <2> QED BY <2>1, <2>2
<1>6. ASSUME NEW k \in Nat,
             ArePaths(queued[k], VisitNodes(facts, route), VisitSteps(facts, route), <<route, FALSE>>, FlowDepth)
      PROVE  QueueMoves(queued[k + 1], queued[k], k + 1, VisitNodes(facts, route), VisitNext(facts, route), FlowDepth)
  BY <1>5, <1>6, VisitMoves
<1>7. IsQueue(queued, VisitNodes(facts, route), VisitNext(facts, route), VisitSteps(facts, route),
              <<route, FALSE>>, FlowDepth)
  BY <1>4, <1>6 DEF IsQueue, FirstVisit
<1> QED BY <1>2, <1>7

\* What is visited: all that lies within the depth, each once, by shortest ways, nearer first.
LEMMA VisitsAreExact ==
  ASSUME NEW facts, AreFacts(facts), NEW route, NEW w,
         IsSteps(w, {<<route, FALSE>>}, VisitSteps(facts, route))
  PROVE  \E k : /\ QueueInv(visits(facts, route), k, w, VisitNodes(facts, route), VisitSteps(facts, route),
                            <<route, FALSE>>, FlowDepth)
                /\ Ends(visits(facts, route)) = w[FlowDepth]
<1> DEFINE n == 2 * (1 + Cardinality(Targets(build_flow_graph(facts))))
<1>1. PICK q : /\ IsQueue(q, VisitNodes(facts, route), VisitNext(facts, route), VisitSteps(facts, route),
                          <<route, FALSE>>, FlowDepth)
               /\ visits(facts, route) = q[n]
  BY VisitsAreQueue
<1>2. n \in Nat /\ Cardinality(VisitNodes(facts, route)) <= n
  BY VisitsAreFew
<1> HIDE DEF n
<1>3. Explorable(VisitNodes(facts, route), VisitNext(facts, route), VisitSteps(facts, route),
                 <<route, FALSE>>, FlowDepth)
  BY VisitsAreExplorable
<1>4. /\ QueueInv(q[n], n, w, VisitNodes(facts, route), VisitSteps(facts, route), <<route, FALSE>>, FlowDepth)
      /\ Ends(q[n]) = w[FlowDepth]
  <2>1. PICK start : start = <<route, FALSE>>
    OBVIOUS
  <2>2. QueueInv(q[n], n, w, VisitNodes(facts, route), VisitSteps(facts, route), start, FlowDepth) /\ Ends(q[n]) = w[FlowDepth]
    <3>1. Explorable(VisitNodes(facts, route), VisitNext(facts, route), VisitSteps(facts, route), start, FlowDepth)
      BY <1>3, <2>1
    <3>2. IsQueue(q, VisitNodes(facts, route), VisitNext(facts, route), VisitSteps(facts, route), start, FlowDepth)
      BY <1>1, <2>1
    <3>3. IsSteps(w, {start}, VisitSteps(facts, route))
      BY <2>1
    <3> QED BY <1>2, <3>1, <3>2, <3>3, QueueIsExact
  <2> QED BY <2>1, <2>2
<1> QED BY <1>1, <1>4

\* Whether something before place i of the way p reads the request.
Carried(facts, p, i) == \E j \in 1 .. i - 1 : p[j] \in facts.client_inputs

LEMMA CarriedGoesOn ==
  ASSUME NEW facts, NEW p, NEW i \in Nat
  PROVE  /\ Carried(facts, p, i + 1) \in BOOLEAN
         /\ Carried(facts, p, i + 1) <=> (Carried(facts, p, i) \/ (i >= 1 /\ p[i] \in facts.client_inputs))
<1>1. ASSUME NEW j \in 1 .. (i + 1) - 1 PROVE j \in 1 .. i - 1 \/ (j = i /\ i >= 1)
  OBVIOUS
<1>2. \A j \in 1 .. i - 1 : j \in 1 .. (i + 1) - 1
  OBVIOUS
<1>3. i >= 1 => i \in 1 .. (i + 1) - 1
  OBVIOUS
<1> QED BY <1>1, <1>2, <1>3 DEF Carried

LEMMA CarriedIsRead ==
  ASSUME NEW facts, NEW p, NEW len \in Nat, DOMAIN p = 1 .. len, len >= 1, NEW at,
         at[1] = p[len], at[2] <=> Carried(facts, p, len)
  PROVE  tainted(facts, at) <=> ReadsRequest(facts, p)
<1>1. \A j : j \in 1 .. len <=> j \in 1 .. len - 1 \/ j = len
  OBVIOUS
<1> QED BY <1>1 DEF Carried, tainted, ReadsRequest

\* A way that is queued is one in the code, and input came with it if something reads it.
LEMMA WayIsInCode ==
  ASSUME NEW facts, NEW route, NEW way \in Seq(VisitNodes(facts, route)), Len(way) \in 1 .. FlowDepth + 1,
         way[1] = <<route, FALSE>>,
         \A j \in 2 .. Len(way) : <<way[j - 1], way[j]>> \in VisitSteps(facts, route),
         NEW p, p = [i \in DOMAIN way |-> way[i][1]]
  PROVE  /\ p \in Ways(facts, route) /\ Len(p) = Len(way) /\ Last(p) = Last(way)[1]
         /\ tainted(facts, Last(way)) <=> ReadsRequest(facts, p)
<1>1. PICK len \in Nat : len = Len(way) /\ DOMAIN way = 1 .. len
  OBVIOUS
<1>2. FlowDepth \in Nat /\ len \in 1 .. FlowDepth + 1
  BY <1>1, FlowDepthIsPositive
<1>3. \A i \in 1 .. len : way[i] \in VisitNodes(facts, route)
  BY <1>1
<1>4. p \in [1 .. len -> FlowNodes(facts, route)] /\ \A i \in 1 .. len : p[i] = way[i][1]
  BY <1>1, <1>3 DEF VisitNodes
<1>5. Len(p) = len /\ DOMAIN p = 1 .. len
  BY <1>4, ChainLength
<1>6. p[1] = route
  BY <1>2, <1>4
<1>7. ASSUME NEW i \in 1 .. len - 1
      PROVE  p[i + 1] \in forward(build_flow_graph(facts), p[i]) /\ way[i + 1][2] = tainted(facts, way[i])
  <2>1. i + 1 \in 2 .. Len(way) /\ (i + 1) - 1 = i /\ i \in 1 .. len /\ i + 1 \in 1 .. len
    BY <1>1
  <2>2. <<way[i], way[i + 1]>> \in VisitSteps(facts, route)
    BY <2>1
  <2>3. way[i + 1][1] \in forward(build_flow_graph(facts), way[i][1]) /\ way[i + 1][2] = tainted(facts, way[i])
    BY <2>2 DEF VisitSteps
  <2> QED BY <1>4, <2>1, <2>3
<1>8. p \in Ways(facts, route)
  <2>1. HandsOver(build_flow_graph(facts), p)
    BY <1>5, <1>7 DEF HandsOver
  <2> QED BY <1>2, <1>4, <1>6, <2>1 DEF Ways, FlowNodes
<1> DEFINE told == {i \in Nat : i + 1 <= len => (way[i + 1][2] <=> Carried(facts, p, i + 1))}
<1>9. 0 \in told
  <2>1. way[1][2] = FALSE
    OBVIOUS
  <2>2. Carried(facts, p, 1) = FALSE
    BY DEF Carried
  <2>3. way[1][2] <=> Carried(facts, p, 1)
    BY <2>1, <2>2, Zenon
  <2>4. 0 + 1 = 1
    OBVIOUS
  <2>5. way[0 + 1][2] <=> Carried(facts, p, 0 + 1)
    BY <2>3, <2>4, Zenon
  <2> QED BY <2>5
<1>10. ASSUME NEW i \in Nat, i \in told PROVE i + 1 \in told
  <2> SUFFICES ASSUME (i + 1) + 1 <= len PROVE way[(i + 1) + 1][2] <=> Carried(facts, p, (i + 1) + 1)
    OBVIOUS
  <2>1. i + 1 \in 1 .. len - 1 /\ i + 1 <= len /\ i + 1 \in Nat /\ i + 1 >= 1 /\ i + 1 \in 1 .. len
    BY <1>2
  <2>2. way[(i + 1) + 1][2] = tainted(facts, way[i + 1])
    BY <1>7, <2>1
  <2>3. way[i + 1][2] <=> Carried(facts, p, i + 1)
    BY <1>10, <2>1
  <2>4. Carried(facts, p, (i + 1) + 1) <=> (Carried(facts, p, i + 1) \/ p[i + 1] \in facts.client_inputs)
    BY <2>1, CarriedGoesOn
  <2>5. p[i + 1] = way[i + 1][1]
    BY <1>4, <2>1
  <2> QED BY <2>2, <2>3, <2>4, <2>5 DEF tainted
<1> HIDE DEF told
<1>11. \A i \in Nat : i \in told
  BY <1>9, <1>10, AllNumbers
<1>12. way[len][2] <=> Carried(facts, p, len)
  <2>1. len - 1 \in Nat /\ (len - 1) + 1 = len /\ (len - 1) + 1 <= len
    BY <1>2
  <2>2. len - 1 \in told
    BY <1>11, <2>1
  <2> QED BY <2>1, <2>2 DEF told
<1>13. Last(way) = way[len] /\ Last(p) = p[len] /\ p[len] = way[len][1]
  BY <1>1, <1>2, <1>4, <1>5 DEF Last
<1>14. tainted(facts, way[len]) <=> ReadsRequest(facts, p)
  BY <1>2, <1>5, <1>12, <1>13, CarriedIsRead
<1> QED BY <1>1, <1>5, <1>8, <1>13, <1>14

\* A way in the code ends where the search comes, with input if something on it reads it.
LEMMA WayIsSearched ==
  ASSUME NEW facts, NEW route, NEW w, IsSteps(w, {<<route, FALSE>>}, VisitSteps(facts, route)),
         NEW p \in Ways(facts, route)
  PROVE  /\ Len(p) \in 1 .. FlowDepth + 1
         /\ \E at \in w[Len(p) - 1] : at[1] = Last(p) /\ (tainted(facts, at) <=> ReadsRequest(facts, p))
<1>1. PICK len \in 1 .. FlowDepth + 1 : p \in [1 .. len -> FlowNodes(facts, route)]
  BY DEF Ways, FlowNodes
<1>2. FlowDepth \in Nat /\ len \in Nat /\ len >= 1
  BY <1>1, FlowDepthIsPositive
<1>3. Len(p) = len /\ DOMAIN p = 1 .. len
  BY <1>1, <1>2, ChainLength
<1>4. p[1] = route /\ \A i \in 1 .. len - 1 : p[i + 1] \in forward(build_flow_graph(facts), p[i])
  BY <1>3 DEF Ways, HandsOver
<1> DEFINE at(i) == <<p[i], Carried(facts, p, i)>>
           near == {i \in Nat : i + 1 <= len => at(i + 1) \in w[i]}
<1>5. \A i \in 1 .. len : at(i) \in VisitNodes(facts, route)
  BY <1>1 DEF VisitNodes, Carried
<1>6. 0 \in near
  <2>1. Carried(facts, p, 1) = FALSE
    BY DEF Carried
  <2>2. at(1) = <<route, FALSE>>
    BY <1>4, <2>1, Zenon
  <2>3. at(1) \in w[0]
    BY <2>2 DEF IsSteps
  <2>4. 0 + 1 = 1
    OBVIOUS
  <2>5. at(0 + 1) \in w[0]
    BY <2>3, <2>4, Zenon
  <2> HIDE DEF at
  <2> QED BY <2>5
<1>7. ASSUME NEW i \in Nat, i \in near PROVE i + 1 \in near
  <2> SUFFICES ASSUME (i + 1) + 1 <= len PROVE at((i + 1) + 1) \in w[i + 1]
    OBVIOUS
  <2>1. i + 1 \in 1 .. len - 1 /\ i + 1 \in 1 .. len /\ (i + 1) + 1 \in 1 .. len /\ i + 1 \in Nat /\ i + 1 >= 1
        /\ i + 1 <= len
    BY <1>2
  <2>2. at(i + 1) \in w[i]
    BY <1>7, <2>1
  <2>3. p[(i + 1) + 1] \in forward(build_flow_graph(facts), p[i + 1])
    BY <1>4, <2>1
  <2>4. Carried(facts, p, (i + 1) + 1) <=> (Carried(facts, p, i + 1) \/ p[i + 1] \in facts.client_inputs)
    BY <2>1, CarriedGoesOn
  <2>5. Carried(facts, p, (i + 1) + 1) = tainted(facts, at(i + 1))
    <3>1. Carried(facts, p, (i + 1) + 1) \in BOOLEAN
      BY <2>1, CarriedGoesOn
    <3>2. Carried(facts, p, (i + 1) + 1) <=> tainted(facts, at(i + 1))
      BY <2>4 DEF tainted
    <3>3. tainted(facts, at(i + 1)) \in BOOLEAN
      BY <1>5, <2>1, TaintedIsBoolean
    <3> QED BY <3>1, <3>2, <3>3
  <2>6. at(i + 1)[1] = p[i + 1] /\ at((i + 1) + 1)[1] = p[(i + 1) + 1]
        /\ at((i + 1) + 1)[2] = Carried(facts, p, (i + 1) + 1)
    OBVIOUS
  <2>7. at(i + 1) \in VisitNodes(facts, route) /\ at((i + 1) + 1) \in VisitNodes(facts, route)
    BY <1>5, <2>1
  <2> HIDE DEF at
  <2>8. <<at(i + 1), at((i + 1) + 1)>> \in VisitSteps(facts, route)
    BY <2>3, <2>5, <2>6, <2>7 DEF VisitSteps
  <2>9. w[i + 1] = Onward(w[i], VisitSteps(facts, route))
    BY DEF IsSteps
  <2> QED BY <2>2, <2>8, <2>9 DEF Onward
<1> HIDE DEF near
<1>8. \A i \in Nat : i \in near
  BY <1>6, <1>7, AllNumbers
<1>9. at(len) \in w[len - 1]
  <2>1. len - 1 \in Nat /\ (len - 1) + 1 = len /\ (len - 1) + 1 <= len
    BY <1>2
  <2>2. len - 1 \in near
    BY <1>8, <2>1
  <2> QED BY <2>1, <2>2 DEF near
<1>10. at(len)[1] = p[len] /\ (at(len)[2] <=> Carried(facts, p, len)) /\ Last(p) = p[len]
  BY <1>3 DEF Last
<1> HIDE DEF at
<1>11. tainted(facts, at(len)) <=> ReadsRequest(facts, p)
  BY <1>2, <1>3, <1>10, CarriedIsRead
<1> QED BY <1>1, <1>3, <1>9, <1>10, <1>11

Named(way) == [i \in DOMAIN way |-> way[i][1]]

\* The ways that are queued are those in the code, as far as their ends go: none is longer
\* than it need be, and they come by length.
WaysAreFound(Q, facts, route) ==
  /\ Len(Q) \in Nat /\ DOMAIN Q = 1 .. Len(Q)
  /\ \A k \in DOMAIN Q : /\ Named(Q[k]) \in Ways(facts, route)
                         /\ Len(Q[k]) \in Nat /\ Len(Named(Q[k])) = Len(Q[k])
                         /\ Last(Named(Q[k])) = Last(Q[k])[1]
                         /\ tainted(facts, Last(Q[k])) <=> ReadsRequest(facts, Named(Q[k]))
  /\ \A p \in Ways(facts, route) :
       \E k \in DOMAIN Q : /\ Last(Q[k])[1] = Last(p) /\ Len(Q[k]) <= Len(p)
                           /\ tainted(facts, Last(Q[k])) <=> ReadsRequest(facts, p)
  /\ \A p \in Ways(facts, route) : Len(p) \in Nat
  /\ \A i, j \in DOMAIN Q : i <= j => Len(Q[i]) <= Len(Q[j])

LEMMA WaysAreExact ==
  ASSUME NEW facts, AreFacts(facts), NEW route
  PROVE  WaysAreFound(visits(facts, route), facts, route)
<1>1. PICK Q : Q = visits(facts, route)
  OBVIOUS
<1>2. PICK w : IsSteps(w, {<<route, FALSE>>}, VisitSteps(facts, route))
  BY ClosureSteps
<1>3. PICK n : /\ QueueInv(visits(facts, route), n, w, VisitNodes(facts, route), VisitSteps(facts, route),
                           <<route, FALSE>>, FlowDepth)
               /\ Ends(visits(facts, route)) = w[FlowDepth]
  BY <1>2, VisitsAreExact
<1>4. FlowDepth \in Nat
  BY FlowDepthIsPositive
<1>5. /\ ArePaths(Q, VisitNodes(facts, route), VisitSteps(facts, route), <<route, FALSE>>, FlowDepth)
      /\ AreShortest(Q, w) /\ AreOrdered(Q, n) /\ Ends(Q) = w[FlowDepth]
  BY <1>1, <1>3 DEF QueueInv
<1>6. /\ Q \in Seq(Seq(VisitNodes(facts, route))) /\ Len(Q) \in Nat /\ DOMAIN Q = 1 .. Len(Q)
      /\ \A k \in 1 .. Len(Q) : Q[k] \in Seq(VisitNodes(facts, route)) /\ Len(Q[k]) \in Nat
  BY <1>4, <1>5, PathTypes
<1>7. ASSUME NEW k \in 1 .. Len(Q)
      PROVE  /\ Named(Q[k]) \in Ways(facts, route) /\ Len(Named(Q[k])) = Len(Q[k])
             /\ Last(Named(Q[k])) = Last(Q[k])[1]
             /\ tainted(facts, Last(Q[k])) <=> ReadsRequest(facts, Named(Q[k]))
  <2>1. PICK way : way = Q[k]
    OBVIOUS
  <2>2. way \in Seq(VisitNodes(facts, route))
    BY <1>6, <2>1
  <2>3. /\ Len(way) \in 1 .. FlowDepth + 1 /\ way[1] = <<route, FALSE>>
        /\ \A j \in 2 .. Len(way) : <<way[j - 1], way[j]>> \in VisitSteps(facts, route)
    BY <1>5, <2>1 DEF ArePaths
  <2>4. PICK p : p = Named(way)
    OBVIOUS
  <2>5. p = [i \in DOMAIN way |-> way[i][1]]
    BY <2>4 DEF Named
  <2>6. /\ p \in Ways(facts, route) /\ Len(p) = Len(way) /\ Last(p) = Last(way)[1]
        /\ tainted(facts, Last(way)) <=> ReadsRequest(facts, p)
    BY <2>2, <2>3, <2>5, WayIsInCode
  <2> QED BY <2>1, <2>4, <2>6
<1>8. ASSUME NEW p \in Ways(facts, route)
      PROVE  /\ Len(p) \in Nat
             /\ \E k \in 1 .. Len(Q) : /\ Last(Q[k])[1] = Last(p) /\ Len(Q[k]) <= Len(p)
                                       /\ tainted(facts, Last(Q[k])) <=> ReadsRequest(facts, p)
  <2>1. Len(p) \in 1 .. FlowDepth + 1
    BY <1>2, WayIsSearched
  <2>2. PICK at \in w[Len(p) - 1] : at[1] = Last(p) /\ (tainted(facts, at) <=> ReadsRequest(facts, p))
    BY <1>2, WayIsSearched
  <2>3. Len(p) - 1 \in Nat /\ Len(p) - 1 <= FlowDepth /\ Len(p) \in Nat
    BY <1>4, <2>1
  <2>4. w[Len(p) - 1] \subseteq w[FlowDepth]
    BY <1>2, <1>4, <2>3, StepsGrow
  <2>5. at \in Ends(Q)
    BY <1>5, <2>2, <2>4
  <2>6. PICK k \in 1 .. Len(Q) : at = Last(Q[k])
    BY <1>6, <2>5, EndsAre
  <2>7. ~ ((Len(p) - 1) + 2 <= Len(Q[k]))
    BY <1>5, <2>2, <2>3, <2>6 DEF AreShortest
  <2>8. Len(Q[k]) <= Len(p)
    BY <1>6, <2>3, <2>7
  <2> QED BY <2>2, <2>3, <2>6, <2>8
<1>9. \A i, j \in 1 .. Len(Q) : i <= j => Len(Q[i]) <= Len(Q[j])
  BY <1>5 DEF AreOrdered
<1>10. WaysAreFound(Q, facts, route)
  BY <1>6, <1>7, <1>8, <1>9 DEF WaysAreFound
<1> QED BY <1>1, <1>10

\* Of flows there is one that none is sooner than.
LEMMA SoonestExists ==
  ASSUME NEW S, S # {}, \A f \in S : f.at[1] \in Nat /\ f.at[2] \in Nat
  PROVE  \E f \in S : \A h \in S : ~ Sooner(h, f)
<1> DEFINE firsts == {f.at[1] : f \in S}
<1>1. firsts \subseteq Nat /\ firsts # {}
  OBVIOUS
<1> HIDE DEF firsts
<1>2. PICK k \in firsts : \A m \in firsts : k <= m
  BY <1>1, LeastNumber
<1> DEFINE seconds == {f.at[2] : f \in {g \in S : g.at[1] = k}}
<1>3. seconds \subseteq Nat /\ seconds # {}
  BY <1>2 DEF firsts
<1> HIDE DEF seconds
<1>4. PICK j \in seconds : \A m \in seconds : j <= m
  BY <1>3, LeastNumber
<1>5. PICK f \in S : f.at[1] = k /\ f.at[2] = j
  BY <1>4 DEF seconds
<1>6. ASSUME NEW h \in S PROVE ~ Sooner(h, f)
  <2>1. h.at[1] \in firsts /\ (h.at[1] = k => h.at[2] \in seconds)
    BY DEF firsts, seconds
  <2>2. k <= h.at[1] /\ (h.at[1] = k => j <= h.at[2])
    BY <1>2, <1>4, <2>1
  <2>3. k \in Nat /\ j \in Nat /\ h.at[1] \in Nat /\ h.at[2] \in Nat
    BY <1>5
  <2>4. ~ (h.at[1] < f.at[1]) /\ ~ (h.at[1] = f.at[1] /\ h.at[2] < f.at[2])
    BY <1>5, <2>2, <2>3
  <2> QED BY <2>4 DEF Sooner
<1> QED BY <1>6

LEMMA SinksAreNumbers ==
  ASSUME NEW facts, AreFacts(facts), NEW node
  PROVE  sinks(facts, node) \subseteq Nat
<1>1. Len(facts.accesses) \in Nat /\ DOMAIN facts.accesses = 1 .. Len(facts.accesses)
  BY DEF AreFacts
<1> QED BY <1>1 DEF sinks, dangerous_by_id, Command, Eval

\* The flows from a route: a way that is found and on which something reads the request, and
\* a sink at its end.
LEMMA FlowsTraced ==
  ASSUME NEW facts, NEW route, NEW Q, Q = visits(facts, route), NEW f
  PROVE  f \in trace_flows(facts, route) <=>
           \E k \in DOMAIN Q : \E j \in sinks(facts, Last(Q[k])[1]) :
             tainted(facts, Last(Q[k])) /\ f = Flow(facts, k, Q[k], j)
<1> DEFINE of(k) == {Flow(facts, k, Q[k], j) : j \in sinks(facts, Last(Q[k])[1])}
           carrying == {i \in DOMAIN Q : tainted(facts, Last(Q[i]))}
<1>1. trace_flows(facts, route) = UNION {of(k) : k \in carrying}
  BY DEF trace_flows
<1>2. \A k : f \in of(k) <=> \E j \in sinks(facts, Last(Q[k])[1]) : f = Flow(facts, k, Q[k], j)
  OBVIOUS
<1> HIDE DEF of
<1>3. f \in trace_flows(facts, route) <=> \E k \in carrying : f \in of(k)
  BY <1>1
<1> QED BY <1>2, <1>3

LEMMA FlowIs ==
  ASSUME NEW facts, NEW k, NEW way, NEW j, NEW f, f = Flow(facts, k, way, j)
  PROVE  /\ f.at[1] = k /\ f.at[2] = j /\ f.sink = Last(way)[1]
         /\ f.label = SinkLabel(facts, j) /\ f.path = Named(way)
BY DEF Flow, Named

\* Of the flows to one sink and table there is one that is reported.
LEMMA ReportedIs ==
  ASSUME NEW route, NEW flows, NEW r
  PROVE  r \in Reported(route, flows) <=>
           \E f \in flows : /\ r = into_finding(route, f)
                            /\ \A h \in flows : h.sink = f.sink /\ h.label = f.label => ~ Sooner(h, f)
BY DEF Reported

LEMMA FindingIs ==
  ASSUME NEW route, NEW f, NEW r, r = into_finding(route, f)
  PROVE  r.source = route /\ r.sink = f.sink /\ r.label = f.label /\ r.path = f.path
BY DEF into_finding

ReadWays(facts, route) == {p \in Ways(facts, route) : ReadsRequest(facts, p)}

\* The findings of one route.
RouteIsExact(found, facts, route) ==
  /\ \A r \in found : /\ r.source = route /\ r.path \in ReadWays(facts, route) /\ Last(r.path) = r.sink
                      /\ r.label \in Labels(facts, r.sink)
                      /\ \A p \in ReadWays(facts, route) : Last(p) = r.sink => Len(r.path) <= Len(p)
  /\ \A p \in ReadWays(facts, route) : \A label \in Labels(facts, Last(p)) :
       \E r \in found : r.sink = Last(p) /\ r.label = label
  /\ \A r, t \in found : r.sink = t.sink /\ r.label = t.label => r = t

LEMMA FindingsOfRoute ==
  ASSUME NEW facts, AreFacts(facts), NEW route
  PROVE  RouteIsExact(Reported(route, trace_flows(facts, route)), facts, route)
<1> DEFINE flows == trace_flows(facts, route)
           found == Reported(route, flows)
           same(h, f) == h.sink = f.sink /\ h.label = f.label
<1>1. PICK Q : Q = visits(facts, route)
  OBVIOUS
<1>2. WaysAreFound(Q, facts, route)
  BY <1>1, WaysAreExact
<1>3. \A f : f \in flows <=> \E k \in DOMAIN Q : \E j \in sinks(facts, Last(Q[k])[1]) :
                                tainted(facts, Last(Q[k])) /\ f = Flow(facts, k, Q[k], j)
  BY <1>1, FlowsTraced
<1> HIDE DEF flows
<1>4. \A r : r \in found <=> \E f \in flows : /\ r = into_finding(route, f)
                                              /\ \A h \in flows : same(h, f) => ~ Sooner(h, f)
  BY ReportedIs
<1> HIDE DEF found
<1>5. DOMAIN Q \subseteq Nat
  BY <1>2 DEF WaysAreFound
<1>6. ASSUME NEW f \in flows
      PROVE  /\ f.at[1] \in DOMAIN Q /\ f.at[2] \in Nat /\ f.at[2] \in sinks(facts, f.sink)
             /\ tainted(facts, Last(Q[f.at[1]])) /\ f = Flow(facts, f.at[1], Q[f.at[1]], f.at[2])
             /\ f.sink = Last(Q[f.at[1]])[1] /\ f.label = SinkLabel(facts, f.at[2]) /\ f.path = Named(Q[f.at[1]])
  <2>0. PICK k \in DOMAIN Q : \E j \in sinks(facts, Last(Q[k])[1]) :
               tainted(facts, Last(Q[k])) /\ f = Flow(facts, k, Q[k], j)
    BY <1>3
  <2>1. PICK j \in sinks(facts, Last(Q[k])[1]) : tainted(facts, Last(Q[k])) /\ f = Flow(facts, k, Q[k], j)
    BY <2>0
  <2>2. /\ f.at[1] = k /\ f.at[2] = j /\ f.sink = Last(Q[k])[1]
        /\ f.label = SinkLabel(facts, j) /\ f.path = Named(Q[k])
    BY <2>1, FlowIs
  <2>3. j \in Nat
    BY SinksAreNumbers
  <2> QED BY <2>1, <2>2, <2>3
<1>7. ASSUME NEW k \in DOMAIN Q, tainted(facts, Last(Q[k])), NEW j \in sinks(facts, Last(Q[k])[1])
      PROVE  \E f \in flows : f.at[1] = k /\ f.at[2] = j /\ f.sink = Last(Q[k])[1] /\ f.label = SinkLabel(facts, j)
  <2>1. PICK f : f = Flow(facts, k, Q[k], j)
    OBVIOUS
  <2>2. f \in flows
    BY <1>3, <1>7, <2>1
  <2> QED BY <2>1, <2>2, FlowIs
<1>8. ASSUME NEW r \in found
      PROVE  /\ r.source = route /\ r.path \in ReadWays(facts, route) /\ Last(r.path) = r.sink
             /\ r.label \in Labels(facts, r.sink)
             /\ \A p \in ReadWays(facts, route) : Last(p) = r.sink => Len(r.path) <= Len(p)
  <2>1. PICK f \in flows : /\ r = into_finding(route, f)
                           /\ \A h \in flows : same(h, f) => ~ Sooner(h, f)
    BY <1>4
  <2>2. r.source = route /\ r.sink = f.sink /\ r.label = f.label /\ r.path = f.path
    BY <2>1, FindingIs
  <2>3. PICK k : k = f.at[1]
    OBVIOUS
  <2>4. /\ k \in DOMAIN Q /\ f.at[2] \in Nat /\ f.at[2] \in sinks(facts, f.sink)
        /\ tainted(facts, Last(Q[k])) /\ f.sink = Last(Q[k])[1]
        /\ f.label = SinkLabel(facts, f.at[2]) /\ f.path = Named(Q[k])
    BY <1>6, <2>3
  <2>5. /\ Named(Q[k]) \in Ways(facts, route) /\ Len(Named(Q[k])) = Len(Q[k])
        /\ Last(Named(Q[k])) = Last(Q[k])[1] /\ ReadsRequest(facts, Named(Q[k]))
    BY <1>2, <2>4 DEF WaysAreFound
  <2>6. r.path \in ReadWays(facts, route) /\ Last(r.path) = r.sink
    BY <2>2, <2>4, <2>5 DEF ReadWays
  <2>7. r.label \in Labels(facts, r.sink)
    BY <2>2, <2>4 DEF Labels
  <2>8. ASSUME NEW p \in ReadWays(facts, route), Last(p) = r.sink PROVE Len(r.path) <= Len(p)
    <3>1. p \in Ways(facts, route) /\ ReadsRequest(facts, p)
      BY DEF ReadWays
    <3>2. PICK i \in DOMAIN Q : /\ Last(Q[i])[1] = Last(p) /\ Len(Q[i]) <= Len(p)
                                /\ tainted(facts, Last(Q[i]))
      BY <1>2, <3>1 DEF WaysAreFound
    <3>3. PICK h \in flows : /\ h.at[1] = i /\ h.at[2] = f.at[2] /\ h.sink = Last(Q[i])[1]
                             /\ h.label = SinkLabel(facts, f.at[2])
      <4>1. f.at[2] \in sinks(facts, Last(Q[i])[1])
        BY <2>2, <2>4, <2>8, <3>2
      <4> QED BY <1>7, <3>2, <4>1
    <3>4. ~ Sooner(h, f)
      BY <2>1, <2>2, <2>4, <2>8, <3>2, <3>3
    <3>5. k <= i
      BY <1>5, <2>3, <2>4, <3>2, <3>3, <3>4 DEF Sooner
    <3>6. Len(Q[k]) <= Len(Q[i])
      BY <1>2, <2>4, <3>2, <3>5 DEF WaysAreFound
    <3>7. Len(Q[k]) \in Nat /\ Len(Q[i]) \in Nat /\ Len(p) \in Nat
      BY <1>2, <2>4, <3>1, <3>2 DEF WaysAreFound
    <3> QED BY <2>2, <2>4, <2>5, <3>2, <3>6, <3>7
  <2> QED BY <2>2, <2>6, <2>7, <2>8
<1>9. ASSUME NEW p \in ReadWays(facts, route), NEW label \in Labels(facts, Last(p))
      PROVE  \E r \in found : r.sink = Last(p) /\ r.label = label
  <2>1. p \in Ways(facts, route) /\ ReadsRequest(facts, p)
    BY DEF ReadWays
  <2>2. PICK k \in DOMAIN Q : Last(Q[k])[1] = Last(p) /\ tainted(facts, Last(Q[k]))
    BY <1>2, <2>1 DEF WaysAreFound
  <2>3. PICK j \in sinks(facts, Last(p)) : label = SinkLabel(facts, j)
    BY DEF Labels
  <2>4. PICK g \in flows : g.sink = Last(p) /\ g.label = label
    BY <1>7, <2>2, <2>3
  <2> DEFINE alike == {f \in flows : same(f, g)}
  <2>5. alike # {} /\ \A f \in alike : f.at[1] \in Nat /\ f.at[2] \in Nat
    BY <1>5, <1>6
  <2> HIDE DEF alike
  <2>6. PICK f \in alike : \A h \in alike : ~ Sooner(h, f)
    BY <2>5, SoonestExists
  <2>7. f \in flows /\ f.sink = Last(p) /\ f.label = label
    BY <2>4 DEF alike
  <2>8. \A h \in flows : same(h, f) => ~ Sooner(h, f)
    BY <2>4, <2>6, <2>7 DEF alike
  <2>9. PICK r : r = into_finding(route, f)
    OBVIOUS
  <2>10. r \in found
    BY <1>4, <2>7, <2>8, <2>9
  <2>11. r.sink = f.sink /\ r.label = f.label
    BY <2>9, FindingIs
  <2> QED BY <2>7, <2>10, <2>11
<1>10. ASSUME NEW r \in found, NEW t \in found, r.sink = t.sink, r.label = t.label PROVE r = t
  <2>1. PICK f \in flows : r = into_finding(route, f) /\ \A h \in flows : same(h, f) => ~ Sooner(h, f)
    BY <1>4
  <2>2. PICK g \in flows : t = into_finding(route, g) /\ \A h \in flows : same(h, g) => ~ Sooner(h, g)
    BY <1>4
  <2>3. same(f, g) /\ same(g, f)
    <3>1. r.sink = f.sink /\ r.label = f.label /\ t.sink = g.sink /\ t.label = g.label
      BY <2>1, <2>2, FindingIs
    <3> QED BY <1>10, <3>1
  <2>4. ~ Sooner(f, g) /\ ~ Sooner(g, f)
    BY <2>1, <2>2, <2>3
  <2>5. f.at[1] \in Nat /\ f.at[2] \in Nat /\ g.at[1] \in Nat /\ g.at[2] \in Nat
    BY <1>5, <1>6
  <2>6. f.at[1] = g.at[1] /\ f.at[2] = g.at[2]
    BY <2>4, <2>5 DEF Sooner
  <2>7. f = g
    BY <1>6, <2>6
  <2> QED BY <2>1, <2>2, <2>7
<1>11. RouteIsExact(found, facts, route)
  BY <1>8, <1>9, <1>10 DEF RouteIsExact
<1> QED BY <1>11 DEF found, flows

\* A flow is reported for a route and a place in the code exactly if the place is reached
\* from the route in few enough steps on a way on which something reads the request; each
\* is reported once, with such a way that is no longer than it need be, for any routes,
\* calls, accesses and depth (`trace_flows`, `analyze`).
THEOREM FlowsAreFound ==
  ASSUME NEW facts, AreFacts(facts)
  PROVE  FlowsAreExact(facts)
<1> DEFINE found == analyze(facts)
           of(route) == Reported(route, trace_flows(facts, route))
           read == [route \in {a.id : a \in facts.apis} |-> {p \in Ways(facts, route) : ReadsRequest(facts, p)}]
<1>1. \A route : RouteIsExact(of(route), facts, route)
  BY FindingsOfRoute
<1>2. \A r : r \in found <=> \E a \in facts.apis : r \in of(a.id)
  BY DEF analyze
<1> HIDE DEF found, of
<1>3. \A a \in facts.apis : read[a.id] = ReadWays(facts, a.id)
  BY DEF ReadWays
<1> HIDE DEF read
<1>4. ASSUME NEW r \in found
      PROVE  \E a \in facts.apis : r.source = a.id /\ r \in of(a.id)
  <2>1. PICK a \in facts.apis : r \in of(a.id)
    BY <1>2
  <2>2. r.source = a.id
    BY <1>1, <2>1 DEF RouteIsExact
  <2> QED BY <2>1, <2>2
<1>5. ASSUME NEW a \in facts.apis
      PROVE  {<<f.sink, f.label>> : f \in {g \in found : g.source = a.id}}
               = UNION {{Last(p)} \X Labels(facts, Last(p)) : p \in read[a.id]}
  <2>1. ASSUME NEW f \in found, f.source = a.id
        PROVE  \E p \in read[a.id] : f.sink = Last(p) /\ f.label \in Labels(facts, Last(p))
    <3>1. f \in of(a.id)
      BY <1>4, <2>1
    <3>2. f.path \in ReadWays(facts, a.id) /\ Last(f.path) = f.sink /\ f.label \in Labels(facts, f.sink)
      BY <1>1, <3>1 DEF RouteIsExact
    <3> QED BY <1>3, <3>2
  <2>2. ASSUME NEW p \in read[a.id], NEW label \in Labels(facts, Last(p))
        PROVE  \E f \in found : f.source = a.id /\ f.sink = Last(p) /\ f.label = label
    <3>1. p \in ReadWays(facts, a.id)
      BY <1>3
    <3>2. PICK f \in of(a.id) : f.sink = Last(p) /\ f.label = label
      BY <1>1, <3>1 DEF RouteIsExact
    <3>3. f \in found /\ f.source = a.id
      BY <1>1, <1>2, <3>2 DEF RouteIsExact
    <3> QED BY <3>2, <3>3
  <2>3. ASSUME NEW x \in {<<f.sink, f.label>> : f \in {g \in found : g.source = a.id}}
        PROVE  x \in UNION {{Last(p)} \X Labels(facts, Last(p)) : p \in read[a.id]}
    <3>1. PICK f \in found : f.source = a.id /\ x = <<f.sink, f.label>>
      BY <2>3
    <3>2. PICK p \in read[a.id] : f.sink = Last(p) /\ f.label \in Labels(facts, Last(p))
      BY <2>1, <3>1
    <3>3. x \in {Last(p)} \X Labels(facts, Last(p))
      BY <3>1, <3>2
    <3> QED BY <3>3
  <2>4. ASSUME NEW x \in UNION {{Last(p)} \X Labels(facts, Last(p)) : p \in read[a.id]}
        PROVE  x \in {<<f.sink, f.label>> : f \in {g \in found : g.source = a.id}}
    <3>1. PICK p \in read[a.id] : x \in {Last(p)} \X Labels(facts, Last(p))
      BY <2>4
    <3>2. x = <<Last(p), x[2]>> /\ x[2] \in Labels(facts, Last(p))
      BY <3>1
    <3>3. PICK f \in found : f.source = a.id /\ f.sink = Last(p) /\ f.label = x[2]
      BY <2>2, <3>2
    <3> QED BY <3>2, <3>3
  <2> QED BY <2>3, <2>4
<1>6. ASSUME NEW f \in found, NEW g \in found, <<f.source, f.sink, f.label>> = <<g.source, g.sink, g.label>>
      PROVE  f = g
  <2>1. f.source = g.source /\ f.sink = g.sink /\ f.label = g.label
    BY <1>6
  <2>2. PICK a \in facts.apis : f \in of(a.id) /\ g \in of(a.id)
    BY <1>4, <2>1
  <2> QED BY <1>1, <2>1, <2>2 DEF RouteIsExact
<1>7. ASSUME NEW f \in found
      PROVE  /\ f.path \in read[f.source] /\ Last(f.path) = f.sink
             /\ \A p \in read[f.source] : Last(p) = f.sink => Len(f.path) <= Len(p)
  <2>1. PICK a \in facts.apis : f.source = a.id /\ f \in of(a.id)
    BY <1>4
  <2>2. read[f.source] = ReadWays(facts, a.id)
    BY <1>3, <2>1
  <2> QED BY <1>1, <2>1, <2>2 DEF RouteIsExact
<1> QED BY <1>5, <1>6, <1>7 DEF FlowsAreExact, found, read

--------------------------------------------------------------------------------
(* The advisories that affect a package. *)


AreEvents(events) ==
  /\ events \in Seq(Range(events))
  /\ \A k \in DOMAIN events : events[k] = [kind |-> events[k].kind, version |-> events[k].version]
                              /\ events[k].version \in Nat

EventBefore(events) ==
  {p \in (DOMAIN events) \X (DOMAIN events) :
     LET i == p[1]  j == p[2]
     IN \/ events[i].version < events[j].version
        \/ events[i].version = events[j].version /\ event_rank(events[i]) < event_rank(events[j])
        \/ events[i].version = events[j].version /\ event_rank(events[i]) = event_rank(events[j]) /\ i < j}

LEMMA EventsAreOrdered ==
  ASSUME NEW events, AreEvents(events)
  PROVE  LET order == OrderedBy(DOMAIN events, EventBefore(events))
         IN /\ InOrder(events) = [k \in DOMAIN order |-> events[order[k]]]
            /\ order \in Seq(DOMAIN events) /\ Range(order) = DOMAIN events
            /\ \A i, j \in DOMAIN order : i < j <=> <<order[i], order[j]>> \in EventBefore(events)
<1> DEFINE S == DOMAIN events
           less == EventBefore(events)
<1>1. S = 1 .. Len(events) /\ Len(events) \in Nat /\ IsFiniteSet(S)
  <2>1. S = 1 .. Len(events) /\ Len(events) \in Nat
    BY DEF AreEvents
  <2> QED BY <2>1, FS_Interval
<1>2. \A i \in S : i \in Nat /\ events[i].version \in Nat /\ event_rank(events[i]) \in Nat
  BY <1>1 DEF AreEvents, event_rank
<1>3. \A i, j \in S : <<i, j>> \in less <=>
        \/ events[i].version < events[j].version
        \/ events[i].version = events[j].version /\ event_rank(events[i]) < event_rank(events[j])
        \/ events[i].version = events[j].version /\ event_rank(events[i]) = event_rank(events[j]) /\ i < j
  BY DEF EventBefore
<1> HIDE DEF less
<1>4. IsOrder(less, S)
  <2>1. ASSUME NEW x \in S, NEW y \in S PROVE x # y <=> (<<x, y>> \in less \/ <<y, x>> \in less)
    BY <1>2, <1>3
  <2>2. ASSUME NEW x \in S, NEW y \in S, NEW z \in S, <<x, y>> \in less, <<y, z>> \in less
        PROVE  <<x, z>> \in less
    BY <1>2, <1>3, <2>2
  <2> QED BY <2>1, <2>2 DEF IsOrder
<1>5. InOrder(events) = [k \in DOMAIN OrderedBy(S, less) |-> events[OrderedBy(S, less)[k]]]
  <2> DEFINE before(x, y) ==
               \/ events[x].version < events[y].version
               \/ events[x].version = events[y].version /\ event_rank(events[x]) < event_rank(events[y])
               \/ events[x].version = events[y].version /\ event_rank(events[x]) = event_rank(events[y]) /\ x < y
  <2>0. \A x, y \in S : before(y, x) <=> <<y, x>> \in less
    <3> SUFFICES ASSUME NEW x \in S, NEW y \in S PROVE before(y, x) <=> <<y, x>> \in less
      OBVIOUS
    <3> QED BY ONLY <1>3, x \in S, y \in S
  <2>1. \A x \in S : {y \in S : before(y, x)} = {y \in S : <<y, x>> \in less}
    <3> HIDE DEF before
    <3> QED BY <2>0
  <2> DEFINE s == OrderedBy(S, less)
             r == Sorted(S, LAMBDA x, y : before(x, y))
             size == Cardinality(S)
             pick(i) == CHOOSE x \in S : Cardinality({y \in S : before(y, x)}) = i - 1
  <2>2. /\ s \in Seq(S) /\ Len(s) = size
        /\ \A i \in 1 .. size, x \in S : Cardinality({y \in S : <<y, x>> \in less}) = i - 1 <=> x = s[i]
    BY <1>1, <1>4, ElementsInOrder
  <2>3. r = [i \in 1 .. size |-> pick(i)]
    BY DEF Sorted
  <2>4. InOrder(events) = [k \in DOMAIN r |-> events[r[k]]]
    BY DEF InOrder
  <2> HIDE DEF s, r, size, before, pick
  <2>5. ASSUME NEW i \in 1 .. size PROVE r[i] = s[i]
    <3>1. \A x \in S : Cardinality({y \in S : before(y, x)}) = i - 1 <=> x = s[i]
      BY <2>1, <2>2
    <3>2. s[i] \in S
      BY <2>2
    <3>3. pick(i) = s[i]
      BY <3>1, <3>2 DEF pick
    <3> QED BY <2>3, <3>3
  <2>6. DOMAIN r = 1 .. size /\ DOMAIN s = 1 .. size
    BY <2>2, <2>3
  <2>7. r = s
    <3>1. r = [i \in 1 .. size |-> r[i]]
      BY <2>3
    <3>2. s = [i \in 1 .. Len(s) |-> s[i]]
      BY <2>2
    <3> QED BY <2>2, <2>5, <3>1, <3>2
  <2> QED BY <2>4, <2>7 DEF s
<1> QED BY <1>1, <1>4, <1>5, ElementsInOrder DEF less

Applied(version, affected, event) ==
  IF event.version = Unparsable THEN affected
  ELSE CASE event.kind = "introduced" /\ version >= event.version -> TRUE
         [] event.kind = "fixed" /\ version >= event.version -> FALSE
         [] event.kind = "last_affected" /\ version > event.version -> FALSE
         [] OTHER -> affected

LEMMA AppliedIs ==
  ASSUME NEW version, NEW affected \in BOOLEAN, NEW event
  PROVE  /\ Introduces(event, version) => Applied(version, affected, event) = TRUE
         /\ Ended(event, version) => Applied(version, affected, event) = FALSE
         /\ ~ Introduces(event, version) /\ ~ Ended(event, version) => Applied(version, affected, event) = affected
<1>1. CASE event.version = Unparsable
  BY <1>1 DEF Applied, Introduces, Ended
<1>2. CASE event.version # Unparsable /\ event.kind = "introduced"
  BY <1>2 DEF Applied, Introduces, Ended
<1>3. CASE event.version # Unparsable /\ event.kind = "fixed"
  BY <1>3 DEF Applied, Introduces, Ended
<1>4. CASE event.version # Unparsable /\ event.kind = "last_affected"
  BY <1>4 DEF Applied, Introduces, Ended
<1>5. CASE /\ event.version # Unparsable
           /\ event.kind # "introduced" /\ event.kind # "fixed" /\ event.kind # "last_affected"
  BY <1>5 DEF Applied, Introduces, Ended
<1> QED BY <1>1, <1>2, <1>3, <1>4, <1>5

\* What the walk along the events has at the end.
LEMMA EventsApplied ==
  ASSUME NEW version, NEW events, AreEvents(events), NEW s, s = InOrder(events), s \in Seq(Range(events))
  PROVE  \E it : /\ it[1 .. 0] = FALSE
                 /\ FoldLeft(LAMBDA a, e : Applied(version, a, e), FALSE, s) = it[1 .. Len(s)]
                 /\ \A n \in Nat : n < Len(s) => it[1 .. n + 1] = Applied(version, it[1 .. n], s[n + 1])
                 /\ \A n \in Nat : n <= Len(s) => it[1 .. n] \in BOOLEAN
<1> DEFINE E == Range(events)
           table == [p \in BOOLEAN \X E |-> Applied(version, p[1], p[2])]
           Step(g) == [t \in SUBSET DOMAIN s |-> IF t = {} THEN FALSE ELSE Applied(version, g[t \ {Max(t)}], s[Max(t)])]
           it == CHOOSE g : g = Step(g)
<1>1. table \in [BOOLEAN \X E -> BOOLEAN]
  <2>1. \A p \in BOOLEAN \X E : Applied(version, p[1], p[2]) \in BOOLEAN
    BY DEF Applied
  <2> HIDE DEF E
  <2> QED BY <2>1
<1>2. PICK g \in [SUBSET DOMAIN s -> BOOLEAN] : IsFold(g, table, FALSE, s)
  <2> HIDE DEF table, E
  <2>1. FALSE \in BOOLEAN /\ s \in Seq(E)
    BY DEF E
  <2> QED BY <1>1, <2>1, FoldExists
<1>3. DOMAIN s = 1 .. Len(s) /\ Len(s) \in Nat /\ \A k \in DOMAIN s : s[k] \in E
  OBVIOUS
<1>4. g = Step(g)
  <2>1. ASSUME NEW t \in SUBSET DOMAIN s, t # {} PROVE g[t] = Applied(version, g[t \ {Max(t)}], s[Max(t)])
    <3>1. Max(t) \in t
      BY <1>3, <2>1, LargestPlace
    <3>2. <<g[t \ {Max(t)}], s[Max(t)]>> \in BOOLEAN \X E
      BY <1>3, <3>1
    <3>3. g[t] = table[<<g[t \ {Max(t)}], s[Max(t)]>>]
      BY <1>2, <2>1 DEF IsFold
    <3> HIDE DEF E
    <3> QED BY <3>2, <3>3
  <2>2. g[{}] = FALSE
    BY <1>2 DEF IsFold
  <2>3. g = [t \in SUBSET DOMAIN s |-> g[t]]
    OBVIOUS
  <2> QED BY <2>1, <2>2, <2>3
<1>5. it = Step(it)
  BY <1>4
<1>6. FoldLeft(LAMBDA a, e : Applied(version, a, e), FALSE, s) = it[DOMAIN s]
  BY DEF FoldLeft, MapThenFoldSet
<1> HIDE DEF it
<1>7. it[1 .. 0] = FALSE
  BY <1>5
<1>8. ASSUME NEW n \in Nat, n < Len(s) PROVE it[1 .. n + 1] = Applied(version, it[1 .. n], s[n + 1])
  <2>1. /\ 1 .. n + 1 \in SUBSET DOMAIN s /\ 1 .. n + 1 # {}
        /\ Max(1 .. n + 1) = n + 1 /\ (1 .. n + 1) \ {n + 1} = 1 .. n
    BY <1>8, PlacesInTurn
  <2>2. it[1 .. n + 1] = IF 1 .. n + 1 = {} THEN FALSE
                         ELSE Applied(version, it[(1 .. n + 1) \ {Max(1 .. n + 1)}], s[Max(1 .. n + 1)])
    BY <1>5, <2>1
  <2> QED BY <2>1, <2>2
<1> DEFINE good == {n \in Nat : n <= Len(s) => it[1 .. n] \in BOOLEAN}
<1>9. 0 \in good
  BY <1>7
<1>10. ASSUME NEW n \in Nat, n \in good PROVE n + 1 \in good
  <2> SUFFICES ASSUME n + 1 <= Len(s) PROVE it[1 .. n + 1] \in BOOLEAN
    OBVIOUS
  <2>1. n < Len(s) /\ it[1 .. n] \in BOOLEAN
    BY <1>3, <1>10
  <2> QED BY <1>8, <2>1 DEF Applied
<1> HIDE DEF good
<1>11. \A n \in Nat : n \in good
  BY <1>9, <1>10, AllNumbers
<1>12. \A n \in Nat : n <= Len(s) => it[1 .. n] \in BOOLEAN
  BY <1>3, <1>11 DEF good
<1> QED BY <1>3, <1>6, <1>7, <1>8, <1>12

\* Among the first n events is one that introduces, and none after it that ends.
Stands(s, n, version) ==
  \E i \in 1 .. n : /\ Introduces(s[i], version)
                    /\ \A j \in 1 .. n : i < j => ~ Ended(s[j], version)

\* The version is affected when what introduces it comes after all that ends it.
LEMMA AffectedAtTheEnd ==
  ASSUME NEW version, NEW s, NEW E, s \in Seq(E), NEW it, it[1 .. 0] = FALSE,
         \A n \in Nat : n < Len(s) => it[1 .. n + 1] = Applied(version, it[1 .. n], s[n + 1]),
         \A n \in Nat : n <= Len(s) => it[1 .. n] \in BOOLEAN
  PROVE  it[1 .. Len(s)] = TRUE <=>
           \E i \in 1 .. Len(s) : /\ Introduces(s[i], version)
                                  /\ \A j \in 1 .. Len(s) : i < j => ~ Ended(s[j], version)
<1> DEFINE holds(n) == n <= Len(s) => (it[1 .. n] = TRUE <=> Stands(s, n, version))
           good == {n \in Nat : holds(n)}
<1>1. 0 \in good
  BY 1 .. 0 = {} DEF Stands
<1>2. ASSUME NEW n \in Nat, n \in good PROVE n + 1 \in good
  <2> SUFFICES ASSUME n + 1 <= Len(s) PROVE it[1 .. n + 1] = TRUE <=> Stands(s, n + 1, version)
    <3>1. holds(n + 1)
      OBVIOUS
    <3> HIDE DEF holds
    <3> QED BY <3>1
  <2>1. n < Len(s) /\ (it[1 .. n] = TRUE <=> Stands(s, n, version)) /\ it[1 .. n] \in BOOLEAN
    BY <1>2
  <2>2. it[1 .. n + 1] = Applied(version, it[1 .. n], s[n + 1])
    BY <2>1
  <2>3. \A i : i \in 1 .. n + 1 <=> i \in 1 .. n \/ i = n + 1
    OBVIOUS
  <2>4. CASE Introduces(s[n + 1], version)
    <3>1. Applied(version, it[1 .. n], s[n + 1]) = TRUE
      BY <2>1, <2>4, AppliedIs
    <3>2. Stands(s, n + 1, version)
      <4>1. \A j \in 1 .. n + 1 : ~ (n + 1 < j)
        OBVIOUS
      <4> QED BY <2>3, <2>4, <4>1 DEF Stands
    <3> QED BY <2>2, <3>1, <3>2
  <2>5. CASE Ended(s[n + 1], version)
    <3>1. Applied(version, it[1 .. n], s[n + 1]) = FALSE
      BY <2>1, <2>5, AppliedIs
    <3>2. ~ Introduces(s[n + 1], version)
      BY <2>5 DEF Introduces, Ended
    <3>3. \A i \in 1 .. n : i < n + 1
      OBVIOUS
    <3>4. ~ Stands(s, n + 1, version)
      BY <2>3, <2>5, <3>2, <3>3 DEF Stands
    <3> QED BY <2>2, <3>1, <3>4
  <2>6. CASE ~ Introduces(s[n + 1], version) /\ ~ Ended(s[n + 1], version)
    <3>1. Applied(version, it[1 .. n], s[n + 1]) = it[1 .. n]
      BY <2>1, <2>6, AppliedIs
    <3>2. Stands(s, n + 1, version) <=> Stands(s, n, version)
      BY <2>3, <2>6 DEF Stands
    <3> QED BY <2>1, <2>2, <3>1, <3>2
  <2> QED BY <2>4, <2>5, <2>6
<1> HIDE DEF good
<1>3. Len(s) \in Nat
  OBVIOUS
<1>4. Len(s) \in good
  BY <1>1, <1>2, <1>3, AllNumbers
<1> QED BY <1>3, <1>4 DEF good, Stands

\* Whatever the order in which an advisory lists its events, a version is affected by a
\* range when something was introduced up to it that nothing has ended since.
LEMMA RangesAreExact ==
  ASSUME NEW version, NEW range, AreEvents(range.events)
  PROVE  version_in_semver_range(version, range) <=> InRange(version, range)
<1> DEFINE events == range.events
           order == OrderedBy(DOMAIN events, EventBefore(events))
           s == InOrder(events)
<1>1. /\ s = [k \in DOMAIN order |-> events[order[k]]]
      /\ order \in Seq(DOMAIN events) /\ Range(order) = DOMAIN events
      /\ \A i, j \in DOMAIN order : i < j <=> <<order[i], order[j]>> \in EventBefore(events)
  BY EventsAreOrdered
<1> HIDE DEF order, s
<1>2. DOMAIN order = 1 .. Len(order) /\ Len(order) \in Nat /\ \A k \in DOMAIN order : order[k] \in DOMAIN events
  BY <1>1
<1>3. s \in Seq(Range(events)) /\ Len(s) = Len(order)
  <2>1. \A k \in DOMAIN order : events[order[k]] \in Range(events)
    BY <1>2 DEF Range
  <2>2. s \in [1 .. Len(order) -> Range(events)]
    BY <1>1, <1>2, <2>1
  <2> QED BY <1>2, <2>2
<1>4. PICK it : /\ it[1 .. 0] = FALSE
                /\ FoldLeft(LAMBDA a, e : Applied(version, a, e), FALSE, s) = it[1 .. Len(s)]
                /\ \A n \in Nat : n < Len(s) => it[1 .. n + 1] = Applied(version, it[1 .. n], s[n + 1])
                /\ \A n \in Nat : n <= Len(s) => it[1 .. n] \in BOOLEAN
  BY <1>3, EventsApplied DEF s
<1>5. it[1 .. Len(s)] = TRUE <=>
           \E i \in 1 .. Len(s) : /\ Introduces(s[i], version)
                                  /\ \A j \in 1 .. Len(s) : i < j => ~ Ended(s[j], version)
  BY <1>3, <1>4, AffectedAtTheEnd
<1>6. version_in_semver_range(version, range) <=> range.type = "SEMVER" /\ it[1 .. Len(s)] = TRUE
  <2>1. version_in_semver_range(version, range)
          <=> range.type = "SEMVER" /\ FoldLeft(LAMBDA a, e : Applied(version, a, e), FALSE, s)
    BY DEF version_in_semver_range, Applied, s
  <2>2. it[1 .. Len(s)] \in BOOLEAN
    <3>1. Len(s) \in Nat /\ Len(s) <= Len(s)
      BY <1>2, <1>3
    <3> QED BY <1>4, <3>1
  <2>3. FoldLeft(LAMBDA a, e : Applied(version, a, e), FALSE, s) <=> it[1 .. Len(s)] = TRUE
    BY <1>4, <2>2
  <2> QED BY <2>1, <2>3
<1>7. \A k \in DOMAIN events : events[k].version \in Nat
  BY DEF AreEvents
<1>8. ASSUME NEW i \in 1 .. Len(s), Introduces(s[i], version),
             \A j \in 1 .. Len(s) : i < j => ~ Ended(s[j], version)
      PROVE  \A j \in DOMAIN events :
               Ended(events[j], version) => events[j].version < events[order[i]].version
  <2> SUFFICES ASSUME NEW m \in DOMAIN events, Ended(events[m], version),
                      ~ events[m].version < events[order[i]].version
               PROVE  FALSE
    OBVIOUS
  <2>1. PICK j \in DOMAIN order : order[j] = m
    BY <1>1 DEF Range
  <2>2. ~ i < j
    BY <1>1, <1>2, <1>3, <1>8, <2>1
  <2>3. s[i] = events[order[i]] /\ order[i] \in DOMAIN events /\ i \in DOMAIN order
    BY <1>1, <1>2, <1>3
  <2>4. event_rank(events[order[i]]) = 0 /\ event_rank(events[m]) = 1
    BY <1>8, <2>3 DEF event_rank, Introduces, Ended
  <2>5. <<order[i], m>> \in EventBefore(events)
    BY <1>7, <2>3, <2>4 DEF EventBefore
  <2> QED BY <1>1, <2>1, <2>2, <2>3, <2>5
<1>9. ASSUME NEW k \in DOMAIN events, Introduces(events[k], version),
             \A j \in DOMAIN events : Ended(events[j], version) => events[j].version < events[k].version
      PROVE  \E i \in 1 .. Len(s) : /\ Introduces(s[i], version)
                                    /\ \A j \in 1 .. Len(s) : i < j => ~ Ended(s[j], version)
  <2>1. PICK i \in DOMAIN order : order[i] = k
    BY <1>1 DEF Range
  <2>2. ASSUME NEW j \in 1 .. Len(s), i < j PROVE ~ Ended(s[j], version)
    <3>1. j \in DOMAIN order /\ s[j] = events[order[j]] /\ order[j] \in DOMAIN events
      BY <1>1, <1>2, <1>3
    <3>2. <<k, order[j]>> \in EventBefore(events)
      BY <1>1, <2>1, <2>2, <3>1
    <3>3. events[k].version <= events[order[j]].version
      BY <1>7, <3>1, <3>2 DEF EventBefore
    <3> QED BY <1>7, <1>9, <3>1, <3>3
  <2>3. i \in 1 .. Len(s) /\ s[i] = events[k]
    BY <1>1, <1>2, <1>3, <2>1
  <2> QED BY <1>9, <2>2, <2>3
<1>10. \A i \in 1 .. Len(s) : order[i] \in DOMAIN events /\ s[i] = events[order[i]]
  BY <1>1, <1>2, <1>3
<1>11. InRange(version, range) <=> range.type = "SEMVER" /\ it[1 .. Len(s)] = TRUE
  <2>1. ASSUME it[1 .. Len(s)] = TRUE, range.type = "SEMVER" PROVE InRange(version, range)
    BY <1>5, <1>8, <1>10, <2>1 DEF InRange
  <2>2. ASSUME InRange(version, range) PROVE range.type = "SEMVER" /\ it[1 .. Len(s)] = TRUE
    BY <1>5, <1>9, <2>2 DEF InRange
  <2> QED BY <2>1, <2>2
<1> QED BY <1>6, <1>11

\* A package is reported for an advisory exactly if the advisory lists its version, or the
\* version comes after the introduction of the problem with nothing that ends it in
\* between, for any packages and advisories, in whatever order these list their events
\* (`version_in_semver_range`).
THEOREM AdvisoriesAreMatched ==
  ASSUME NEW packages, NEW osv,
         \A e \in osv : \A affected \in e.affected : \A range \in affected.ranges : AreEvents(range.events)
  PROVE  AuditIsExact(packages, osv)
<1>1. ASSUME NEW e \in osv, NEW affected \in e.affected, NEW version
      PROVE  is_affected(version, affected) <=> Affects(affected, version)
  BY RangesAreExact DEF is_affected, Affects
<1>2. {y \in packages \X osv : \E affected \in y[2].affected : Concerns(affected, y[1])
                                                               /\ is_affected(y[1].version, affected)}
      = {y \in packages \X osv : \E affected \in y[2].affected : Concerns(affected, y[1])
                                                                 /\ Affects(affected, y[1].version)}
  <2>1. \A y \in packages \X osv : y[2] \in osv
    OBVIOUS
  <2> QED BY <1>1, <2>1
<1> QED BY <1>2 DEF AuditIsExact, audit

================================================================================
