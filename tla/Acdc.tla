---------------------------------- MODULE Acdc ----------------------------------
(***************************************************************************)
(* Subsystems recovered from file dependencies (ACDC).  Names are numbers  *)
(* in the order of the paths they stand for: a file, a directory, and 0    *)
(* for the support library.  A unit is a file, or the first file of a pair *)
(* of C-family body and header.                                            *)
(***************************************************************************)
EXTENDS ModuleGraph

CONSTANTS
  max_subsystem_size,   \* 20
  support_in_degree,    \* 20
  directory_of,         \* file -> the directory it is in
  stem_of               \* body or header -> its path without the extension

SUPPORT_LIBRARY == 0
NoParent == -1

\* Bodies and headers of one stem are one unit, named by its first path.
translation_unit(f) == IF f \in DOMAIN stem_of THEN stem_of[f] ELSE "no pair"
unit_of(files, f) ==
  Min({f} \cup {g \in files \cap DOMAIN stem_of : translation_unit(g) = translation_unit(f)})
Units(files) == {unit_of(files, f) : f \in files}

\* An edge of a file that is not clustered is ignored, one inside a unit dropped.
UnitEdges(files, file_edges) ==
  {e \in {<<unit_of(files, d[1]), unit_of(files, d[2])>> : d \in Within(file_edges, files)} :
     e[1] # e[2]}

support_library(units, edges) ==
  {u \in units : Cardinality({e \in edges : e[2] = u}) > support_in_degree}

--------------------------------------------------------------------------------
(* Dominators, from an entry that stands for the world outside. *)

Entry == -2

\* The entry leads to the sources, then, in order, to what is not yet reachable.
attach_entry(live, edges) ==
  LET sources == {u \in live : \A v \in live : <<v, u>> \notin edges}
      seen(starts) == starts \cup UNION {ReachableFrom(u, edges) : u \in starts}
      enter(starts, u) == IF u \in seen(starts) THEN starts ELSE starts \cup {u}
      starts == FoldLeft(enter, sources, Sorted(live \ sources, <))
  IN {<<Entry, u>> : u \in starts}

\* petgraph's simple_fast: u dominates v if every path from the entry to v meets u.
Dominates(edges, u, v) ==
  u = v \/ v \notin ReachableFrom(Entry, {e \in edges : e[1] # u /\ e[2] # u})

\* The closest one of the others that dominate v, Entry if there is none.
immediate_dominator(live, edges, v) ==
  LET above == {u \in live \ {v} : Dominates(edges, u, v)}
  IN IF above = {} THEN Entry
     ELSE CHOOSE u \in above : \A w \in above : Dominates(edges, w, u)

\* A dominator claims its subtree if that has two units or more, and not too many;
\* a unit belongs to the deepest claim that covers it.
dominator_subsystems(live, all_edges) ==
  LET inner == Within(all_edges, live)
      edges == inner \cup attach_entry(live, inner)
      subtree == [u \in live |-> {v \in live : Dominates(edges, u, v)}]
      claims == {u \in live : Cardinality(subtree[u]) \in 2 .. max_subsystem_size}
      owned == UNION {subtree[u] : u \in claims}
      deepest(v) == CHOOSE u \in claims : v \in subtree[u] /\
                      \A w \in claims : v \in subtree[w] => u \in subtree[w]
  IN [parents |-> [u \in claims |-> immediate_dominator(live, edges, u)],
      owner |-> [v \in owned |-> deepest(v)]]

--------------------------------------------------------------------------------

\* The subsystem an orphan has most edges with, then the larger, then the first.
\* {} if it has an edge with none.
Links(orphan, edges, units) ==
  Cardinality({e \in edges : \/ e[1] = orphan /\ e[2] \in units
                             \/ e[2] = orphan /\ e[1] \in units})

adopt(orphan, edges, members) ==
  LET linked == {n \in DOMAIN members : Links(orphan, edges, members[n]) > 0}
      score(n) == Links(orphan, edges, members[n])
      better(n, k) ==
        \/ score(n) > score(k)
        \/ score(n) = score(k) /\ Cardinality(members[n]) > Cardinality(members[k])
        \/ score(n) = score(k) /\ Cardinality(members[n]) = Cardinality(members[k])
           /\ n < k
  IN IF linked = {} THEN {}
     ELSE {CHOOSE n \in linked : \A k \in linked \ {n} : better(n, k)}

Join(members, name, units) ==
  [n \in DOMAIN members \cup {name} |->
     (IF n \in DOMAIN members THEN members[n] ELSE {}) \cup (IF n = name THEN units ELSE {})]

\* Orphans are placed one after the other, each seeing where the earlier went;
\* one without an edge to any subsystem goes to its directory.
assemble(units, edges, support, skeleton) ==
  LET dominators == DOMAIN skeleton.parents
      owned == [d \in dominators |->
                  {u \in DOMAIN skeleton.owner : skeleton.owner[u] = d}]
      first == IF support = {} THEN owned ELSE Join(owned, SUPPORT_LIBRARY, support)
      orphans == units \ (support \cup DOMAIN skeleton.owner)
      place(members, orphan) ==
        LET home == adopt(orphan, edges, members)
        IN Join(members, IF home = {} THEN directory_of[orphan] ELSE CHOOSE n \in home : TRUE,
                {orphan})
      members == FoldLeft(place, first, Sorted(orphans, <))
  IN [members |-> members,
      parent |-> [n \in DOMAIN members |->
                    IF n \in dominators /\ skeleton.parents[n] \in dominators
                    THEN skeleton.parents[n] ELSE NoParent],
      skeleton |-> support \cup DOMAIN skeleton.owner]

\* Faulty variant: what everything uses stays in the graph.
cluster_with_support(units, edges) ==
  assemble(units, edges, support_library(units, edges), dominator_subsystems(units, edges))

cluster(units, edges) ==
  LET support == support_library(units, edges)
  IN assemble(units, edges, support, dominator_subsystems(units \ support, edges))

--------------------------------------------------------------------------------
(* Properties of one clustering. *)

\* Every unit is in one subsystem, no subsystem is empty or above itself, and
\* a dominator's skeleton, with all that is nested in it, is entered only
\* through the dominator and is no larger than the limit.
RECURSIVE Nested(_, _)
Nested(c, names) ==
  LET more == names \cup {n \in DOMAIN c.parent : c.parent[n] \in names}
  IN IF more = names THEN names ELSE Nested(c, more)

ClusteringSound(units, edges, c) ==
  /\ UNION {c.members[n] : n \in DOMAIN c.members} = units
  /\ \A n, k \in DOMAIN c.members : n # k => c.members[n] \cap c.members[k] = {}
  /\ \A n \in DOMAIN c.members : c.members[n] # {} /\ c.parent[n] \notin Nested(c, {n})
  /\ \A n \in DOMAIN c.members \cap units :
       LET inside == (UNION {c.members[k] : k \in Nested(c, {n})}) \cap c.skeleton
           support == support_library(units, edges)
       IN /\ Cardinality(inside) \in 2 .. max_subsystem_size
          /\ \A e \in edges : e[2] \in inside \ {n} => e[1] \in inside \cup support

================================================================================
