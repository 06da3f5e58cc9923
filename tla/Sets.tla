--------------------------------- MODULE Sets ----------------------------------
(***************************************************************************)
(* A finite set in order, the nodes that paths of edges lead to, and the   *)
(* tables of a database.                                                   *)
(***************************************************************************)
EXTENDS Integers, Sequences, FiniteSets

\* As a sequence, in an order that is total on it.
Sorted(S, before(_, _)) ==
  [i \in 1 .. Cardinality(S) |-> CHOOSE x \in S : Cardinality({y \in S : before(y, x)}) = i - 1]

\* Edges are pairs.
Sources(edges) == {e[1] : e \in edges}
Onward(near, edges) == near \cup {e[2] : e \in {f \in edges : f[1] \in near}}

\* No node is further away than there are nodes that edges leave.
Closure(start, edges) ==
  LET within[n \in Nat] == IF n = 0 THEN start ELSE Onward(within[n - 1], edges)
  IN within[Cardinality(Sources(edges))]

\* The same by chains: those that edges link, and where they lead from a node of from.
Chains(nodes, edges) ==
  {p \in UNION {[1 .. k -> nodes] : k \in 1 .. Cardinality(nodes)} :
     \A i \in 1 .. Len(p) - 1 : <<p[i], p[i + 1]>> \in edges}
ChainEnds(chains, from) == {p[Len(p)] : p \in {q \in chains : q[1] \in from}}

\* Where paths end.
Ends(paths) == {paths[i][Len(paths[i])] : i \in DOMAIN paths}

--------------------------------------------------------------------------------
(* A database table is a set of rows, every row a record with a field id.  *)
(* These are the table operations the differential sync of ovecc-db is     *)
(* built from; the appenders deduplicate a batch by id and the deletes     *)
(* name the ids they remove.                                               *)

\* The primary keys present in table T.
Ids(T) == {r.id : r \in T}

\* T after "DELETE FROM T WHERE id = ?" for every id of ids.
WithoutIds(T, ids) == {r \in T : r.id \notin ids}

\* The rows of a batch whose id the table does not hold.
NewRows(batch, T) == {r \in batch : r.id \notin Ids(T)}

\* The persisted ids that vanished from the batch.
StaleIds(T, batch) == Ids(T) \ Ids(batch)

\* A batch after "if !seen.insert(id) { continue; }": one row for each id.
FirstById(batch) == {(CHOOSE r \in batch : r.id = i) : i \in Ids(batch)}

\* T after the rows that vanished are deleted and the new ones appended; a row
\* whose id is in both stays as it was persisted.
Synced(T, batch) == WithoutIds(T, StaleIds(T, batch)) \cup FirstById(NewRows(batch, T))

\* The primary key constraint.
Keyed(T) == \A r, s \in T : r.id = s.id => r = s

================================================================================
