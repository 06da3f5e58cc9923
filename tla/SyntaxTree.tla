------------------------------- MODULE SyntaxTree --------------------------------
(***************************************************************************)
(* Syntax trees as the parsers hand them out, in preorder: node n starts   *)
(* on line n.  A node is                                                   *)
(*   depth     1 for the declarations of the file                          *)
(*   kind      as the grammar calls it                                     *)
(*   field     which child of its parent it is, if that matters            *)
(*   name      what it declares, calls or imports, in segments             *)
(*   receiver  the object of a call or the type of a method, in segments   *)
(*   form      how a callee or a value is spelled, what a comment,         *)
(*             a string or an attribute says                               *)
(***************************************************************************)
EXTENDS Naturals, FiniteSets, Sequences, SequencesExt, FiniteSetsExt

None == <<>>

Node(depth, kind, field, name, receiver, form) ==
  [depth |-> depth, kind |-> kind, field |-> field, name |-> name, receiver |-> receiver, form |-> form]

\* The last line of a node.
End(t, n) == Max({k \in n .. Len(t) : \A j \in n + 1 .. k : t[j].depth > t[n].depth})
Within(t, n) == n + 1 .. End(t, n)
Parent(t, n) == Max({k \in 1 .. n - 1 : t[k].depth < t[n].depth} \cup {0})
ParentKind(t, n) == IF Parent(t, n) = 0 THEN "file" ELSE t[Parent(t, n)].kind
Ancestors(t, n) == {k \in 1 .. n - 1 : n \in Within(t, k)}
Children(t, n) == {k \in Within(t, n) : t[k].depth = t[n].depth + 1}
Siblings(t, n) == {k \in DOMAIN t : t[k].depth = t[n].depth /\ Parent(t, k) = Parent(t, n)}

\* The siblings before a node that run down to it without one of another kind.
RunBefore(t, n, kinds) ==
  LET before == {k \in Siblings(t, n) : k < n}
  IN {k \in before : \A j \in before : j >= k => t[j].kind \in kinds}

================================================================================
