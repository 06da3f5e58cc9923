-------------------------------- MODULE MCReview ---------------------------------
(***************************************************************************)
(* Three modules.  The first has two functions, or a secret in and out of  *)
(* one, or two branches, or loops; the others import.                      *)
(***************************************************************************)
EXTENDS Review

MCModules == 1 .. 3
MCHash == [line \in 0 .. 5 |-> <<3, 1, 5, 0, 4, 2>>[line + 1]]
F(n) == <<"function", n>>
C == <<"comment", 0>>
B == <<"branch", 0>>
S == <<"secret", 0>>
I(m) == <<"import", m>>
T(m) == <<"type_import", m>>

MCTrees ==
  LET of(first, second, third) == [m \in MCModules |-> <<first, second, third>>[m]]
  IN {of(<<F(1), S, F(2), S>>, <<I(3)>>, <<I(2)>>), of(<<S, F(1), B, B>>, <<I(1)>>, <<>>),
      of(<<F(1), C, B, I(2)>>, <<I(1)>>, <<T(2)>>), of(<<I(2)>>, <<I(3)>>, <<I(1), I(2)>>)}
MCInsertions == [m \in MCModules |-> CASE m = 1 -> {C, B, S, I(2)} [] m = 2 -> {} [] OTHER -> {I(1), T(2)}]

\* Edits before the first index only make another tree to start with.
Compared ==
  /\ snapshots = <<>> => edits = 0
  /\ Len(snapshots) = MaxSnapshots => Len(commits) <= 3 /\ tree = Last(snapshots).files

================================================================================
