----------------------------- MODULE IndexRun_proofs -----------------------------
(***************************************************************************)
(* What holds of the database after any number of indexing runs, completed *)
(* or stopped at any step, for all bounds of the model.                    *)
(***************************************************************************)
EXTENDS IndexRun, SequenceTheorems, TLAPS

\* A run has parsed the code once it is past the parse, so what it writes is a version.
HasRead == pc \notin {"idle", "parse"} => run.read.code \in Versions

\* Bounding the history keeps the newest snapshot and loses at most the oldest.
LEMMA NewestKeeps ==
  ASSUME NEW S, NEW a \in Seq(S), Len(a) \in 1 .. 3
  PROVE  /\ Newest(a) \in Seq(S) /\ Len(Newest(a)) \in 1 .. 2
         /\ Newest(a)[Len(Newest(a))] = a[Len(a)]
         /\ \A i \in 1 .. Len(Newest(a)) : \E j \in 1 .. Len(a) : Newest(a)[i] = a[j]
<1> USE DEF History
<1>0. \A n \in 1 .. 3 : n = 3 \/ n \in 1 .. 2
  OBVIOUS
<1>1. CASE Len(a) \in 1 .. 2
  <2>0. \A n \in 1 .. 2 : ~ (n > History)
    OBVIOUS
  <2>1. Newest(a) = a
    BY <1>1, <2>0, Zenon DEF Newest
  <2> QED
    BY <1>1, <2>1, Zenon
<1>2. CASE Len(a) = 3
  <2> DEFINE t == Tail(a)
  <2>1. Newest(a) = t
    BY <1>2 DEF Newest
  <2>2. a # <<>>
    BY <1>2
  <2>3. t \in Seq(S) /\ Len(t) = 2 /\ \A i \in 1 .. 2 : t[i] = a[i + 1]
    BY <1>2, <2>2, HeadTailProperties
  <2> HIDE DEF t
  <2>4. t[2] = a[3]
    BY <2>3
  <2>5. \A i \in 1 .. 2 : \E j \in 1 .. 3 : t[i] = a[j]
    BY <2>3
  <2> QED
    BY <1>2, <2>1, <2>3, <2>4, <2>5
<1> QED
  BY <1>0, <1>1, <1>2, Zenon

\* The snapshots after one more: the new one is the newest, the others were there.
LEMMA AddSnapshot ==
  ASSUME NEW s \in Seq(Snapshot), Len(s) <= History, NEW e \in Snapshot
  PROVE  LET t == Newest(Append(s, e))
         IN /\ t \in Seq(Snapshot) /\ Len(t) \in 1 .. 2 /\ t # <<>>
            /\ t[Len(t)] = e
            /\ \A i \in 1 .. Len(t) : t[i] = e \/ \E j \in 1 .. Len(s) : t[i] = s[j]
<1> DEFINE a == Append(s, e)
           t == Newest(a)
<1>1. a \in Seq(Snapshot) /\ Len(a) = Len(s) + 1 /\ Len(a) \in 1 .. 3 /\ a[Len(a)] = e
  BY DEF History
<1>2. \A j \in 1 .. Len(a) : a[j] = e \/ (j \in 1 .. Len(s) /\ a[j] = s[j])
  OBVIOUS
<1> HIDE DEF a
<1>4. /\ t \in Seq(Snapshot) /\ Len(t) \in 1 .. 2
      /\ t[Len(t)] = e
      /\ \A i \in 1 .. Len(t) : \E j \in 1 .. Len(a) : t[i] = a[j]
  <2>1. /\ Newest(a) \in Seq(Snapshot) /\ Len(Newest(a)) \in 1 .. 2
        /\ Newest(a)[Len(Newest(a))] = a[Len(a)]
        /\ \A i \in 1 .. Len(Newest(a)) : \E j \in 1 .. Len(a) : Newest(a)[i] = a[j]
    BY <1>1, NewestKeeps
  <2> QED
    BY <1>1, <2>1, Zenon
<1>5. \A i \in 1 .. Len(t) : t[i] = e \/ \E j \in 1 .. Len(s) : t[i] = s[j]
  BY <1>2, <1>4, Zenon
<1>6. t # <<>>
  <2>1. Len(<<>>) \notin 1 .. 2
    OBVIOUS
  <2> QED
    BY <1>4, <2>1, Zenon
<1> QED
  BY <1>4, <1>5, <1>6 DEF a

\* Retaining findings in the newest snapshot changes nothing else.
LEMMA RetainFindings ==
  ASSUME NEW s \in Seq(Snapshot), NEW v \in {None} \cup Reads
  PROVE  LET t == [s EXCEPT ![Len(s)].findings = v]
         IN /\ t \in Seq(Snapshot) /\ Len(t) = Len(s)
            /\ s # <<>> => t[Len(s)] = [s[Len(s)] EXCEPT !.findings = v]
            /\ \A i \in DOMAIN s : i # Len(s) => t[i] = s[i]
<1>1. CASE s = <<>>
  <2>1. [s EXCEPT ![Len(s)].findings = v] = s
    BY <1>1
  <2> QED
    BY <1>1, <2>1
<1>2. CASE s # <<>>
  <2> DEFINE n == Len(s)
             e == [s[n] EXCEPT !.findings = v]
  <2>1. n \in 1 .. Len(s) /\ s[n] \in Snapshot
    BY <1>2
  <2>2. e \in Snapshot
    BY <2>1 DEF Snapshot
  <2>3. [s EXCEPT ![n].findings = v] = [s EXCEPT ![n] = e]
    OBVIOUS
  <2> HIDE DEF e, n
  <2>4. /\ [s EXCEPT ![n] = e] \in Seq(Snapshot)
        /\ Len([s EXCEPT ![n] = e]) = Len(s)
        /\ [s EXCEPT ![n] = e][n] = e
        /\ \A i \in 1 .. Len(s) \ {n} : [s EXCEPT ![n] = e][i] = s[i]
    BY <2>1, <2>2, ExceptSeq
  <2> QED
    BY <1>2, <2>3, <2>4 DEF n, e
<1> QED
  BY <1>1, <1>2

\* A part read from the tree as it is now.
LEMMA ReadAPart ==
  ASSUME TypeOK, NEW v \in MaybeVersion
  PROVE  /\ Unread \in Reads
         /\ [Unread EXCEPT !.contract = v] \in Reads
         /\ [run.read EXCEPT !.code = v] \in Reads
         /\ [run.read EXCEPT !.manifests = v] \in Reads
         /\ [run.read EXCEPT !.coverage = v] \in Reads
         /\ [run.read EXCEPT !.packages = v] \in Reads
         /\ [run.read EXCEPT !.hygiene = v] \in Reads
         /\ [run.read EXCEPT !.tracked = v] \in Reads
BY DEF TypeOK, Reads, MaybeVersion, Unread

\* Type correctness needs to know that a run writes after it has read.
THEOREM TypeCorrect == Spec => [](TypeOK /\ HasRead)
<1> USE BoundsAssumption
<1>1. Init => TypeOK /\ HasRead
  BY DEF Init, TypeOK, HasRead, Versions, NothingRead, Unread, Reads, MaybeVersion, Steps, History
<1>2. TypeOK /\ HasRead /\ [Next]_vars => (TypeOK /\ HasRead)'
  <2> SUFFICES ASSUME TypeOK, HasRead, [Next]_vars
               PROVE  (TypeOK /\ HasRead)'
    OBVIOUS
  <2>0. tree \in MaybeVersion /\ tree \in Versions /\ None \in MaybeVersion /\ run.read \in Reads
    BY DEF TypeOK, MaybeVersion
  <2> USE DEF TypeOK, HasRead, Step, world, db, Steps
  <2>1. CASE Begin
    BY <2>0, <2>1, ReadAPart DEF Begin, NothingRead
  <2>2. CASE Parse
    <3>1. run'.read \in Reads /\ run'.read.code \in Versions
      BY <2>0, <2>2, ReadAPart DEF Parse, Reads
    <3> QED
      BY <2>0, <2>2, <3>1 DEF Parse
  <2>3. CASE upsert_git_facts
    BY <2>3 DEF upsert_git_facts
  <2>4. CASE backfill_fix_classification
    BY <2>4 DEF backfill_fix_classification
  <2>5. CASE detect_entry_points
    <3>1. run'.read \in Reads /\ run'.read.code = run.read.code
      BY <2>0, <2>5, ReadAPart DEF detect_entry_points, Reads
    <3> QED
      BY <2>0, <2>5, <3>1 DEF detect_entry_points
  <2>6. CASE Analyze
    <3>1. PICK found \in {None, tree} :
            run' = [run EXCEPT !.pairs = <<commits, run.read.code>>, !.read.coverage = found]
      BY <2>6 DEF Analyze
    <3>2. run'.read = [run.read EXCEPT !.coverage = found]
      BY <3>1
    <3>3. run'.read \in Reads /\ run'.read.code = run.read.code
      <4>1. found \in MaybeVersion
        BY <2>0
      <4> QED
        BY <2>0, <3>2, <4>1, ReadAPart DEF Reads
    <3>4. run'.pairs = <<commits, run.read.code>> /\ run'.head = run.head
          /\ run' = [read |-> run'.read, head |-> run'.head, pairs |-> run'.pairs]
      BY <3>1
    <3>5. <<commits, run.read.code>> \in (0 .. MaxCommits) \X Versions
      BY <2>6 DEF Analyze
    <3> QED
      BY <2>0, <2>6, <3>3, <3>4, <3>5 DEF Analyze
  <2>7. CASE replace_packages
    <3>1. run'.read \in Reads /\ run'.read.code = run.read.code
      BY <2>0, <2>7, ReadAPart DEF replace_packages, Reads
    <3> QED
      BY <2>0, <2>7, <3>1 DEF replace_packages
  <2>8. CASE hygiene_findings
    <3>1. run'.read \in Reads /\ run'.read.code = run.read.code
      BY <2>0, <2>8, ReadAPart DEF hygiene_findings, Reads
    <3> QED
      BY <2>0, <2>8, <3>1 DEF hygiene_findings
  <2>9. CASE scan
    <3>1. run'.read \in Reads /\ run'.read.code = run.read.code
      BY <2>0, <2>9, ReadAPart DEF scan, Reads
    <3> QED
      BY <2>0, <2>9, <3>1 DEF scan
  <2>10. CASE sync_current_index
    <3> DEFINE new == [tree |-> run.read.code, head |-> run.head, findings |-> None]
    <3>1. new \in Snapshot
      BY <2>10 DEF sync_current_index, Snapshot
    <3>2. snapshots' = Newest(Append(snapshots, new))
      BY <2>10 DEF sync_current_index
    <3> HIDE DEF new
    <3>4. snapshots' \in Seq(Snapshot) /\ Len(snapshots') \in 1 .. 2
      BY <3>1, <3>2, AddSnapshot
    <3>5. \A n \in 1 .. 2 : n <= History
      BY DEF History
    <3>6. Len(snapshots') <= History
      BY <3>4, <3>5, Zenon
    <3> QED
      BY <2>10, <3>4, <3>6 DEF sync_current_index, MaybeVersion
  <2>11. CASE replace_co_changes
    BY <2>11 DEF replace_co_changes
  <2>12. CASE replace_findings
    <3>1. snapshots' \in Seq(Snapshot) /\ Len(snapshots') = Len(snapshots)
      BY <2>0, <2>12, RetainFindings DEF replace_findings
    <3> QED
      BY <2>0, <2>12, <3>1 DEF replace_findings
  <2>13. CASE replace_coverage
    <3>1. Unread \in Reads /\ run.read.coverage \in MaybeVersion
      BY <2>0, ReadAPart DEF Reads
    <3> QED
      BY <2>13, <3>1 DEF replace_coverage, NothingRead
  <2>14. CASE Stop
    <3>1. Unread \in Reads
      BY <2>0, ReadAPart
    <3> QED
      BY <2>14, <3>1 DEF Stop, NothingRead
  <2>15. CASE Edit
    BY <2>15 DEF Edit, Versions
  <2>16. CASE Commit
    BY <2>16 DEF Commit
  <2>17. CASE UNCHANGED vars
    BY <2>17 DEF vars
  <2> QED
    BY <2>1, <2>2, <2>3, <2>4, <2>5, <2>6, <2>7, <2>8, <2>9, <2>10, <2>11, <2>12, <2>13,
       <2>14, <2>15, <2>16, <2>17, Zenon DEF Next, RunStep
<1> QED
  BY <1>1, <1>2, PTL DEF Spec

\* The steps at which a run has read everything and writes.
Writing == {"sync", "cochange", "findings", "coverage"}

\* What a run has read when it is about to take a step: the parts that the steps before
\* it read, each no older than the one before and none newer than the tree.
RunReadsInTurn ==
  LET r == run.read IN
  /\ pc # "idle" => r.contract \in Versions /\ r.contract <= tree
  /\ pc \notin {"idle", "parse"} =>
       r.code \in Versions /\ r.contract <= r.code /\ r.code <= tree
  /\ pc \in {"analyze", "packages", "hygiene", "scan"} \cup Writing =>
       r.manifests \in Versions /\ r.code <= r.manifests /\ r.manifests <= tree
  /\ pc \in {"packages", "hygiene", "scan"} \cup Writing =>
       (r.coverage # None => r.manifests <= r.coverage /\ r.coverage <= tree)
  /\ pc \in {"hygiene", "scan"} \cup Writing =>
       /\ r.packages \in Versions /\ r.manifests <= r.packages /\ r.packages <= tree
       /\ r.coverage # None => r.coverage <= r.packages
       /\ packages = r.packages
  /\ pc \in {"scan"} \cup Writing =>
       r.hygiene \in Versions /\ r.packages <= r.hygiene /\ r.hygiene <= tree
  /\ pc \in Writing =>
       r.tracked \in Versions /\ r.hygiene <= r.tracked /\ r.tracked <= tree

\* Findings, of the table or retained, are those of one complete run, none newer than the
\* tree, and older than all that a later run reads, until that run writes its own.
Known(f) ==
  f # None => /\ Complete(f) /\ f.tracked <= tree
              /\ pc \notin {"idle", "coverage"} => f.tracked <= run.read.contract

PersistedIsKnown ==
  /\ Known(findings)
  /\ \A i \in DOMAIN snapshots : Known(snapshots[i].findings)
  /\ packages # None => packages <= tree

\* Nothing the run has read is ahead of the commits persisted, and from its sync on the
\* newest snapshot and the index are the run's own, from its findings on these too.
RunMatchesStore ==
  /\ commits <= log
  /\ run.head # None => run.head <= commits
  /\ run.pairs # None => run.pairs[1] <= commits
  /\ pc \in {"cochange", "findings", "coverage"} =>
       snapshots # <<>> /\ Latest.tree = run.read.code
  /\ pc \in {"cochange", "findings"} => Latest.findings = None
  /\ pc = "coverage" => findings = run.read

StoreInv ==
  /\ SnapshotDescribesIndex /\ FindingsOfOwnRun /\ SnapshotsDoNotOverlap
  /\ RetainedFindingsAreCurrent /\ TablesKeepOrder /\ CommitsBeforeUse
  /\ RunReadsInTurn /\ PersistedIsKnown /\ RunMatchesStore

Inv == TypeOK /\ HasRead /\ StoreInv


\* The types that the arithmetic on versions needs.
LEMMA VersionsAreNumbers ==
  ASSUME TypeOK
  PROVE  /\ Versions \subseteq Nat /\ None \notin Nat
         /\ tree \in Nat /\ run.read \in Reads /\ commits \in Nat /\ log \in Nat
         /\ packages = None \/ packages \in Nat
         /\ coverage = None \/ coverage \in Nat
         /\ run.read.coverage = None \/ run.read.coverage \in Nat
         /\ findings # None => findings \in Reads
         /\ snapshots \in Seq(Snapshot) /\ DOMAIN snapshots = 1 .. Len(snapshots)
         /\ \A i \in DOMAIN snapshots : snapshots[i].tree \in Nat
<1>1. Versions \subseteq Nat /\ None \notin Nat
  BY BoundsAssumption DEF Versions
<1>2. /\ tree \in Nat /\ run.read \in Reads /\ commits \in Nat /\ log \in Nat
      /\ packages = None \/ packages \in Nat
      /\ coverage = None \/ coverage \in Nat
      /\ findings # None => findings \in Reads
      /\ snapshots \in Seq(Snapshot) /\ DOMAIN snapshots = 1 .. Len(snapshots)
  <2>1. /\ tree \in Nat
        /\ packages = None \/ packages \in Nat
        /\ coverage = None \/ coverage \in Nat
    BY <1>1 DEF TypeOK, MaybeVersion
  <2>2. run.read \in Reads /\ (findings # None => findings \in Reads)
    BY DEF TypeOK
  <2>3. commits \in Nat /\ log \in Nat
    BY BoundsAssumption DEF TypeOK
  <2>4. snapshots \in Seq(Snapshot)
    BY DEF TypeOK
  <2>5. DOMAIN snapshots = 1 .. Len(snapshots)
    BY <2>4
  <2> QED
    BY <2>1, <2>2, <2>3, <2>4, <2>5
<1>3. run.read.coverage = None \/ run.read.coverage \in Nat
  BY <1>1, <1>2 DEF Reads, MaybeVersion
<1>4. \A i \in DOMAIN snapshots : snapshots[i].tree \in Nat
  <2>1. \A i \in DOMAIN snapshots : snapshots[i] \in Snapshot
    BY <1>2
  <2> QED
    BY <1>1, <2>1 DEF Snapshot
<1> QED
  BY <1>1, <1>2, <1>3, <1>4

\* Each step reads its part from the tree as it is, which only ever moves on.
LEMMA ReadsStayInTurn ==
  ASSUME Inv, TypeOK', Next
  PROVE  RunReadsInTurn'
<1> USE VersionsAreNumbers
<1>1. TypeOK /\ RunReadsInTurn /\ tree \in Versions
  BY DEF Inv, StoreInv, TypeOK
<1> USE DEF RunReadsInTurn, Writing, Step
<1>2. CASE Begin
  <2>1. run'.read.contract = tree /\ tree' = tree /\ pc' = "parse"
    BY <1>2 DEF Begin, NothingRead, Unread, world
  <2> QED
    BY <1>1, <2>1
<1>3. CASE Parse
  <2>1. run'.read = [run.read EXCEPT !.code = tree]
    BY <1>1, <1>3 DEF Parse, TypeOK
  <2>2. run'.read.contract = run.read.contract /\ run'.read.code = tree
    BY <1>1, <2>1 DEF Reads
  <2> QED
    BY <1>1, <1>3, <2>2 DEF Parse, world
<1>4. CASE upsert_git_facts
  <2>1. run'.read = run.read
    BY <1>1, <1>4 DEF upsert_git_facts, TypeOK
  <2> QED
    BY <1>1, <1>4, <2>1 DEF upsert_git_facts, world
<1>5. CASE backfill_fix_classification
  BY <1>1, <1>5 DEF backfill_fix_classification, world
<1>6. CASE detect_entry_points
  <2>1. run'.read = [run.read EXCEPT !.manifests = tree]
    BY <1>1, <1>6 DEF detect_entry_points, TypeOK
  <2>2. /\ run'.read.contract = run.read.contract /\ run'.read.code = run.read.code
        /\ run'.read.manifests = tree
    BY <1>1, <2>1 DEF Reads
  <2> QED
    BY <1>1, <1>6, <2>2 DEF detect_entry_points, world
<1>7. CASE Analyze
  <2>1. PICK found \in {None, tree} : run'.read = [run.read EXCEPT !.coverage = found]
    BY <1>1, <1>7 DEF Analyze, TypeOK
  <2>2. /\ run'.read.contract = run.read.contract /\ run'.read.code = run.read.code
        /\ run'.read.manifests = run.read.manifests /\ run'.read.coverage = found
    BY <1>1, <2>1 DEF Reads
  <2> QED
    BY <1>1, <1>7, <2>2 DEF Analyze, world
<1>8. CASE replace_packages
  <2>1. run'.read = [run.read EXCEPT !.packages = tree]
    BY <1>1, <1>8 DEF replace_packages, TypeOK
  <2>2. /\ run'.read.contract = run.read.contract /\ run'.read.code = run.read.code
        /\ run'.read.manifests = run.read.manifests /\ run'.read.coverage = run.read.coverage
        /\ run'.read.packages = tree
    BY <1>1, <2>1 DEF Reads
  <2> QED
    BY <1>1, <1>8, <2>2 DEF replace_packages, world
<1>9. CASE hygiene_findings
  <2>1. run'.read = [run.read EXCEPT !.hygiene = tree]
    BY <1>1, <1>9 DEF hygiene_findings, TypeOK
  <2>2. /\ run'.read.contract = run.read.contract /\ run'.read.code = run.read.code
        /\ run'.read.manifests = run.read.manifests /\ run'.read.coverage = run.read.coverage
        /\ run'.read.packages = run.read.packages /\ run'.read.hygiene = tree
    BY <1>1, <2>1 DEF Reads
  <2> QED
    BY <1>1, <1>9, <2>2 DEF hygiene_findings, world, db
<1>10. CASE scan
  <2>1. run'.read = [run.read EXCEPT !.tracked = tree]
    BY <1>1, <1>10 DEF scan, TypeOK
  <2>2. /\ run'.read.contract = run.read.contract /\ run'.read.code = run.read.code
        /\ run'.read.manifests = run.read.manifests /\ run'.read.coverage = run.read.coverage
        /\ run'.read.packages = run.read.packages /\ run'.read.hygiene = run.read.hygiene
        /\ run'.read.tracked = tree
    BY <1>1, <2>1 DEF Reads
  <2> QED
    BY <1>1, <1>10, <2>2 DEF scan, world, db
<1>11. CASE sync_current_index
  BY <1>1, <1>11 DEF sync_current_index, world
<1>12. CASE replace_co_changes
  BY <1>1, <1>12 DEF replace_co_changes, world
<1>13. CASE replace_findings
  BY <1>1, <1>13 DEF replace_findings, world
<1>14. CASE replace_coverage
  BY <1>14 DEF replace_coverage
<1>15. CASE Stop
  BY <1>15 DEF Stop
<1>16. CASE Edit
  BY <1>1, <1>16 DEF Edit, db
<1>17. CASE Commit
  BY <1>1, <1>17 DEF Commit, db
<1> QED
  BY <1>2, <1>3, <1>4, <1>5, <1>6, <1>7, <1>8, <1>9, <1>10, <1>11, <1>12, <1>13, <1>14,
     <1>15, <1>16, <1>17, Zenon DEF Next, RunStep

\* What was known before a run read anything is known while it reads: a step that goes
\* on with the contract it has, begins a run, or ends one.
LEMMA KnownStays ==
  ASSUME Inv, TypeOK', NEW f \in {None} \cup Reads, Known(f), tree' >= tree,
         pc' \notin {"idle", "coverage"} =>
           \/ pc \notin {"idle", "coverage"} /\ run'.read.contract = run.read.contract
           \/ run'.read.contract = tree
  PROVE  Known(f)'
<1>1. f # None => f.tracked \in Nat /\ tree \in Nat /\ tree' \in Nat
  BY VersionsAreNumbers DEF Known, Complete, Inv, TypeOK, Versions
<1> QED
  BY <1>1 DEF Known, Complete

\* A step that leaves what is persisted alone, but for a later inventory of packages.
LEMMA QuietStep ==
  ASSUME Inv, TypeOK', RunReadsInTurn',
         UNCHANGED <<snapshots, index, findings, coChanges, coverage>>,
         packages' = packages \/ packages' = tree,
         tree' >= tree, commits' >= commits, commits' <= log',
         run'.head = None \/ run'.head <= commits',
         run'.pairs = None \/ run'.pairs[1] <= commits',
         pc' \in {"cochange", "findings", "coverage"} => pc = pc' /\ run'.read = run.read,
         pc' \notin {"idle", "coverage"} =>
           \/ pc \notin {"idle", "coverage"} /\ run'.read.contract = run.read.contract
           \/ run'.read.contract = tree
  PROVE  StoreInv'
<1>0. /\ TypeOK /\ tree \in Nat /\ tree' \in Nat /\ findings \in {None} \cup Reads
      /\ \A i \in DOMAIN snapshots : snapshots[i] \in Snapshot
      /\ packages = None \/ packages \in Nat
      /\ findings # None => findings.packages \in Nat
      /\ None \notin Nat
  <2>1. TypeOK /\ Known(findings)
    BY DEF Inv, StoreInv, PersistedIsKnown
  <2>2. /\ Versions \subseteq Nat /\ None \notin Nat /\ tree \in Nat
        /\ packages = None \/ packages \in Nat
        /\ snapshots \in Seq(Snapshot) /\ DOMAIN snapshots = 1 .. Len(snapshots)
    BY <2>1, VersionsAreNumbers
  <2>3. tree' \in Versions /\ findings \in {None} \cup Reads
    BY <2>1 DEF TypeOK
  <2>4. findings # None => findings.packages \in Versions
    BY <2>1 DEF Known, Complete
  <2>5. \A i \in DOMAIN snapshots : snapshots[i] \in Snapshot
    BY <2>2
  <2> QED BY <2>1, <2>2, <2>3, <2>4, <2>5
<1>1. SnapshotDescribesIndex' /\ FindingsOfOwnRun' /\ SnapshotsDoNotOverlap'
      /\ RetainedFindingsAreCurrent'
  BY DEF Inv, StoreInv, SnapshotDescribesIndex, FindingsOfOwnRun, SnapshotsDoNotOverlap,
         RetainedFindingsAreCurrent, Latest, Complete
<1>2. RunMatchesStore'
  BY DEF Inv, StoreInv, RunMatchesStore, Latest
<1>3. commits \in Nat /\ commits' \in Nat
  BY BoundsAssumption DEF Inv, TypeOK
<1>4. CommitsBeforeUse'
  <2>1. coChanges # None => coChanges[1] \in Nat
    BY BoundsAssumption DEF Inv, TypeOK
  <2>2. \A i \in DOMAIN snapshots : snapshots[i].head # None => snapshots[i].head \in Nat
    BY <1>0, BoundsAssumption DEF Snapshot
  <2>3. \A n \in Nat : n <= commits => n <= commits'
    BY <1>3
  <2> QED
    BY <2>1, <2>2, <2>3 DEF Inv, StoreInv, CommitsBeforeUse
<1>5. PersistedIsKnown'
  <2>1. Known(findings)' 
    <3>1. Known(findings)
      BY DEF Inv, StoreInv, PersistedIsKnown
    <3>2. PICK f \in {None} \cup Reads : f = findings
      BY <1>0
    <3>3. Known(f)'
      BY <3>1, <3>2, KnownStays
    <3> QED
      BY <3>2, <3>3 DEF Known, Complete
  <2>2. \A i \in DOMAIN snapshots : Known(snapshots[i].findings)'
    <3> SUFFICES ASSUME NEW i \in DOMAIN snapshots PROVE Known(snapshots[i].findings)'
      OBVIOUS
    <3>1. Known(snapshots[i].findings)
      BY DEF Inv, StoreInv, PersistedIsKnown
    <3>2. PICK f \in {None} \cup Reads : f = snapshots[i].findings
      BY <1>0 DEF Snapshot
    <3>3. Known(f)'
      BY <3>1, <3>2, KnownStays
    <3> QED
      BY <3>2, <3>3 DEF Known, Complete
  <2>3. packages' # None => packages' <= tree'
    BY <1>0 DEF Inv, StoreInv, PersistedIsKnown
  <2> QED
    BY <2>1, <2>2, <2>3 DEF PersistedIsKnown
<1>6. TablesKeepOrder'
  <2>1. findings # None => packages # None /\ findings.packages <= packages /\ findings.packages <= tree
    <3>1. findings # None => findings.packages <= findings.tracked /\ findings.tracked <= tree
                             /\ findings.tracked \in Nat
      <4>1. findings # None => findings.hygiene \in Nat /\ findings.packages \in Nat /\ findings.tracked \in Nat
        BY <1>0, VersionsAreNumbers DEF Inv, StoreInv, PersistedIsKnown, Known, Complete
      <4> QED
        BY <1>0, <4>1 DEF Inv, StoreInv, PersistedIsKnown, Known, Complete
    <3> QED
      BY <1>0, <3>1 DEF Inv, StoreInv, TablesKeepOrder
  <2> QED
    BY <1>0, <2>1 DEF Inv, StoreInv, TablesKeepOrder
<1> QED
  BY <1>1, <1>2, <1>4, <1>5, <1>6 DEF StoreInv


\* What follows from the findings being known: their order in numbers.
LEMMA KnownNumbers ==
  ASSUME TypeOK, NEW f \in {None} \cup Reads, Known(f), f # None
  PROVE  /\ f.contract \in Nat /\ f.code \in Nat /\ f.packages \in Nat /\ f.tracked \in Nat
         /\ f.contract <= f.code /\ f.code <= f.packages /\ f.packages <= f.tracked
         /\ f.tracked <= tree
<1>1. /\ f.contract \in Nat /\ f.code \in Nat /\ f.manifests \in Nat /\ f.packages \in Nat
      /\ f.hygiene \in Nat /\ f.tracked \in Nat
  BY VersionsAreNumbers DEF Known, Complete
<1> QED
  BY <1>1 DEF Known, Complete

\* The reads of a run that writes are those of one complete run, in numbers too.
LEMMA WriterHasRead ==
  ASSUME Inv, pc \in Writing
  PROVE  /\ Complete(run.read)
         /\ run.read.contract \in Nat /\ run.read.code \in Nat /\ run.read.packages \in Nat
         /\ run.read.tracked \in Nat
         /\ run.read.contract <= run.read.code /\ run.read.code <= run.read.packages
         /\ run.read.packages <= run.read.tracked /\ run.read.tracked <= tree
         /\ packages = run.read.packages
<1>1. RunReadsInTurn /\ TypeOK /\ pc # "idle" /\ pc # "parse"
  BY DEF Inv, StoreInv, Writing
<1>2. /\ run.read.contract \in Versions /\ run.read.code \in Versions
      /\ run.read.manifests \in Versions /\ run.read.packages \in Versions
      /\ run.read.hygiene \in Versions /\ run.read.tracked \in Versions
  BY <1>1 DEF RunReadsInTurn
<1>3. Complete(run.read)
  BY <1>1, <1>2 DEF RunReadsInTurn, Complete
<1>4. run.read.tracked <= tree /\ packages = run.read.packages
  BY <1>1 DEF RunReadsInTurn
<1>5. /\ run.read.contract \in Nat /\ run.read.code \in Nat /\ run.read.packages \in Nat
      /\ run.read.tracked \in Nat /\ run.read.manifests \in Nat /\ run.read.hygiene \in Nat
  BY <1>1, <1>2, VersionsAreNumbers
<1> QED
  BY <1>3, <1>4, <1>5 DEF Complete

\* The sync adds a snapshot of the code that the run has parsed, later than every
\* finding that is persisted.
LEMMA SyncStep ==
  ASSUME Inv, TypeOK', RunReadsInTurn', sync_current_index
  PROVE  StoreInv'
<1> DEFINE new == [tree |-> run.read.code, head |-> run.head, findings |-> None]
<1>0. /\ pc = "sync" /\ pc' = "cochange" /\ pc \in Writing /\ TypeOK
      /\ index' = run.read.code /\ run' = run /\ commits' = commits /\ log' = log
      /\ tree' = tree /\ coChanges' = coChanges /\ findings' = findings
      /\ packages' = packages /\ coverage' = coverage
  BY DEF sync_current_index, Step, Writing, world, Inv
<1>1. new \in Snapshot /\ new.tree = run.read.code /\ new.head = run.head /\ new.findings = None
  BY <1>0, BoundsAssumption DEF Inv, TypeOK, HasRead, Snapshot, MaybeVersion
<1>2. snapshots \in Seq(Snapshot) /\ Len(snapshots) <= History
  BY DEF Inv, TypeOK
<1>3. snapshots' = Newest(Append(snapshots, new))
  BY DEF sync_current_index
<1>4. /\ snapshots' # <<>> /\ Len(snapshots') \in 1 .. 2
      /\ snapshots'[Len(snapshots')] = new
      /\ \A i \in 1 .. Len(snapshots') :
           snapshots'[i] = new \/ \E j \in 1 .. Len(snapshots) : snapshots'[i] = snapshots[j]
  <2> HIDE DEF new
  <2> DEFINE t == Newest(Append(snapshots, new))
  <2>1. /\ t # <<>> /\ t[Len(t)] = new /\ Len(t) \in 1 .. 2
        /\ \A i \in 1 .. Len(t) : t[i] = new \/ \E j \in 1 .. Len(snapshots) : t[i] = snapshots[j]
    BY <1>1, <1>2, AddSnapshot
  <2> QED
    BY <1>3, <2>1
<1>5. DOMAIN snapshots = 1 .. Len(snapshots) /\ DOMAIN snapshots' = 1 .. Len(snapshots')
  BY DEF Inv, TypeOK
<1> HIDE DEF new
<1>6. Latest' = new
  BY <1>4, Zenon DEF Latest
<1>7. \A i \in 1 .. Len(snapshots) :
        /\ Known(snapshots[i].findings)
        /\ snapshots[i].findings \in {None} \cup Reads
        /\ snapshots[i].findings # None => snapshots[i].findings.tracked <= run.read.code
                                           /\ snapshots[i].findings.tracked \in Nat
  <2> SUFFICES ASSUME NEW i \in 1 .. Len(snapshots)
               PROVE  /\ Known(snapshots[i].findings)
                      /\ snapshots[i].findings \in {None} \cup Reads
                      /\ snapshots[i].findings # None =>
                           snapshots[i].findings.tracked <= run.read.code
                           /\ snapshots[i].findings.tracked \in Nat
    OBVIOUS
  <2>1. Known(snapshots[i].findings)
    BY <1>5 DEF Inv, StoreInv, PersistedIsKnown
  <2>2. snapshots[i].findings \in {None} \cup Reads
    <3>1. snapshots[i] \in Snapshot
      BY <1>2
    <3> QED
      BY <3>1 DEF Snapshot
  <2>3. snapshots[i].findings # None => snapshots[i].findings.tracked \in Nat
    BY <1>0, <2>1, <2>2, KnownNumbers
  <2>4. snapshots[i].findings # None => snapshots[i].findings.tracked <= run.read.contract
    BY <1>0, <2>1 DEF Known
  <2>5. run.read.contract \in Nat /\ run.read.code \in Nat /\ run.read.contract <= run.read.code
    BY <1>0, WriterHasRead
  <2> QED
    BY <2>1, <2>2, <2>3, <2>4, <2>5
<1>8. findings # None => findings.tracked <= run.read.code
  <2>1. Known(findings) /\ findings \in {None} \cup Reads
    BY <1>0 DEF Inv, TypeOK, StoreInv, PersistedIsKnown
  <2>2. findings # None => findings.tracked \in Nat /\ findings.tracked <= run.read.contract
    BY <1>0, <2>1, KnownNumbers DEF Known
  <2>3. run.read.contract \in Nat /\ run.read.code \in Nat /\ run.read.contract <= run.read.code
    BY <1>0, WriterHasRead
  <2> QED
    BY <2>2, <2>3
<1>9. SnapshotDescribesIndex' /\ RetainedFindingsAreCurrent'
  BY <1>0, <1>1, <1>4, <1>6, <1>8 DEF SnapshotDescribesIndex, RetainedFindingsAreCurrent
<1>10. FindingsOfOwnRun'
  <2>1. \A i \in 1 .. Len(snapshots') : snapshots'[i].findings # None =>
          /\ snapshots'[i].findings.code = snapshots'[i].tree
          /\ Complete(snapshots'[i].findings)
    BY <1>1, <1>4, <1>5 DEF Inv, StoreInv, FindingsOfOwnRun
  <2> QED
    BY <1>5, <2>1 DEF FindingsOfOwnRun, Complete
<1>11. SnapshotsDoNotOverlap'
  <2> SUFFICES ASSUME NEW i \in DOMAIN snapshots', NEW j \in DOMAIN snapshots', i < j,
                      snapshots'[i].findings # None
               PROVE  snapshots'[i].findings.tracked <= snapshots'[j].tree
    BY DEF SnapshotsDoNotOverlap
  <2>1. j = Len(snapshots')
    BY <1>4, <1>5
  <2>2. snapshots'[j].tree = run.read.code
    BY <1>1, <1>4, <2>1
  <2>3. PICK k \in 1 .. Len(snapshots) : snapshots'[i] = snapshots[k]
    BY <1>1, <1>4, <1>5
  <2> QED
    BY <1>7, <2>2, <2>3
<1>12. TablesKeepOrder'
  BY <1>0 DEF Inv, StoreInv, TablesKeepOrder
<1>13. CommitsBeforeUse'
  <2>1. \A i \in 1 .. Len(snapshots') :
          snapshots'[i].head # None => snapshots'[i].head <= commits
    BY <1>1, <1>4, <1>5 DEF Inv, StoreInv, CommitsBeforeUse, RunMatchesStore
  <2> QED
    BY <1>0, <1>5, <2>1 DEF Inv, StoreInv, CommitsBeforeUse
<1>14. PersistedIsKnown'
  <2>1. Known(findings)'
    BY <1>0 DEF Inv, StoreInv, PersistedIsKnown, Known, Complete
  <2>2. (\A i \in DOMAIN snapshots : Known(snapshots[i].findings))'
    <3> SUFFICES ASSUME NEW i \in 1 .. Len(snapshots') PROVE Known(snapshots[i].findings)'
      BY <1>5
    <3>1. CASE snapshots'[i] = new
      BY <1>1, <3>1 DEF Known
    <3>2. CASE \E j \in 1 .. Len(snapshots) : snapshots'[i] = snapshots[j]
      <4>1. PICK j \in 1 .. Len(snapshots) : snapshots'[i] = snapshots[j]
        BY <3>2
      <4>2. Known(snapshots[j].findings)
        BY <1>7
      <4> QED
        BY <1>0, <4>1, <4>2 DEF Known, Complete
    <3> QED
      BY <1>4, <3>1, <3>2
  <2> QED
    BY <1>0, <1>5, <2>1, <2>2 DEF Inv, StoreInv, PersistedIsKnown
<1>15. RunMatchesStore'
  BY <1>0, <1>1, <1>4, <1>6 DEF Inv, StoreInv, RunMatchesStore
<1> QED
  BY <1>9, <1>10, <1>11, <1>12, <1>13, <1>14, <1>15 DEF StoreInv


\* The findings of a run end up in its own snapshot, the newest.
LEMMA FindingsStep ==
  ASSUME Inv, TypeOK', RunReadsInTurn', replace_findings
  PROVE  StoreInv'
<1> DEFINE n == Len(snapshots)
<1>0. /\ pc = "findings" /\ pc' = "coverage" /\ pc \in Writing /\ TypeOK
      /\ findings' = run.read /\ index' = index /\ run' = run /\ commits' = commits
      /\ log' = log /\ tree' = tree /\ coChanges' = coChanges
      /\ packages' = packages /\ coverage' = coverage
  BY DEF replace_findings, Step, Writing, world, Inv
<1>1. snapshots \in Seq(Snapshot) /\ run.read \in {None} \cup Reads /\ run.read # None
  <2>1. run.read \in Reads
    BY <1>0 DEF TypeOK
  <2>2. run.read # None
    BY <2>1, NoneAssumption
  <2> QED
    BY <1>0, <2>1, <2>2 DEF TypeOK
<1>2. snapshots # <<>> /\ Latest.tree = run.read.code /\ index = run.read.code
  BY <1>0 DEF Inv, StoreInv, RunMatchesStore, SnapshotDescribesIndex
<1>3. snapshots' = [snapshots EXCEPT ![n].findings = run.read]
  BY DEF replace_findings
<1>4. /\ snapshots' \in Seq(Snapshot) /\ Len(snapshots') = n
      /\ snapshots'[n] = [snapshots[n] EXCEPT !.findings = run.read]
      /\ \A i \in DOMAIN snapshots : i # n => snapshots'[i] = snapshots[i]
  BY <1>1, <1>2, <1>3, RetainFindings
<1>5. n \in DOMAIN snapshots /\ snapshots[n] \in Snapshot
  BY <1>1, <1>2
<1>6. /\ Latest'.tree = Latest.tree /\ Latest'.head = Latest.head
      /\ Latest'.findings = run.read
  BY <1>4, <1>5 DEF Latest, Snapshot
<1>7. \A i \in DOMAIN snapshots' :
        /\ i \in DOMAIN snapshots
        /\ snapshots'[i].tree = snapshots[i].tree
        /\ snapshots'[i].head = snapshots[i].head
        /\ i # n => snapshots'[i].findings = snapshots[i].findings
        /\ i = n => snapshots'[i].findings = run.read
  BY <1>1, <1>4, <1>5 DEF Snapshot
<1>8. DOMAIN snapshots' = 1 .. n /\ DOMAIN snapshots = 1 .. n /\ snapshots' # <<>> /\ n \in Nat
  BY <1>1, <1>2, <1>4
<1> HIDE DEF n
<1>9. SnapshotDescribesIndex' /\ RetainedFindingsAreCurrent' /\ RunMatchesStore'
  BY <1>0, <1>1, <1>2, <1>6, <1>8 DEF Inv, StoreInv, SnapshotDescribesIndex,
     RetainedFindingsAreCurrent, RunMatchesStore
<1>10. FindingsOfOwnRun'
  <2>1. snapshots[n].tree = run.read.code
    BY <1>2 DEF Latest, n
  <2>2. Complete(run.read)
    BY <1>0, WriterHasRead
  <2> SUFFICES ASSUME NEW i \in DOMAIN snapshots', snapshots'[i].findings # None
               PROVE  snapshots'[i].findings.code = snapshots'[i].tree
                      /\ Complete(snapshots'[i].findings)
    BY DEF FindingsOfOwnRun, Complete
  <2> QED
    BY <1>7, <2>1, <2>2 DEF Inv, StoreInv, FindingsOfOwnRun
<1>11. SnapshotsDoNotOverlap'
  <2> SUFFICES ASSUME NEW i \in DOMAIN snapshots', NEW j \in DOMAIN snapshots', i < j,
                      snapshots'[i].findings # None
               PROVE  snapshots'[i].findings.tracked <= snapshots'[j].tree
    BY DEF SnapshotsDoNotOverlap
  <2>1. i # n
    BY <1>8
  <2> QED
    BY <1>7, <2>1 DEF Inv, StoreInv, SnapshotsDoNotOverlap
<1>12. TablesKeepOrder'
  <2>1. coverage # None => coverage <= run.read.packages
    <3> SUFFICES ASSUME coverage # None PROVE coverage <= run.read.packages
      OBVIOUS
    <3>1. findings # None /\ coverage <= findings.packages /\ Known(findings)
      BY DEF Inv, StoreInv, TablesKeepOrder, PersistedIsKnown
    <3>2. findings \in {None} \cup Reads /\ coverage \in Nat
      BY <1>0, VersionsAreNumbers
    <3>3. /\ findings.packages \in Nat /\ findings.tracked \in Nat
          /\ findings.packages <= findings.tracked
      BY <1>0, <3>1, <3>2, KnownNumbers
    <3>4. findings.tracked <= run.read.contract
      BY <1>0, <3>1 DEF Known
    <3>5. /\ run.read.contract \in Nat /\ run.read.code \in Nat /\ run.read.packages \in Nat
          /\ run.read.contract <= run.read.code /\ run.read.code <= run.read.packages
      BY <1>0, WriterHasRead
    <3> QED
      BY <3>1, <3>2, <3>3, <3>4, <3>5
  <2>2. packages # None /\ run.read.packages <= packages
    BY <1>0, WriterHasRead, VersionsAreNumbers
  <2> QED
    BY <1>0, <1>1, <2>1, <2>2 DEF TablesKeepOrder
<1>13. CommitsBeforeUse'
  BY <1>0, <1>7 DEF Inv, StoreInv, CommitsBeforeUse
<1>14. PersistedIsKnown'
  <2>1. Complete(run.read) /\ run.read.tracked <= tree
    BY <1>0, WriterHasRead
  <2>2. Known(findings)'
    BY <1>0, <2>1 DEF Known, Complete
  <2>3. (\A i \in DOMAIN snapshots : Known(snapshots[i].findings))'
    <3> SUFFICES ASSUME NEW i \in DOMAIN snapshots' PROVE Known(snapshots[i].findings)'
      OBVIOUS
    <3>1. CASE i = n
      <4>1. snapshots'[i].findings = run.read
        BY <1>7, <3>1
      <4> QED
        BY <1>0, <2>1, <4>1 DEF Known, Complete
    <3>2. CASE i # n
      <4>1. i \in DOMAIN snapshots /\ snapshots'[i].findings = snapshots[i].findings
        BY <1>7, <3>2
      <4>2. Known(snapshots[i].findings)
        BY <4>1 DEF Inv, StoreInv, PersistedIsKnown
      <4> QED
        BY <1>0, <4>1, <4>2 DEF Known, Complete
    <3> QED
      BY <3>1, <3>2
  <2> QED
    BY <1>0, <2>2, <2>3 DEF Inv, StoreInv, PersistedIsKnown
<1> QED
  BY <1>9, <1>10, <1>11, <1>12, <1>13, <1>14 DEF StoreInv

\* The pairs a run writes come from commits that are persisted.
LEMMA CoChangeStep ==
  ASSUME Inv, TypeOK', RunReadsInTurn', replace_co_changes
  PROVE  StoreInv'
<1>1. SnapshotDescribesIndex' /\ FindingsOfOwnRun' /\ SnapshotsDoNotOverlap'
      /\ RetainedFindingsAreCurrent' /\ TablesKeepOrder' /\ CommitsBeforeUse'
  BY DEF replace_co_changes, world, Inv, StoreInv, SnapshotDescribesIndex, FindingsOfOwnRun,
         SnapshotsDoNotOverlap, RetainedFindingsAreCurrent, TablesKeepOrder, CommitsBeforeUse,
         RunMatchesStore, Latest, Complete
<1>2. PersistedIsKnown' /\ RunMatchesStore'
  BY DEF replace_co_changes, world, Step, Inv, StoreInv, PersistedIsKnown, Known, Complete,
         RunMatchesStore, Latest
<1> QED
  BY <1>1, <1>2 DEF StoreInv

\* The coverage that a run read is no newer than the inventory its findings go by.
LEMMA CoverageStep ==
  ASSUME Inv, TypeOK', RunReadsInTurn', replace_coverage
  PROVE  StoreInv'
<1>0. /\ pc = "coverage" /\ pc' = "idle" /\ pc \in Writing /\ TypeOK
      /\ run' = NothingRead /\ tree' = tree /\ log' = log
      /\ UNCHANGED <<snapshots, index, findings, coChanges, packages, commits>>
      /\ coverage' = coverage \/ coverage' = run.read.coverage
      /\ findings = run.read
  BY DEF replace_coverage, Step, Writing, world, Inv, StoreInv, RunMatchesStore
<1>1. SnapshotDescribesIndex' /\ FindingsOfOwnRun' /\ SnapshotsDoNotOverlap'
      /\ RetainedFindingsAreCurrent' /\ CommitsBeforeUse'
  BY <1>0 DEF Inv, StoreInv, SnapshotDescribesIndex, FindingsOfOwnRun, SnapshotsDoNotOverlap,
     RetainedFindingsAreCurrent, CommitsBeforeUse, Latest, Complete
<1>2. TablesKeepOrder'
  <2>1. run.read.coverage # None => run.read.coverage <= run.read.packages
    BY <1>0 DEF Inv, StoreInv, RunReadsInTurn, Writing
  <2>2. findings # None /\ packages # None /\ findings.packages <= packages
    <3>1. run.read # None
      BY <1>0, VersionsAreNumbers, NoneAssumption
    <3> QED
      BY <1>0, <3>1 DEF Inv, StoreInv, TablesKeepOrder
  <2> QED
    BY <1>0, <2>1, <2>2 DEF Inv, StoreInv, TablesKeepOrder
<1>3. PersistedIsKnown'
  BY <1>0 DEF Inv, StoreInv, PersistedIsKnown, Known, Complete
<1>4. RunMatchesStore'
  BY <1>0 DEF Inv, StoreInv, RunMatchesStore, NothingRead
<1> QED
  BY <1>1, <1>2, <1>3, <1>4 DEF StoreInv

\* However often the tree is edited while a run reads it and wherever runs stop: the newest
\* snapshot describes the index; the findings a snapshot retains are those of one complete
\* run over its code, all known before the code of the next snapshot; the findings table is
\* the newest snapshot's or older than it; packages, findings and coverage keep their order;
\* and nothing derived from the git history is ahead of the commits persisted.
THEOREM StoreConsistent == Spec => []StoreAgrees
<1>1. Init => StoreInv
  BY BoundsAssumption DEF Init, StoreInv, SnapshotDescribesIndex, FindingsOfOwnRun,
     SnapshotsDoNotOverlap, RetainedFindingsAreCurrent, TablesKeepOrder, CommitsBeforeUse,
     RunReadsInTurn, PersistedIsKnown, Known, RunMatchesStore, NothingRead, Writing
<1>2. (TypeOK /\ HasRead) /\ (TypeOK /\ HasRead)' /\ StoreInv /\ [Next]_vars => StoreInv'
  <2> SUFFICES ASSUME Inv, TypeOK', HasRead', [Next]_vars
               PROVE  StoreInv'
    BY DEF Inv
  <2>a. CASE UNCHANGED vars
    <3>1. SnapshotDescribesIndex' /\ FindingsOfOwnRun' /\ SnapshotsDoNotOverlap'
          /\ RetainedFindingsAreCurrent' /\ TablesKeepOrder' /\ CommitsBeforeUse'
      BY <2>a DEF Inv, StoreInv, vars, world, db, SnapshotDescribesIndex, FindingsOfOwnRun,
         SnapshotsDoNotOverlap, RetainedFindingsAreCurrent, TablesKeepOrder, CommitsBeforeUse,
         Latest, Complete
    <3>2. RunReadsInTurn' /\ RunMatchesStore'
      BY <2>a DEF Inv, StoreInv, vars, world, db, RunReadsInTurn, RunMatchesStore, Latest
    <3>3. PersistedIsKnown'
      BY <2>a DEF Inv, StoreInv, vars, world, db, PersistedIsKnown, Known, Complete
    <3> QED
      BY <3>1, <3>2, <3>3 DEF StoreInv
  <2>b. CASE Next
    <3>0. /\ commits \in Nat /\ log \in Nat /\ commits <= log /\ tree \in Nat /\ tree' \in Nat
          /\ run.head = None \/ run.head <= commits
          /\ run.pairs = None \/ run.pairs[1] <= commits
          /\ run.head = None \/ run.head \in Nat
          /\ run.pairs = None \/ run.pairs[1] \in Nat
      BY BoundsAssumption DEF Inv, TypeOK, StoreInv, RunMatchesStore, Versions
    <3>r. RunReadsInTurn'
      BY <2>b, ReadsStayInTurn
    <3>t. run = [read |-> run.read, head |-> run.head, pairs |-> run.pairs] /\ run.read \in Reads
      BY DEF Inv, TypeOK
    <3>1. CASE Begin
      <4>1. run'.head = None /\ run'.pairs = None /\ run'.read.contract = tree
        BY <3>1 DEF Begin, NothingRead, Unread
      <4> QED
        BY <3>0, <3>1, <3>r, <4>1, QuietStep DEF Begin, Step, world, db
    <3>2. CASE Parse
      <4>1. run'.head = run.head /\ run'.pairs = run.pairs /\ run'.read.contract = run.read.contract
        BY <3>2, <3>t DEF Parse, Reads
      <4> QED
        BY <3>0, <3>2, <3>r, <4>1, QuietStep DEF Parse, world, db
    <3>3. CASE upsert_git_facts
      <4>1. run'.head = log /\ run'.pairs = run.pairs /\ run'.read = run.read
        BY <3>3, <3>t DEF upsert_git_facts
      <4> QED
        BY <3>0, <3>3, <3>r, <4>1, QuietStep DEF upsert_git_facts, Step, world
    <3>4. CASE backfill_fix_classification
      BY <3>0, <3>4, <3>r, QuietStep DEF backfill_fix_classification, Step, world
    <3>5. CASE detect_entry_points
      <4>1. run'.head = run.head /\ run'.pairs = run.pairs /\ run'.read.contract = run.read.contract
        BY <3>5, <3>t DEF detect_entry_points, Reads
      <4> QED
        BY <3>0, <3>5, <3>r, <4>1, QuietStep DEF detect_entry_points, Step, world, db
    <3>6. CASE Analyze
      <4>1. run'.head = run.head /\ run'.pairs[1] = commits /\ run'.read.contract = run.read.contract
        BY <3>6, <3>t DEF Analyze, Reads
      <4> QED
        BY <3>0, <3>6, <3>r, <4>1, QuietStep DEF Analyze, Step, world, db
    <3>7. CASE replace_packages
      <4>1. run'.head = run.head /\ run'.pairs = run.pairs /\ run'.read.contract = run.read.contract
        BY <3>7, <3>t DEF replace_packages, Reads
      <4> QED
        BY <3>0, <3>7, <3>r, <4>1, QuietStep DEF replace_packages, Step, world
    <3>8. CASE hygiene_findings
      <4>1. run'.head = run.head /\ run'.pairs = run.pairs /\ run'.read.contract = run.read.contract
        BY <3>8, <3>t DEF hygiene_findings, Reads
      <4> QED
        BY <3>0, <3>8, <3>r, <4>1, QuietStep DEF hygiene_findings, Step, world, db
    <3>9. CASE scan
      <4>1. run'.head = run.head /\ run'.pairs = run.pairs /\ run'.read.contract = run.read.contract
        BY <3>9, <3>t DEF scan, Reads
      <4> QED
        BY <3>0, <3>9, <3>r, <4>1, QuietStep DEF scan, Step, world, db
    <3>10. CASE sync_current_index
      BY <3>10, <3>r, SyncStep
    <3>11. CASE replace_co_changes
      BY <3>11, <3>r, CoChangeStep
    <3>12. CASE replace_findings
      BY <3>12, <3>r, FindingsStep
    <3>13. CASE replace_coverage
      BY <3>13, <3>r, CoverageStep
    <3>14. CASE Stop
      BY <3>0, <3>14, <3>r, QuietStep DEF Stop, NothingRead, world, db
    <3>15. CASE Edit
      BY <3>0, <3>15, <3>r, QuietStep DEF Edit, db
    <3>16. CASE Commit
      BY <3>0, <3>16, <3>r, QuietStep DEF Commit, db
    <3> QED
      BY <2>b, <3>1, <3>2, <3>3, <3>4, <3>5, <3>6, <3>7, <3>8, <3>9, <3>10, <3>11, <3>12,
         <3>13, <3>14, <3>15, <3>16, Zenon DEF Next, RunStep
  <2> QED
    BY <2>a, <2>b
<1>3. StoreInv => StoreAgrees
  BY DEF StoreInv, StoreAgrees
<1> QED
  BY <1>1, <1>2, <1>3, TypeCorrect, PTL DEF Spec

================================================================================
