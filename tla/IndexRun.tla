------------------------------- MODULE IndexRun --------------------------------
(***************************************************************************)
(* index_repository of ovecc-indexer: one run of "ovecc index" as the      *)
(* sequence of reads and database transactions it performs, with the       *)
(* working tree and the git history changing between any two of them and   *)
(* the process stopping (an error returned with "?", a crash, a kill) at   *)
(* any of them.                                                            *)
(*                                                                         *)
(* The data of a run is abstracted to the versions of the working tree it  *)
(* was computed from.  A run reads the tree not once but in turn: contract,*)
(* code, manifests, tracefile, lockfiles, the manifests again and the      *)
(* tracked files that are not code; its findings may so mix trees.         *)
(* The transaction of sync_current_index is the subject of IndexSync.      *)
(* DuckDB locks the file for the process that has it open, so another      *)
(* command sees the database only while no run is under way.               *)
(***************************************************************************)
EXTENDS Naturals, Sequences

CONSTANTS
  None,         \* nothing persisted, no value
  MaxEdits,     \* bound of the model: edits of the working tree
  MaxCommits,   \* bound of the model: commits made
  MaxStops      \* bound of the model: runs that stop before their end

ASSUME BoundsAssumption ==
  /\ MaxEdits \in Nat /\ MaxCommits \in Nat /\ MaxStops \in Nat
  /\ None \notin Nat

VARIABLES
  \* The world outside the process.
  tree,          \* version of the working tree
  log,           \* number of commits in the git history
  stops,         \* number of runs stopped so far
  \* The run in memory.
  pc,            \* the step the run is about to take
  run,           \* what it has read so far
  \* The database.
  commits,       \* commits ingested, a prefix of the history
  unclassified,  \* legacy commits without a fix classification remain
  packages,      \* tree version of the lockfiles in the package inventory
  index,         \* tree version of rows and graph
  snapshots,     \* the newest snapshots, oldest first
  coChanges,     \* <<commits, tree>> the pairs were computed from
  findings,      \* the reads that the findings table was computed from
  coverage       \* tree version of the coverage table

world == <<tree, log>>
db == <<commits, unclassified, packages, index, snapshots, coChanges, findings, coverage>>
vars == <<world, stops, pc, run, db>>

Versions == 0 .. MaxEdits
Steps == {"idle", "parse", "git", "backfill", "entries", "analyze", "packages", "hygiene",
          "scan", "sync", "cochange", "findings", "coverage"}

\* review, diff and drift read the two newest snapshots; older ones are
\* not represented.
History == 2
Newest(s) == IF Len(s) > History THEN Tail(s) ELSE s
Latest == snapshots[Len(snapshots)]

\* The versions of the tree that a run has read each part of its input from.
Unread == [contract |-> None, code |-> None, manifests |-> None, coverage |-> None,
           packages |-> None, hygiene |-> None, tracked |-> None]
NothingRead == [read |-> Unread, head |-> None, pairs |-> None]

Init ==
  /\ tree = 0 /\ log = 0 /\ stops = 0
  /\ pc = "idle" /\ run = NothingRead
  /\ commits = 0 /\ unclassified = TRUE   \* also a database of an earlier version
  /\ packages = None /\ index = None /\ snapshots = <<>>
  /\ coChanges = None /\ findings = None /\ coverage = None

--------------------------------------------------------------------------------
(* The steps of a run, in the order of index_repository. *)

Step(from, to) == pc = from /\ pc' = to

\* Faulty variant: a tree that is already indexed is not looked at again.
Begin_when_changed ==
  /\ index # tree
  /\ Step("idle", "parse")
  /\ run' = [NothingRead EXCEPT !.read.contract = tree]
  /\ UNCHANGED <<world, stops, db>>

\* Opens the store and loads the contract.
Begin ==
  /\ Step("idle", "parse")
  /\ run' = [NothingRead EXCEPT !.read.contract = tree]
  /\ UNCHANGED <<world, stops, db>>

\* Discovery, parsing and resolution read the working tree.
Parse ==
  /\ pc = "parse"
  /\ pc' \in {"git", "entries"}          \* "entries": --skip-git
  /\ run' = [run EXCEPT !.read.code = tree]
  /\ UNCHANGED <<world, stops, db>>

\* Known commits are skipped, so nothing persisted is ever rewritten.
upsert_git_facts ==
  /\ Step("git", "backfill")
  /\ commits' = log
  /\ run' = [run EXCEPT !.head = log]
  /\ UNCHANGED <<world, stops, unclassified, packages, index, snapshots, coChanges,
                 findings, coverage>>

backfill_fix_classification ==
  /\ Step("backfill", "entries")
  /\ unclassified' = FALSE
  /\ UNCHANGED <<world, stops, run, commits, packages, index, snapshots, coChanges,
                 findings, coverage>>

\* What counts as an entry point stands in the manifests.
detect_entry_points ==
  /\ Step("entries", "analyze")
  /\ run' = [run EXCEPT !.read.manifests = tree]
  /\ UNCHANGED <<world, stops, db>>

\* co_changed_pairs over the persisted commits, then read_coverage and the rules;
\* a tracefile that is absent or cannot be used yields no coverage to persist.
Analyze ==
  /\ Step("analyze", "packages")
  /\ \E found \in {None, tree} :
       run' = [run EXCEPT !.pairs = <<commits, run.read.code>>, !.read.coverage = found]
  /\ UNCHANGED <<world, stops, db>>

\* audit_findings takes inventory of the lockfiles as they are now.
replace_packages ==
  /\ Step("packages", "hygiene")
  /\ packages' = tree
  /\ run' = [run EXCEPT !.read.packages = tree]
  /\ UNCHANGED <<world, stops, commits, unclassified, index, snapshots, coChanges,
                 findings, coverage>>

\* Unused and undeclared packages: the manifests once more.
hygiene_findings ==
  /\ Step("hygiene", "scan")
  /\ run' = [run EXCEPT !.read.hygiene = tree]
  /\ UNCHANGED <<world, stops, db>>

\* tracked_secrets::scan reads the files that are not indexed.
scan ==
  /\ Step("scan", "sync")
  /\ run' = [run EXCEPT !.read.tracked = tree]
  /\ UNCHANGED <<world, stops, db>>

sync_current_index ==
  /\ Step("sync", "cochange")
  /\ index' = run.read.code
  /\ snapshots' = Newest(Append(snapshots,
                    [tree |-> run.read.code, head |-> run.head, findings |-> None]))
  /\ UNCHANGED <<world, stops, run, commits, unclassified, packages, coChanges,
                 findings, coverage>>

replace_co_changes ==
  /\ Step("cochange", "findings")
  /\ coChanges' = run.pairs
  /\ UNCHANGED <<world, stops, run, commits, unclassified, packages, index, snapshots,
                 findings, coverage>>

\* Faulty variant: what is retained is computed anew from the tree.
replace_findings_retaining_later ==
  /\ Step("findings", "coverage")
  /\ findings' = run.read
  /\ snapshots' = [snapshots EXCEPT ![Len(snapshots)].findings = [run.read EXCEPT !.tracked = tree]]
  /\ UNCHANGED <<world, stops, run, commits, unclassified, packages, index, coChanges,
                 coverage>>

\* The findings table and the retained findings of this run's snapshot.
replace_findings ==
  /\ Step("findings", "coverage")
  /\ findings' = run.read
  /\ snapshots' = [snapshots EXCEPT ![Len(snapshots)].findings = run.read]
  /\ UNCHANGED <<world, stops, run, commits, unclassified, packages, index, coChanges,
                 coverage>>

replace_coverage ==
  /\ Step("coverage", "idle")
  /\ coverage' = IF run.read.coverage = None THEN coverage ELSE run.read.coverage
  /\ run' = NothingRead
  /\ UNCHANGED <<world, stops, commits, unclassified, packages, index, snapshots,
                 coChanges, findings>>

RunStep ==
  \/ Begin \/ Parse \/ upsert_git_facts \/ backfill_fix_classification
  \/ detect_entry_points \/ Analyze \/ replace_packages \/ hygiene_findings \/ scan
  \/ sync_current_index \/ replace_co_changes
  \/ replace_findings \/ replace_coverage

\* The process ends early; what its transactions committed stays.
Stop ==
  /\ pc # "idle" /\ stops < MaxStops
  /\ stops' = stops + 1
  /\ pc' = "idle" /\ run' = NothingRead
  /\ UNCHANGED <<world, db>>

Edit ==
  /\ tree < MaxEdits
  /\ tree' = tree + 1
  /\ UNCHANGED <<log, stops, pc, run, db>>

Commit ==
  /\ log < MaxCommits
  /\ log' = log + 1
  /\ UNCHANGED <<tree, stops, pc, run, db>>

Next == RunStep \/ Stop \/ Edit \/ Commit

Spec == Init /\ [][Next]_vars

\* A run that started takes its next step, and the command is run again.
Fairness == WF_vars(RunStep)

FairSpec == Spec /\ Fairness

--------------------------------------------------------------------------------
(* Properties. *)

MaybeVersion == {None} \cup Versions

Reads == [contract : MaybeVersion, code : MaybeVersion, manifests : MaybeVersion,
          coverage : MaybeVersion, packages : MaybeVersion, hygiene : MaybeVersion,
          tracked : MaybeVersion]
\* No value is none.
ASSUME NoneAssumption == None \notin Reads

Snapshot == [tree : Versions, head : {None} \cup 0 .. MaxCommits, findings : {None} \cup Reads]

\* The values of every variable; a snapshot always names the tree it describes.
TypeOK ==
  /\ tree \in Versions /\ log \in 0 .. MaxCommits
  /\ stops \in 0 .. MaxStops
  /\ pc \in Steps
  /\ run \in [read : Reads, head : {None} \cup 0 .. MaxCommits,
              pairs : {None} \cup (0 .. MaxCommits) \X Versions]
  /\ commits \in 0 .. MaxCommits /\ unclassified \in BOOLEAN
  /\ packages \in MaybeVersion /\ index \in MaybeVersion
  /\ snapshots \in Seq(Snapshot) /\ Len(snapshots) <= History
  /\ coChanges \in {None} \cup (0 .. MaxCommits) \X Versions
  /\ findings \in {None} \cup Reads /\ coverage \in MaybeVersion

\* Rows, graph and newest snapshot commit together: whatever stopped, the
\* newest snapshot describes the persisted index.
SnapshotDescribesIndex ==
  IF snapshots = <<>> THEN index = None ELSE Latest.tree = index

\* Every part read from a version, and no part from an older one than a part before it.
Complete(read) ==
  /\ {read.contract, read.code, read.manifests, read.packages, read.hygiene, read.tracked}
       \subseteq Versions
  /\ read.contract <= read.code /\ read.code <= read.manifests /\ read.manifests <= read.packages
  /\ read.coverage # None => read.manifests <= read.coverage /\ read.coverage <= read.packages
  /\ read.packages <= read.hygiene /\ read.hygiene <= read.tracked

\* The findings that a snapshot retains are those of one complete run over the code of
\* the snapshot: what else they were computed from was read after that code, ...
FindingsOfOwnRun ==
  \A i \in DOMAIN snapshots : LET f == snapshots[i].findings IN
    f # None => f.code = snapshots[i].tree /\ Complete(f)

\* ... but before the code of any later snapshot.  What a review names as new between
\* two snapshots was not known to the older one already.
SnapshotsDoNotOverlap ==
  \A i, j \in DOMAIN snapshots : LET f == snapshots[i].findings IN
    i < j /\ f # None => f.tracked <= snapshots[j].tree

\* The findings table is what the newest snapshot retains; a run that stopped before its
\* findings leaves older ones, all of a time before the snapshot.
RetainedFindingsAreCurrent ==
  snapshots # <<>> =>
    IF Latest.findings # None THEN findings = Latest.findings
    ELSE findings # None => findings.tracked <= Latest.tree

\* The inventory of packages commits before the findings about them and the coverage
\* after those that were judged with it; wherever a run stops, the inventory is never
\* behind the findings and the coverage never ahead of them.
TablesKeepOrder ==
  /\ findings # None => packages # None /\ findings.packages <= packages
  /\ coverage # None => findings # None /\ coverage <= findings.packages

\* The co-change pairs never come from commits that are not persisted, and a
\* snapshot never names a commit that is not.
CommitsBeforeUse ==
  /\ coChanges # None => coChanges[1] <= commits
  /\ \A i \in DOMAIN snapshots : snapshots[i].head # None => snapshots[i].head <= commits

\* What one run leaves behind is told apart from what another did, wherever runs stop
\* and whatever is edited while they read.
StoreAgrees ==
  /\ SnapshotDescribesIndex /\ FindingsOfOwnRun /\ SnapshotsDoNotOverlap
  /\ RetainedFindingsAreCurrent /\ TablesKeepOrder /\ CommitsBeforeUse

Agreement ==
  /\ index = tree /\ packages = tree /\ Latest.tree = tree
  /\ findings # None /\ findings = Latest.findings
  /\ \A part \in DOMAIN Unread \ {"coverage"} : findings[part] = tree
  /\ coChanges = <<commits, tree>>

\* Once the edits, commits and stops are over, re-running the index brings every
\* table to the current tree: no stopped run leaves the database stuck.
Converges == <>[](pc = "idle" => Agreement)

================================================================================
