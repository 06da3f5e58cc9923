--------------------------------- MODULE History ---------------------------------
(***************************************************************************)
(* A repository with its history and the index that `ovecc index` keeps of *)
(* it.  A run parses the files, ingests the commits, syncs the files and   *)
(* replaces the co-changes.  It can be interrupted (before the ingestion   *)
(* that leaves nothing behind), and commits can be made meanwhile.  Paths  *)
(* are numbers, times are in days and no two commits are made at the same  *)
(* time.  A change of the log also says which file it touched, whatever    *)
(* its name was.                                                           *)
(***************************************************************************)
EXTENDS GitHistory, Diagnose

CONSTANTS
  Paths,
  Messages,
  Plain,            \* a message that is no fix
  Thresholds,       \* those of the versions of the classifier
  FirstLog,
  FirstDbs,         \* databases to start with
  MaxCommits,       \* bounds the log
  MaxDays,          \* bounds the clock, which every commit advances
  MaxEdited,        \* bounds the files that one commit edits
  FileAt,           \* path -> the file there
  MeasuresAt,       \* path -> [complexity, abstract, total]: its functions and its types
  ImportsAmong(_),  \* the dependencies of the files at some paths
  DiagnoseConfig

\* Databases have three tables, and the rows of commits three columns.
ASSUME FirstDatabases ==
  \A d \in FirstDbs :
    /\ d = [commits |-> d.commits, changes |-> d.changes, co_changes |-> d.co_changes]
    /\ \A sha \in DOMAIN d.commits :
         d.commits[sha] = [at |-> d.commits[sha].at, message |-> d.commits[sha].message,
                           fix |-> d.commits[sha].fix]

\* Walks along renames, and pairs, have a length.
ASSUME HistoryBounds ==
  /\ GitWindowDays \in Nat /\ GitMaxCommits \in Nat \ {0} /\ MaxRenames \in Nat
  /\ MinSupport \in Nat \ {0} /\ MinJaccard \in Nat
ASSUME PathsAreNumbers == IsFiniteSet(Paths) /\ Paths \subseteq Nat /\ NoPath \notin Paths

\* Without any churn there is no history.
ASSUME HistoryIsSomething == DiagnoseConfig.evolutionary_min_history \in Nat \ {0}
ASSUME DependenciesAreListed ==
  \A paths \in SUBSET Paths : ImportsAmong(paths) \in Seq(Range(ImportsAmong(paths)))

VARIABLES
  log,              \* commits of the branch
  owner,            \* path -> the file that has it
  now,
  threshold,
  db,
  files,            \* the index: path -> the file it had when it was parsed
  run,              \* [phase, parsed] of `ovecc index`
  marks             \* "moved", "interrupted", "amended"
vars == <<log, owner, now, threshold, db, files, run, marks>>

Idle == [phase |-> "idle", parsed |-> <<>>]

\* A file is known by when and where it was created.
Change(path, from, file) == [path |-> path, from |-> from, file |-> file]
CommitAt(day, changes, message) == [sha |-> day, at |-> day, message |-> message, changes |-> changes]
FilesOf(c) == {d.file : d \in c.changes}

\* A history with nothing renamed, moved or deleted yet, one commit a day, and an index
\* that knows no change of it.
ASSUME FirstHistory ==
  /\ FirstLog # <<>> /\ FirstLog \in Seq(Range(FirstLog))
  /\ \A i \in DOMAIN FirstLog :
       /\ FirstLog[i] = CommitAt(i, FirstLog[i].changes, FirstLog[i].message)
       /\ FirstLog[i].changes # {}
       /\ \A d \in FirstLog[i].changes :
            d.path \in Paths /\ d = Change(d.path, NoPath, <<1, d.path>>)
  /\ \A d \in FirstDbs : d.changes = {}

Init ==
  /\ log = FirstLog
  /\ owner = [p \in UNION {{d.path : d \in c.changes} : c \in Range(FirstLog)} |->
                (CHOOSE d \in UNION {c.changes : c \in Range(FirstLog)} : d.path = p).file]
  /\ now = Len(FirstLog) /\ threshold = Min(Thresholds)
  /\ db \in FirstDbs
  /\ files = <<>> /\ run = Idle /\ marks = {}

--------------------------------------------------------------------------------
(* The repository. *)

Commit(changes, message) ==
  /\ Len(log) < MaxCommits /\ now < MaxDays
  /\ now' = now + 1
  /\ log' = Append(log, CommitAt(now + 1, changes, message))
  /\ marks' = marks \cup (IF run.phase = "idle" THEN {} ELSE {"moved"})
  /\ UNCHANGED <<threshold, db, files, run>>

Edit ==
  \E paths \in SUBSET DOMAIN owner, message \in Messages :
    /\ Cardinality(paths) \in 1 .. MaxEdited
    /\ Cardinality(paths) = 1 \/ message = Plain
    /\ Commit({Change(p, NoPath, owner[p]) : p \in paths}, message)
    /\ UNCHANGED owner

Create ==
  \E p \in Paths \ DOMAIN owner :
    /\ Commit({Change(p, NoPath, <<now + 1, p>>)}, Plain)
    /\ owner' = [q \in DOMAIN owner \cup {p} |-> IF q = p THEN <<now + 1, p>> ELSE owner[q]]

Rename ==
  \E p \in DOMAIN owner, q \in Paths \ DOMAIN owner :
    /\ Commit({Change(q, p, owner[p])}, Plain)
    /\ owner' = [r \in (DOMAIN owner \ {p}) \cup {q} |-> IF r = q THEN owner[p] ELSE owner[r]]

Delete ==
  \E p \in DOMAIN owner :
    /\ Commit({Change(p, NoPath, owner[p])}, Plain)
    /\ owner' = Restrict(owner, DOMAIN owner \ {p})

\* The last commit is made again.
Amend ==
  /\ now < MaxDays
  /\ now' = now + 1
  /\ log' = Append(Front(log), CommitAt(now + 1, Last(log).changes, Last(log).message))
  /\ marks' = marks \cup (IF Last(log).sha \in DOMAIN db.commits THEN {"amended"} ELSE {})
                    \cup (IF run.phase = "idle" THEN {} ELSE {"moved"})
  /\ UNCHANGED <<owner, threshold, db, files, run>>

Upgrade ==
  /\ run.phase = "idle"
  /\ DOMAIN db.commits # {}
  /\ threshold' \in {t \in Thresholds : t > threshold}
  /\ UNCHANGED <<log, owner, now, db, files, run, marks>>

--------------------------------------------------------------------------------
(* The run. *)

Parse ==
  /\ run.phase = "idle"
  /\ run' = [phase |-> "parsed", parsed |-> owner]
  /\ marks' = marks \ {"moved"}
  /\ UNCHANGED <<log, owner, now, threshold, db, files>>

Ingest ==
  /\ run.phase = "parsed"
  /\ db' = ingest_git(db, log, now, threshold)
  /\ run' = [run EXCEPT !.phase = "ingested"]
  /\ UNCHANGED <<log, owner, now, threshold, files, marks>>

SyncIndex ==
  /\ run.phase = "ingested"
  /\ files' = run.parsed
  /\ run' = [run EXCEPT !.phase = "synced"]
  /\ UNCHANGED <<log, owner, now, threshold, db, marks>>

ReplaceCoChanges ==
  /\ run.phase = "synced"
  /\ db' = [db EXCEPT !.co_changes = coupling_of(db, DOMAIN files)]
  /\ run' = Idle
  /\ marks' = marks \ {"interrupted"}
  /\ UNCHANGED <<log, owner, now, threshold, files>>

Interrupt ==
  /\ run.phase \in {"ingested", "synced"}
  /\ run' = Idle
  /\ marks' = marks \cup {"interrupted"}
  /\ UNCHANGED <<log, owner, now, threshold, db, files>>

Next ==
  \/ Edit \/ Create \/ Rename \/ Delete \/ Amend \/ Upgrade
  \/ Parse \/ Ingest \/ SyncIndex \/ ReplaceCoChanges \/ Interrupt

Spec == Init /\ [][Next]_vars

--------------------------------------------------------------------------------
(* What the history says of the files, whatever their names were. *)

Stored == {c \in Range(log) : \E d \in db.changes : d.commit = c.sha}
TouchedBy(c, indexed) == {indexed[p] : p \in DOMAIN indexed} \cap FilesOf(c)

\* A path was given to another file.
Reused == \E d, e \in UNION {c.changes : c \in Range(log)} : d.path = e.path /\ d.file # e.file

\* A file took back a path that it had left.
Returned ==
  \E i, j, k \in DOMAIN log : i < j /\ j < k /\
    \E a \in log[i].changes, b \in log[j].changes, c \in log[k].changes :
      a.file = b.file /\ b.file = c.file /\ a.path = c.path /\ b.path # a.path

RenamesStored ==
  \A i, j \in DOMAIN log :
    i < j /\ log[j] \in Stored /\ (\E d \in log[i].changes : d.from # NoPath) => log[i] \in Stored

\* The renames of a file.
Moves(file) ==
  {<<d.from, d.path>> : d \in {e \in UNION {c.changes : c \in Range(log)} : e.file = file /\ e.from # NoPath}}

\* The index is that of one state of a branch whose paths name one file each, and no file
\* was renamed more often than a walk may follow.
Settled ==
  /\ run.phase = "idle" /\ marks = {} /\ ~ Reused /\ RenamesStored
  /\ \A c \in Range(log) : \A file \in FilesOf(c) : Cardinality(Moves(file)) <= MaxRenames

ChurnIsExact ==
  LET churn == file_churn(db)
  IN \A p \in DOMAIN files :
       Cardinality({c \in Stored : files[p] \in FilesOf(c)}) = IF p \in DOMAIN churn THEN churn[p] ELSE 0

\* A file of the index has changed as often as the stored commits touched it, under any
\* of the names it had.
ChurnFollowsFile == Settled /\ ~ Returned => ChurnIsExact

\* The stored pairs are the files, renamed or not, that changed together often enough:
\* in MinSupport commits, in the share MinJaccard of the commits that touched one of
\* them, and more often than if they were independent.
CoChangesExact ==
  Settled /\ ~ Returned /\ files # <<>> =>
    LET counted == {c \in Stored : Cardinality(TouchedBy(c, files)) \in 2 .. MaxCommitFiles}
        of(a) == Cardinality({c \in counted : a \in FilesOf(c)})
        both(a, b) == Cardinality({c \in counted : {a, b} \subseteq FilesOf(c)})
        coupled(a, b) ==
          LET n == both(a, b)
          IN n >= MinSupport /\ n * 100 >= MinJaccard * (of(a) + of(b) - n)
             /\ n * Cardinality(counted) > of(a) * of(b)
        stored == {x.pair : x \in db.co_changes}
    IN /\ \A p, q \in DOMAIN files : p < q => ({p, q} \in stored <=> coupled(files[p], files[q]))
       /\ \A x \in db.co_changes : \A sha \in x.commits :
            \A p \in x.pair : \E c \in Stored : c.sha = sha /\ files[p] \in FilesOf(c)

\* What the index stores of the history follows the files through their names.
HistoryFollowsFiles == ChurnFollowsFile /\ CoChangesExact

\* The newest commit is indexed, when no other one can follow.
Fresh == Settled /\ Len(log) = MaxCommits /\ Last(log) \in Stored /\ files = owner

\* What `diagnose` reads of the index and of the history.
InputOfDiagnosis ==
  LET churn == file_churn(db)
      indexed == {FileAt[p] : p \in DOMAIN files}
      path(f) == CHOOSE p \in DOMAIN files : FileAt[p] = f
      measured(f) == MeasuresAt[path(f)]
  IN [files |-> indexed, deps |-> ImportsAmong(DOMAIN files),
      churn |-> [f \in indexed |-> IF path(f) \in DOMAIN churn THEN churn[path(f)] ELSE 0],
      complexity |-> [f \in indexed |-> measured(f).complexity],
      abstract |-> [f \in indexed |-> measured(f).abstract], total |-> [f \in indexed |-> measured(f).total],
      co_change |-> {[left |-> FileAt[Min(x.pair)], right |-> FileAt[Max(x.pair)], count |-> x.count]
                     : x \in co_change_pairs(db, 2)}]

\* The history adds to a diagnosis of the index only what it is said to add: smells of the
\* structure are neither hidden nor played down by it.
HistoryOnlyRaises == Fresh => OnlyRaises(InputOfDiagnosis, DiagnoseConfig)

\* Once a commit is judged a fix or not, no later run and no later version changes it,
\* so two runs over one database rank alike; and every run judges all that it knows.
VerdictsAreKept ==
  [][/\ \A sha \in DOMAIN db.commits :
          /\ sha \in DOMAIN db'.commits
          /\ db.commits[sha].fix # Unclassified => db'.commits[sha] = db.commits[sha]
     /\ Ingest => \A sha \in DOMAIN db'.commits : db'.commits[sha].fix # Unclassified]_vars

================================================================================
