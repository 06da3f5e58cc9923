--------------------------- MODULE ParseCache_proofs ---------------------------
(***************************************************************************)
(* The safety properties of ParseCache for any number of files, contents,  *)
(* workers, process ids and crashes.                                       *)
(***************************************************************************)
EXTENDS ParseCache, TLAPS

Storing == {"write", "writing", "rename", "remove", "again"}

\* A worker that is not idle works for the process under way, on a content.
Employed ==
  /\ process = None => todo = {}
  /\ \A w \in Workers :
       IF worker[w].pc = "idle" THEN worker[w] = Idle
       ELSE process \in Pids /\ worker[w].path \in Paths /\ worker[w].hash \in Hashes

\* What a worker is about to store belongs to the content it has hashed, and
\* once written it is in the worker's own temporary file.
Held ==
  /\ \A w \in Workers : worker[w].pc \in Storing =>
       worker[w].facts \in AllFacts /\ worker[w].facts.content = worker[w].hash
  /\ \A w \in Workers : worker[w].pc \in {"rename", "remove", "again"} =>
       temp[temp_of(w)] = worker[w].facts

\* Only workers that missed a content touch its entry.
MissedOnly ==
  /\ process # None => \A h \in warm : Complete(h)
  /\ \A w \in Workers : worker[w].pc \in {"parse"} \cup Storing => worker[w].hash \notin warm

\* A result without an entry has a worker that will rename one into place.
Pending ==
  /\ \A w \in Workers : worker[w].pc = "again" => entry[worker[w].hash] # Torn
  /\ \A p \in Paths : results[p] # None /\ results[p].facts # None =>
       \/ Complete(results[p].hash)
       \/ results[p].hash \in unwritten
       \/ \E w \in Workers : worker[w].pc = "again" /\ worker[w].hash = results[p].hash

Inv ==
  /\ TypeOK /\ Employed /\ Held /\ MissedOnly /\ Pending
  /\ WritersNeverTear /\ FactsOfContent

--------------------------------------------------------------------------------
(* Facts used by every step. *)

\* A complete file holds facts: nothing else is one of the facts.
LEMMA FactsAreFacts == \A f \in AllFacts : f # Missing /\ f # Torn /\ f # None
BY FactsAssumption

LEMMA Extracted ==
  ASSUME NEW p \in Paths, NEW h \in Hashes
  PROVE  Facts(p, h) \in AllFacts /\ Facts(p, h).content = h
BY DEF Facts, AllFacts

\* A worker that is not idle has a temporary file name of its own.
LEMMA Names ==
  ASSUME Employed, NEW w \in Workers, worker[w].pc # "idle"
  PROVE  /\ process \in Pids /\ process # None
         /\ worker[w].path \in Paths /\ worker[w].hash \in Hashes
         /\ temp_of(w) \in Temps
         /\ \A v \in Workers : temp_of(v) = temp_of(w) => v = w
BY CacheAssumption DEF Employed, temp_of, Temps

LEMMA ResultHash ==
  ASSUME TypeOK, FactsOfContent,
         NEW p \in Paths, results[p] # None, results[p].facts # None
  PROVE  results[p].hash \in Hashes
BY DEF TypeOK, FactsOfContent, AllFacts, Facts

\* Whoever published, or will, for a result that stays the same still does.
LEMMA StillPending ==
  ASSUME Pending, NEW p \in Paths, results'[p] = results[p],
         results[p] # None, results[p].facts # None,
         \A h : Complete(h) => Complete(h)',
         unwritten \subseteq unwritten',
         \A v \in Workers : worker[v].pc = "again" => worker'[v] = worker[v]
  PROVE  \/ Complete(results[p].hash)'
         \/ (results[p].hash \in unwritten)'
         \/ \E v \in Workers : worker'[v].pc = "again" /\ worker'[v].hash = results'[p].hash
<1>1. CASE Complete(results[p].hash)
  BY <1>1 DEF Complete
<1>2. CASE results[p].hash \in unwritten
  BY <1>2
<1>3. CASE \E v \in Workers : worker[v].pc = "again" /\ worker[v].hash = results[p].hash
  BY <1>3
<1> QED BY <1>1, <1>2, <1>3 DEF Pending

\* One worker's record is replaced.
LEMMA Updated ==
  ASSUME TypeOK, NEW w \in Workers, NEW rec \in WorkerStates,
         worker' = [worker EXCEPT ![w] = rec]
  PROVE  /\ worker'[w] = rec
         /\ \A v \in Workers : v # w => worker'[v] = worker[v]
         /\ worker' \in [Workers -> WorkerStates]
BY DEF TypeOK

LEMMA Initially == Init => Inv
BY CacheAssumption DEF Init, Inv, TypeOK, Employed, Held, MissedOnly, Pending, WritersNeverTear,
  FactsOfContent, Idle, Steps, WorkerStates, Storing, Complete, AllFacts

--------------------------------------------------------------------------------
(* Steps of the run as a whole and of the environment. *)

LEMMA BeginStep ==
  ASSUME Inv, Begin
  PROVE  Inv'
BY CacheAssumption DEF Inv, Begin, TypeOK, Employed, Held, MissedOnly, Pending,
  WritersNeverTear, FactsOfContent, Idle, Steps, WorkerStates, Storing, Complete, disk

LEMMA EndStep ==
  ASSUME Inv, End
  PROVE  Inv'
BY CacheAssumption DEF Inv, End, TypeOK, Employed, Held, MissedOnly, Pending,
  WritersNeverTear, FactsOfContent, Idle, Steps, WorkerStates, Storing, Complete, disk, history, temp_of

LEMMA EditStep ==
  ASSUME Inv, Edit
  PROVE  Inv'
BY DEF Inv, Edit, TypeOK, Employed, Held, MissedOnly, Pending,
  WritersNeverTear, FactsOfContent, Complete, disk, history, temp_of

LEMMA CrashStep ==
  ASSUME Inv, Crash
  PROVE  Inv'
BY CacheAssumption, FactsAreFacts DEF Inv, Crash, TypeOK, Employed, Held, MissedOnly,
  Pending, WritersNeverTear, FactsOfContent, Idle, Steps, WorkerStates, Storing, Complete, history

--------------------------------------------------------------------------------
(* Steps of a worker that leave the disk alone. *)

\* Nothing on the disk and no result changes, and w does not store afterwards
\* anything but facts of its content.
LEMMA ReadStep ==
  ASSUME Inv, NEW w \in Workers, Read(w)
  PROVE  Inv'
<1>1. PICK p \in todo :
        /\ todo' = todo \ {p}
        /\ IF tree[p] = Missing
           THEN /\ results' = [results EXCEPT ![p] = Failure(None)]
                /\ UNCHANGED worker
           ELSE /\ worker' = [worker EXCEPT ![w] =
                     [pc |-> "load", path |-> p, hash |-> tree[p], facts |-> None]]
                /\ UNCHANGED results
  BY DEF Read
<1>2. p \in Paths /\ process \in Pids /\ process # None /\ worker[w].pc = "idle"
  BY <1>1, CacheAssumption DEF Read, At, Inv, TypeOK, Employed
<1>3. UNCHANGED <<tree, disk, process, history, crashes>>
  BY DEF Read
<1>4. CASE tree[p] = Missing
  BY <1>1, <1>2, <1>3, <1>4 DEF Inv, TypeOK, Employed, Held, MissedOnly, Pending,
    WritersNeverTear, FactsOfContent, Complete, disk, history, temp_of, Failure
<1>5. CASE tree[p] # Missing
  <2> DEFINE rec == [pc |-> "load", path |-> p, hash |-> tree[p], facts |-> None]
  <2>1. tree[p] \in Hashes
    BY <1>2, <1>5 DEF Inv, TypeOK
  <2> rec \in WorkerStates
    BY <1>2, <2>1 DEF WorkerStates, Steps
  <2>a. worker' = [worker EXCEPT ![w] = rec] /\ UNCHANGED results
    BY <1>1, <1>5
  <2>2. /\ worker'[w] = rec
        /\ \A v \in Workers : v # w => worker'[v] = worker[v]
        /\ worker' \in [Workers -> WorkerStates]
        /\ UNCHANGED results
    BY <2>a, Updated DEF Inv
  <2>3. TypeOK'
    BY <1>1, <1>3, <2>2 DEF Inv, TypeOK, disk, history
  <2>4e. Employed'
    BY <1>1, <1>2, <1>3, <2>1, <2>2
    DEF Inv, Employed, disk, history
  <2>4h. Held'
    BY <1>1, <1>2, <1>3, <2>1, <2>2
    DEF Inv, Held, Storing, disk, history, temp_of
  <2>4m. MissedOnly'
    BY <1>1, <1>2, <1>3, <2>1, <2>2
    DEF Inv, MissedOnly, Storing, Complete, disk, history
  <2>5. \A v \in Workers : worker[v].pc = "again" => worker'[v] = worker[v]
    BY <1>2, <2>2
  <2>6. Pending'
    BY <1>3, <2>2, <2>5, StillPending DEF Inv, Pending, Complete, disk, history
  <2>7. WritersNeverTear' /\ FactsOfContent'
    BY <1>3, <2>2 DEF Inv, WritersNeverTear, FactsOfContent, Complete, disk, history
  <2> QED BY <2>3, <2>4e, <2>4h, <2>4m, <2>6, <2>7 DEF Inv
<1> QED BY <1>4, <1>5

\* Finishing with an outcome whose content has an entry, is in unwritten, or
\* that has no facts.
LEMMA FinishStep ==
  ASSUME Inv, NEW w \in Workers, worker[w].pc # "idle", worker[w].pc # "again",
         NEW f \in AllFacts \cup {None},
         Finish(w, [hash |-> worker[w].hash, facts |-> f]),
         f # None => f.content = worker[w].hash,
         f # None => Complete(worker[w].hash) \/ worker[w].hash \in unwritten',
         unwritten' \in {unwritten, unwritten \cup {worker[w].hash}},
         UNCHANGED <<tree, disk, process, todo, warm, crashes>>
  PROVE  Inv'
<1>1. /\ process \in Pids /\ process # None
      /\ worker[w].path \in Paths /\ worker[w].hash \in Hashes
  BY Names DEF Inv
<1>2. /\ worker'[w] = Idle
      /\ \A v \in Workers : v # w => worker'[v] = worker[v]
      /\ worker' \in [Workers -> WorkerStates]
  BY DEF Finish, Inv, TypeOK, Idle, Steps, WorkerStates
<1>3. /\ results'[worker[w].path] = [hash |-> worker[w].hash, facts |-> f]
      /\ \A p \in Paths : p # worker[w].path => results'[p] = results[p]
      /\ results' \in [Paths -> [hash : Hashes \cup {None},
                                 facts : AllFacts \cup {None}] \cup {None}]
  BY <1>1 DEF Finish, Inv, TypeOK
<1>4. TypeOK'
  BY <1>1, <1>2, <1>3 DEF Inv, TypeOK, disk
<1>5e. Employed'
  BY <1>1, <1>2
  DEF Inv, Employed, disk, Idle
<1>5h. Held'
  BY <1>1, <1>2
  DEF Inv, Held, Storing, disk, temp_of, Idle
<1>5m. MissedOnly'
  BY <1>1, <1>2
  DEF Inv, MissedOnly, Storing, Complete, disk, Idle
<1>6. Pending'
  <2>1. \A v \in Workers : worker'[v].pc = "again" => entry'[worker'[v].hash] # Torn
    BY <1>2 DEF Inv, Pending, Idle, disk
  <2>2. ASSUME NEW p \in Paths, results'[p] # None, results'[p].facts # None
        PROVE  \/ Complete(results[p].hash)'
               \/ (results[p].hash \in unwritten)'
               \/ \E v \in Workers : worker'[v].pc = "again"
                                     /\ worker'[v].hash = results'[p].hash
    <3>1. CASE p = worker[w].path
      BY <1>3, <2>2, <3>1 DEF Complete, disk
    <3>2. CASE p # worker[w].path
      BY <1>2, <1>3, <2>2, <3>2, StillPending DEF Inv, Complete, disk
    <3> QED BY <3>1, <3>2
  <2> QED BY <2>1, <2>2 DEF Pending
<1>7. WritersNeverTear' /\ FactsOfContent'
  BY <1>1, <1>3 DEF Inv, WritersNeverTear, FactsOfContent, Complete, disk
<1> QED BY <1>4, <1>5e, <1>5h, <1>5m, <1>6, <1>7 DEF Inv

LEMMA LoadStep ==
  ASSUME Inv, NEW w \in Workers, load(w)
  PROVE  Inv'
<1>1. worker[w].pc = "load" /\ worker[w].hash \in Hashes /\ worker[w].path \in Paths
  BY Names DEF load, At, Inv
<1>2. CASE Complete(worker[w].hash)
  <2>1. entry[worker[w].hash] \in AllFacts
    BY <1>1, <1>2 DEF Inv, TypeOK, Complete
  <2> QED BY <1>1, <1>2, <2>1, FinishStep
    DEF Inv, load, Outcome, history, FactsOfContent
<1>3. CASE ~ Complete(worker[w].hash)
  <2>1. worker' = [worker EXCEPT ![w].pc = "parse"]
    BY <1>3 DEF load, Goto
  <2>2. process \in Pids /\ process # None
    BY <1>1, Names DEF Inv
  <2>3. UNCHANGED <<tree, disk, process, todo, results, history, crashes>>
    BY <1>3 DEF load
  <2>4. worker[w].hash \notin warm
    BY <1>3, <2>2 DEF Inv, MissedOnly
  <2> DEFINE rec == [worker[w] EXCEPT !.pc = "parse"]
  <2>a. worker' = [worker EXCEPT ![w] = rec]
    BY <2>1
  <2>b. worker[w] \in WorkerStates
    BY DEF Inv, TypeOK
  <2>c. /\ rec \in WorkerStates
        /\ rec.pc = "parse" /\ rec.hash = worker[w].hash
        /\ rec.path = worker[w].path
    BY <2>b DEF WorkerStates, Steps
  <2> HIDE DEF rec
  <2>5. /\ worker'[w] = rec
        /\ \A v \in Workers : v # w => worker'[v] = worker[v]
        /\ worker' \in [Workers -> WorkerStates]
    BY <2>a, <2>c, Updated DEF Inv
  <2>6. worker'[w].pc = "parse" /\ worker'[w].hash = worker[w].hash
        /\ worker'[w].path = worker[w].path
    BY <2>5, <2>c
  <2>7. TypeOK'
    BY <2>3, <2>5 DEF Inv, TypeOK, disk, history
  <2>8e. Employed'
    BY <1>1, <2>2, <2>3, <2>4, <2>5, <2>6
    DEF Inv, Employed, disk, history
  <2>8h. Held'
    <3>1. \A v \in Workers : v # w => temp_of(v)' = temp_of(v) /\ temp' = temp
      BY <2>3, <2>5 DEF temp_of, disk
    <3>2. ASSUME NEW v \in Workers, worker'[v].pc \in Storing
          PROVE  worker'[v].facts \in AllFacts /\ worker'[v].facts.content = worker'[v].hash
      BY <2>4, <2>5, <2>6, <3>2 DEF Inv, Held, Storing
    <3>3. ASSUME NEW v \in Workers, worker'[v].pc \in {"rename", "remove", "again"}
          PROVE  temp'[temp_of(v)'] = worker'[v].facts
      <4>1. v # w
        BY <2>6, <3>3
      <4> QED BY <2>5, <3>1, <3>3, <4>1 DEF Inv, Held
    <3> QED BY <3>2, <3>3 DEF Held
  <2>8m. MissedOnly'
    BY <2>2, <2>3, <2>4, <2>5, <2>6
    DEF Inv, MissedOnly, Storing, Complete, disk, history
  <2>9. Pending'
    BY <1>1, <2>3, <2>5, <2>6, StillPending DEF Inv, Pending, Complete, disk, history
  <2>10. WritersNeverTear' /\ FactsOfContent'
    BY <2>3 DEF Inv, WritersNeverTear, FactsOfContent, Complete, disk
  <2> QED BY <2>7, <2>8e, <2>8h, <2>8m, <2>9, <2>10 DEF Inv
<1> QED BY <1>2, <1>3

LEMMA ExtractStep ==
  ASSUME Inv, NEW w \in Workers, extract(w)
  PROVE  Inv'
<1>1. worker[w].pc = "parse" /\ worker[w].hash \in Hashes /\ worker[w].path \in Paths
  BY Names DEF extract, At, Inv
<1>2. CASE worker[w].hash \in Unparsable
  BY <1>1, <1>2, FinishStep DEF extract, Failure, history
<1>3. CASE worker[w].hash \notin Unparsable
  <2> DEFINE facts == Facts(worker[w].path, worker[w].hash)
  <2>1. worker' = [worker EXCEPT ![w].pc = "write", ![w].facts = facts]
    BY <1>3 DEF extract
  <2>2. process \in Pids /\ process # None
    BY <1>1, Names DEF Inv
  <2>3. UNCHANGED <<tree, disk, process, todo, results, history, crashes>>
    BY <1>3 DEF extract
  <2>4. facts \in AllFacts /\ facts.content = worker[w].hash
    BY <1>1, Extracted
  <2> HIDE DEF facts
  <2> DEFINE rec == [worker[w] EXCEPT !.pc = "write", !.facts = facts]
  <2>a. worker' = [worker EXCEPT ![w] = rec]
    BY <2>1
  <2>b. worker[w] \in WorkerStates
    BY DEF Inv, TypeOK
  <2>c. /\ rec \in WorkerStates
        /\ rec.pc = "write" /\ rec.hash = worker[w].hash
        /\ rec.path = worker[w].path /\ rec.facts = facts
    BY <2>b, <2>4 DEF WorkerStates, Steps
  <2> HIDE DEF rec
  <2>5. /\ worker'[w] = rec
        /\ \A v \in Workers : v # w => worker'[v] = worker[v]
        /\ worker' \in [Workers -> WorkerStates]
    BY <2>a, <2>c, Updated DEF Inv
  <2>6. worker'[w].pc = "write" /\ worker'[w].hash = worker[w].hash
        /\ worker'[w].path = worker[w].path /\ worker'[w].facts = facts
    BY <2>5, <2>c
  <2>7. TypeOK'
    BY <2>3, <2>5 DEF Inv, TypeOK, disk, history
  <2>8e. Employed'
    BY <1>1, <2>2, <2>3, <2>4, <2>5, <2>6
    DEF Inv, Employed, disk, history
  <2>8h. Held'
    <3>1. \A v \in Workers : v # w => temp_of(v)' = temp_of(v) /\ temp' = temp
      BY <2>3, <2>5 DEF temp_of, disk
    <3>2. ASSUME NEW v \in Workers, worker'[v].pc \in Storing
          PROVE  worker'[v].facts \in AllFacts /\ worker'[v].facts.content = worker'[v].hash
      BY <2>4, <2>5, <2>6, <3>2 DEF Inv, Held, Storing
    <3>3. ASSUME NEW v \in Workers, worker'[v].pc \in {"rename", "remove", "again"}
          PROVE  temp'[temp_of(v)'] = worker'[v].facts
      <4>1. v # w
        BY <2>6, <3>3
      <4> QED BY <2>5, <3>1, <3>3, <4>1 DEF Inv, Held
    <3> QED BY <3>2, <3>3 DEF Held
  <2>8m. MissedOnly'
    BY <1>1, <2>2, <2>3, <2>4, <2>5, <2>6
    DEF Inv, MissedOnly, Storing, Complete, disk, history
  <2>9. Pending'
    BY <1>1, <2>3, <2>5, <2>6, StillPending DEF Inv, Pending, Complete, disk, history
  <2>10. WritersNeverTear' /\ FactsOfContent'
    BY <2>3 DEF Inv, WritersNeverTear, FactsOfContent, Complete, disk
  <2> QED BY <2>7, <2>8e, <2>8h, <2>8m, <2>9, <2>10 DEF Inv
<1> QED BY <1>2, <1>3

--------------------------------------------------------------------------------
(* ParseCache::store *)

\* A worker goes on from one step of store to the next, its own temporary file
\* may change, entries do not.
LEMMA StoreGoesOn ==
  ASSUME Inv, NEW w \in Workers, worker[w].pc \in {"write", "writing"},
         NEW step \in {"writing", "rename"}, Goto(w, step),
         NEW content \in AllFacts \cup {Torn},
         temp' = [temp EXCEPT ![temp_of(w)] = content],
         step = "rename" => content = worker[w].facts,
         UNCHANGED <<tree, entry, process, todo, results, history, crashes>>
  PROVE  Inv'
<1>1. /\ process \in Pids /\ process # None
      /\ worker[w].path \in Paths /\ worker[w].hash \in Hashes
      /\ temp_of(w) \in Temps
      /\ \A v \in Workers : temp_of(v) = temp_of(w) => v = w
  BY Names DEF Inv
<1>2. /\ worker'[w].pc = step /\ worker'[w].hash = worker[w].hash
      /\ worker'[w].path = worker[w].path /\ worker'[w].facts = worker[w].facts
      /\ \A v \in Workers : v # w => worker'[v] = worker[v]
      /\ worker' \in [Workers -> WorkerStates]
  BY DEF Goto, Inv, TypeOK, Steps, WorkerStates
<1>3. temp' \in [Temps -> AllFacts \cup {Missing, Torn}]
  BY <1>1 DEF Inv, TypeOK
<1>4. TypeOK'
  BY <1>2, <1>3 DEF Inv, TypeOK, history
<1>5. Employed' /\ MissedOnly'
  BY <1>1, <1>2 DEF Inv, Employed, MissedOnly, Storing, Complete, history
<1>6. Held'
  <2>1. \A v \in Workers : temp_of(v)' = temp_of(v)
    BY <1>2 DEF temp_of
  <2>2. ASSUME NEW v \in Workers, worker'[v].pc \in {"rename", "remove", "again"}
        PROVE  temp'[temp_of(v)] = worker'[v].facts
    <3>1. CASE v = w
      BY <1>1, <1>2, <2>2, <3>1 DEF Inv, TypeOK, WorkerStates
    <3>2. CASE v # w
      <4>1. temp_of(v) # temp_of(w) /\ temp_of(v) \in Temps
        BY <1>1, <1>2, <2>2, <3>2, Names DEF Inv
      <4>2. temp'[temp_of(v)] = temp[temp_of(v)]
        BY <1>1, <4>1 DEF Inv, TypeOK
      <4> QED BY <1>2, <2>2, <3>2, <4>2 DEF Inv, Held
    <3> QED BY <3>1, <3>2
  <2>3. \A v \in Workers : worker'[v].pc \in Storing =>
          worker'[v].facts \in AllFacts /\ worker'[v].facts.content = worker'[v].hash
    BY <1>2 DEF Inv, Held, Storing
  <2> QED BY <2>1, <2>2, <2>3 DEF Held
<1>7. Pending'
  BY <1>2, StillPending DEF Inv, Pending, Complete, history
<1>8. WritersNeverTear' /\ FactsOfContent'
  BY DEF Inv, WritersNeverTear, FactsOfContent, Complete
<1> QED BY <1>4, <1>5, <1>6, <1>7, <1>8 DEF Inv

LEMMA CreateStep ==
  ASSUME Inv, NEW w \in Workers, create_temp(w)
  PROVE  Inv'
BY StoreGoesOn DEF create_temp, At

LEMMA FillStep ==
  ASSUME Inv, NEW w \in Workers, fill_temp(w)
  PROVE  Inv'
<1>1. worker[w].facts \in AllFacts
  BY DEF fill_temp, At, Inv, Held, Storing
<1> QED BY <1>1, StoreGoesOn DEF fill_temp, At

LEMMA FailStep ==
  ASSUME Inv, NEW w \in Workers, write_fails(w)
  PROVE  Inv'
<1>1. worker[w].facts \in AllFacts /\ worker[w].facts.content = worker[w].hash
  BY DEF write_fails, At, Inv, Held, Storing
<1> QED BY <1>1, FinishStep DEF write_fails, At, Stored, Outcome

\* A temporary file is renamed onto the entry, or dropped beside a complete one.
LEMMA StoredStep ==
  ASSUME Inv, NEW w \in Workers, worker[w].pc \in {"rename", "again"}, Stored(w),
         temp' = [temp EXCEPT ![temp_of(w)] = Missing],
         \/ entry' = [entry EXCEPT ![worker[w].hash] = temp[temp_of(w)]]
         \/ UNCHANGED entry /\ Complete(worker[w].hash),
         UNCHANGED <<tree, process, todo, history, crashes>>
  PROVE  Inv'
<1> DEFINE hash == worker[w].hash
           path == worker[w].path
           facts == worker[w].facts
<1>1. /\ process \in Pids /\ process # None
      /\ path \in Paths /\ hash \in Hashes
      /\ temp_of(w) \in Temps
      /\ \A v \in Workers : temp_of(v) = temp_of(w) => v = w
  BY Names DEF Inv
<1>2. facts \in AllFacts /\ facts.content = hash /\ temp[temp_of(w)] = facts
  BY DEF Inv, Held, Storing
<1>3. /\ worker'[w] = Idle
      /\ \A v \in Workers : v # w => worker'[v] = worker[v]
      /\ worker' \in [Workers -> WorkerStates]
  BY DEF Stored, Finish, Inv, TypeOK, Idle, Steps, WorkerStates
<1>4. /\ results'[path] = [hash |-> hash, facts |-> facts]
      /\ \A p \in Paths : p # path => results'[p] = results[p]
      /\ results' \in [Paths -> [hash : Hashes \cup {None},
                                 facts : AllFacts \cup {None}] \cup {None}]
  BY <1>1, <1>2 DEF Stored, Finish, Outcome, Inv, TypeOK
<1>5. /\ entry'[hash] \in AllFacts /\ entry'[hash].content = hash
      /\ \A h \in Hashes : h # hash => entry'[h] = entry[h]
      /\ entry' \in [Hashes -> AllFacts \cup {Missing, Torn}]
  <2>1. CASE entry' = [entry EXCEPT ![hash] = temp[temp_of(w)]]
    BY <1>1, <1>2, <2>1 DEF Inv, TypeOK
  <2>2. CASE UNCHANGED entry /\ Complete(hash)
    BY <1>1, <2>2 DEF Inv, TypeOK, Complete, FactsOfContent
  <2> QED BY <2>1, <2>2
<1>6. entry'[hash] # Missing /\ entry'[hash] # Torn
  BY <1>5, FactsAreFacts
<1> HIDE DEF hash, path, facts
<1>7. TypeOK'
  <2>1. temp' \in [Temps -> AllFacts \cup {Missing, Torn}]
    BY <1>1 DEF Inv, TypeOK
  <2> QED BY <1>3, <1>4, <1>5, <2>1 DEF Inv, TypeOK, history
<1>8. Employed'
  BY <1>1, <1>3 DEF Inv, Employed, Idle
<1>9. MissedOnly'
  BY <1>1, <1>3, <1>5, <1>6 DEF Inv, TypeOK, MissedOnly, Storing, Complete, history, Idle
<1>10. Held'
  <2>1. \A v \in Workers : temp_of(v)' = temp_of(v) \/ v = w
    BY <1>3 DEF temp_of
  <2>2. ASSUME NEW v \in Workers, worker'[v].pc \in {"rename", "remove", "again"}
        PROVE  temp'[temp_of(v)'] = worker'[v].facts
    <3>1. v # w /\ worker'[v] = worker[v]
      BY <1>3, <2>2 DEF Idle
    <3>2. temp_of(v) # temp_of(w) /\ temp_of(v) \in Temps
      BY <1>1, <2>2, <3>1, Names DEF Inv
    <3>3. temp'[temp_of(v)] = temp[temp_of(v)]
      BY <1>1, <3>2 DEF Inv, TypeOK
    <3> QED BY <2>1, <2>2, <3>1, <3>3 DEF Inv, Held
  <2>3. \A v \in Workers : worker'[v].pc \in Storing =>
          worker'[v].facts \in AllFacts /\ worker'[v].facts.content = worker'[v].hash
    BY <1>3 DEF Inv, Held, Storing, Idle
  <2> QED BY <2>2, <2>3 DEF Held
<1>11. Pending'
  <2>1. \A v \in Workers : worker'[v].pc = "again" => entry'[worker'[v].hash] # Torn
    <3> SUFFICES ASSUME NEW v \in Workers, worker'[v].pc = "again"
                 PROVE  entry'[worker'[v].hash] # Torn
      OBVIOUS
    <3>1. v # w /\ worker'[v] = worker[v]
      BY <1>3 DEF Idle
    <3>2. worker[v].hash \in Hashes
      BY <3>1, Names DEF Inv
    <3> QED BY <1>5, <1>6, <3>1, <3>2 DEF Inv, Pending
  <2>2. ASSUME NEW p \in Paths, results'[p] # None, results'[p].facts # None
        PROVE  \/ Complete(results[p].hash)'
               \/ (results[p].hash \in unwritten)'
               \/ \E v \in Workers : worker'[v].pc = "again"
                                     /\ worker'[v].hash = results'[p].hash
    <3>1. CASE results'[p].hash = hash
      BY <1>6, <3>1 DEF Complete
    <3>2. CASE results'[p].hash # hash
      <4>1. results'[p] = results[p]
        BY <1>4, <3>2
      <4>3. CASE Complete(results[p].hash)
        <5>1. results[p].hash \in Hashes
          BY <2>2, <4>1, ResultHash DEF Inv
        <5>2. entry'[results[p].hash] = entry[results[p].hash]
          BY <1>5, <3>2, <4>1, <5>1
        <5> QED BY <4>1, <4>3, <5>2 DEF Complete
      <4>4. CASE results[p].hash \in unwritten
        BY <4>1, <4>4 DEF history
      <4>5. CASE \E v \in Workers : worker[v].pc = "again" /\ worker[v].hash = results[p].hash
        BY <1>3, <3>2, <4>1, <4>5 DEF hash
      <4> QED BY <2>2, <4>1, <4>3, <4>4, <4>5 DEF Inv, Pending
    <3> QED BY <3>1, <3>2
  <2> QED BY <2>1, <2>2 DEF Pending
<1>12. WritersNeverTear'
  BY <1>5, <1>6 DEF Inv, WritersNeverTear
<1>13. FactsOfContent'
  BY <1>2, <1>4, <1>5 DEF Inv, FactsOfContent, Complete
<1> QED BY <1>7, <1>8, <1>9, <1>10, <1>11, <1>12, <1>13 DEF Inv

\* The entry of a missed content is removed; every worker that finished with
\* this content has this worker's renaming to rely on.
LEMMA RemoveStep ==
  ASSUME Inv, NEW w \in Workers, remove_entry(w)
  PROVE  Inv'
<1> DEFINE hash == worker[w].hash
<1>1. /\ process \in Pids /\ process # None
      /\ worker[w].path \in Paths /\ hash \in Hashes
      /\ worker[w].pc = "remove"
  BY Names DEF Inv, remove_entry, At
<1>2. /\ worker'[w].pc = "again" /\ worker'[w].hash = hash
      /\ worker'[w].path = worker[w].path /\ worker'[w].facts = worker[w].facts
      /\ \A v \in Workers : v # w => worker'[v] = worker[v]
      /\ worker' \in [Workers -> WorkerStates]
  BY DEF remove_entry, Goto, Inv, TypeOK, Steps, WorkerStates
<1>3. /\ entry'[hash] = Missing
      /\ \A h \in Hashes : h # hash => entry'[h] = entry[h]
      /\ entry' \in [Hashes -> AllFacts \cup {Missing, Torn}]
  BY <1>1 DEF remove_entry, Inv, TypeOK
<1>4. UNCHANGED <<tree, temp, process, todo, results, history, crashes>>
  BY DEF remove_entry
<1>5. hash \notin warm
  BY <1>1 DEF Inv, MissedOnly, Storing
<1>6. TypeOK'
  BY <1>2, <1>3, <1>4 DEF Inv, TypeOK, history
<1>7. Employed'
  BY <1>1, <1>2, <1>4 DEF Inv, Employed
<1>8. Held'
  BY <1>1, <1>2, <1>4 DEF Inv, Held, Storing, temp_of
<1>9. MissedOnly'
  BY <1>1, <1>2, <1>3, <1>4, <1>5 DEF Inv, TypeOK, MissedOnly, Storing, Complete, history
<1>10. Pending'
  <2>1. ASSUME NEW v \in Workers, worker'[v].pc = "again"
        PROVE  entry'[worker'[v].hash] # Torn
    <3>1. CASE worker'[v].hash = hash
      BY <1>3, <3>1, CacheAssumption
    <3>2. CASE worker'[v].hash # hash
      <4>1. v # w /\ worker'[v] = worker[v]
        BY <1>2, <3>2
      <4>2. worker[v].hash \in Hashes
        BY <2>1, <4>1, Names DEF Inv
      <4> QED BY <1>3, <2>1, <3>2, <4>1, <4>2 DEF Inv, Pending
    <3> QED BY <3>1, <3>2
  <2>2. ASSUME NEW p \in Paths, results'[p] # None, results'[p].facts # None
        PROVE  \/ Complete(results[p].hash)'
               \/ (results[p].hash \in unwritten)'
               \/ \E v \in Workers : worker'[v].pc = "again"
                                     /\ worker'[v].hash = results'[p].hash
    <3>1. CASE results'[p].hash = hash
      BY <1>2, <3>1
    <3>2. CASE results'[p].hash # hash
      <4>1. results'[p] = results[p]
        BY <1>4
      <4>2. CASE Complete(results[p].hash)
        <5>1. results[p].hash \in Hashes /\ entry'[results[p].hash] = entry[results[p].hash]
          BY <1>3, <2>2, <3>2, <4>1, ResultHash DEF Inv
        <5> QED BY <4>1, <4>2, <5>1 DEF Complete
      <4>3. CASE results[p].hash \in unwritten
        BY <1>4, <4>1, <4>3 DEF history
      <4>4. CASE \E v \in Workers : worker[v].pc = "again" /\ worker[v].hash = results[p].hash
        BY <1>1, <1>2, <4>1, <4>4
      <4> QED BY <2>2, <4>1, <4>2, <4>3, <4>4 DEF Inv, Pending
    <3> QED BY <3>1, <3>2
  <2> QED BY <2>1, <2>2 DEF Pending
<1>11. WritersNeverTear'
  BY <1>3, <1>4, CacheAssumption DEF Inv, WritersNeverTear
<1>12. FactsOfContent'
  BY <1>3, <1>4 DEF Inv, FactsOfContent, Complete
<1> QED BY <1>6, <1>7, <1>8, <1>9, <1>10, <1>11, <1>12 DEF Inv

LEMMA RenameStep ==
  ASSUME Inv, NEW w \in Workers, rename_temp(w)
  PROVE  Inv'
<1>1. UNCHANGED <<tree, process, todo, history, crashes>> /\ worker[w].pc = "rename"
  BY DEF rename_temp, At
<1>2. CASE Rename(w) /\ Stored(w)
  BY <1>1, <1>2, StoredStep DEF Rename
<1>3. CASE Goto(w, "remove") /\ UNCHANGED <<disk, results>>
  <2>1. process \in Pids /\ process # None /\ worker[w].path \in Paths /\ worker[w].hash \in Hashes
    BY <1>1, Names DEF Inv
  <2>2. /\ worker'[w].pc = "remove" /\ worker'[w].hash = worker[w].hash
        /\ worker'[w].path = worker[w].path /\ worker'[w].facts = worker[w].facts
        /\ \A v \in Workers : v # w => worker'[v] = worker[v]
        /\ worker' \in [Workers -> WorkerStates]
    BY <1>3 DEF Goto, Inv, TypeOK, Steps, WorkerStates
  <2>3. TypeOK'
    BY <1>1, <1>3, <2>2 DEF Inv, TypeOK, disk, history
  <2>4e. Employed'
    BY <1>1, <1>3, <2>1, <2>2
    DEF Inv, Employed, disk, history
  <2>4h. Held'
    BY <1>1, <1>3, <2>1, <2>2
    DEF Inv, Held, Storing, disk, history, temp_of
  <2>4m. MissedOnly'
    BY <1>1, <1>3, <2>1, <2>2
    DEF Inv, MissedOnly, Storing, Complete, disk, history
  <2>5. Pending'
    BY <1>1, <1>3, <2>2, StillPending DEF Inv, Pending, Complete, disk, history
  <2>6. WritersNeverTear' /\ FactsOfContent'
    BY <1>1, <1>3 DEF Inv, WritersNeverTear, FactsOfContent, Complete, disk
  <2> QED BY <2>3, <2>4e, <2>4h, <2>4m, <2>5, <2>6 DEF Inv
<1> QED BY <1>2, <1>3 DEF rename_temp

\* The second rename fails only beside an entry somebody else renamed.
LEMMA AgainStep ==
  ASSUME Inv, NEW w \in Workers, rename_again(w)
  PROVE  Inv'
<1>1. /\ UNCHANGED <<tree, process, todo, history, crashes>> /\ worker[w].pc = "again"
      /\ Stored(w)
  BY DEF rename_again, At
<1>2. CASE Rename(w)
  BY <1>1, <1>2, StoredStep DEF Rename
<1>3. CASE MayFail(w) /\ temp' = [temp EXCEPT ![temp_of(w)] = Missing] /\ UNCHANGED entry
  <2>1. temp[temp_of(w)] # Missing
    BY <1>1, FactsAreFacts DEF Inv, Held, Storing
  <2>2. Complete(worker[w].hash)
    BY <1>1, <1>3, <2>1 DEF MayFail, Complete, Inv, Pending
  <2> QED BY <1>1, <1>3, <2>2, StoredStep
<1> QED BY <1>2, <1>3 DEF rename_again

--------------------------------------------------------------------------------
(* The theorems. *)

LEMMA Invariance == Spec => []Inv
<1>1. Init => Inv
  BY Initially
<1>2. Inv /\ [Next]_vars => Inv'
  <2> SUFFICES ASSUME Inv, [Next]_vars PROVE Inv'
    OBVIOUS
  <2>1. CASE UNCHANGED vars
    BY <2>1 DEF vars, disk, history, Inv, TypeOK, Employed, Held, MissedOnly, Pending,
      WritersNeverTear, FactsOfContent, Complete, temp_of
  <2>2. CASE Begin \/ End \/ Edit \/ Crash
    BY <2>2, BeginStep, EndStep, EditStep, CrashStep
  <2>3. ASSUME NEW w \in Workers, Read(w) \/ load(w) \/ extract(w) \/ store(w)
        PROVE  Inv'
    BY <2>3, ReadStep, LoadStep, ExtractStep, CreateStep, FillStep, FailStep, RenameStep,
      RemoveStep, AgainStep DEF store
  <2> QED BY <2>1, <2>2, <2>3 DEF Next
<1> QED BY <1>1, <1>2, PTL DEF Spec

\* The variables keep their types, whatever crashes and fails.
THEOREM TypeCorrect == Spec => []TypeOK
<1>1. Inv => TypeOK
  BY DEF Inv
<1> QED BY <1>1, Invariance, PTL

\* However many workers miss one content at once: an entry is torn by a crash
\* only, entries and results are filed under their own content, and a content
\* that was cached when the run began is not parsed.
THEOREM CacheSound == Spec => []EntriesAreSound
<1>1. Inv => EntriesAreSound
  BY DEF Inv, MissedOnly, EntriesAreSound, WarmIsNotParsed, At
<1> QED BY <1>1, Invariance, PTL

\* The remove-and-rename of racing workers never loses an entry for good.
THEOREM CacheComplete == Spec => []CachedAfterRun
<1>1. Inv => CachedAfterRun
  BY CacheAssumption DEF Inv, Employed, Pending, CachedAfterRun
<1> QED BY <1>1, Invariance, PTL

================================================================================
