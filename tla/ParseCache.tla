------------------------------- MODULE ParseCache ------------------------------
(***************************************************************************)
(* The parsing phase of an indexing run: rayon workers take the discovered *)
(* files, hash each one and share a cache of parsed facts, a directory     *)
(* with one entry for each content hash.  An entry is written to a         *)
(* temporary file and renamed; when the rename fails, which it may over an *)
(* existing file, the entry is removed and the rename tried again.         *)
(* Nothing is locked, a write may fail, files change while they are read,  *)
(* and the machine may crash with entries on their way to the disk.        *)
(***************************************************************************)
EXTENDS Naturals

CONSTANTS
  Paths,          \* the files a run may discover
  Hashes,         \* contents, identified with their hashes
  Unparsable,     \* the contents no adapter accepts
  Kind,           \* path -> what the adapters take from it: extension, mod prefix
  Workers,        \* threads of the pool
  Pids,           \* process ids, which the system may reuse
  Missing,        \* no such file
  Torn,           \* a file that is not complete JSON
  None,           \* no result, no process
  MaxCrashes      \* bound of the model

ASSUME CacheAssumption ==
  /\ Kind \in [Paths -> {Kind[p] : p \in Paths}]
  /\ Unparsable \subseteq Hashes
  /\ MaxCrashes \in Nat
  /\ None \notin Pids
  /\ Missing # Torn /\ Missing \notin Hashes

VARIABLES
  tree,       \* path -> content or Missing
  entry,      \* hash -> the facts of its cache entry, Torn or Missing
  temp,       \* <<hash, pid, worker>> -> facts of the temporary file, Torn or Missing
  process,    \* pid of the run under way, or None
  todo,       \* discovered files no worker has taken
  worker,     \* worker -> [pc, path, hash, facts]
  results,    \* path -> the outcome of its file in the last run
  warm,       \* history: the hashes whose entries were complete when the run began
  unwritten,  \* history: the hashes one of whose temporary files could not be written
  crashes     \* history: number of crashes

disk == <<entry, temp>>
history == <<warm, unwritten>>
vars == <<tree, disk, process, todo, worker, results, history, crashes>>

Temps == Hashes \X Pids \X Workers

\* What an adapter extracts from a content found at a path.
Facts(p, h) == [content |-> h, kind |-> Kind[p]]
AllFacts == {Facts(p, h) : p \in Paths, h \in Hashes}

ASSUME FactsAssumption == {Missing, Torn, None} \cap AllFacts = {}

Complete(h) == entry[h] \notin {Missing, Torn}

Steps == {"idle", "load", "parse", "write", "writing", "rename", "remove", "again"}
Idle == [pc |-> "idle", path |-> None, hash |-> None, facts |-> None]
WorkerStates == [pc : Steps, path : Paths \cup {None}, hash : Hashes \cup {None},
                 facts : AllFacts \cup {None}]

Failure(h) == [hash |-> h, facts |-> None]
Outcome(h, facts) == [hash |-> h, facts |-> facts]

Init ==
  /\ tree \in [Paths -> Hashes \cup {Missing}]
  /\ entry = [h \in Hashes |-> Missing]
  /\ temp = [t \in Temps |-> Missing]
  /\ process = None /\ todo = {}
  /\ worker = [w \in Workers |-> Idle]
  /\ results = [p \in Paths |-> None]
  /\ warm = {} /\ unwritten = {} /\ crashes = 0

--------------------------------------------------------------------------------
(* One run. *)

Begin ==
  /\ process = None
  /\ process' \in Pids
  /\ todo' = {p \in Paths : tree[p] # Missing}
  /\ results' = [p \in Paths |-> None]
  /\ warm' = {h \in Hashes : Complete(h)}
  /\ unwritten' = {}
  /\ UNCHANGED <<tree, disk, worker, crashes>>

End ==
  /\ process # None /\ todo = {}
  /\ \A w \in Workers : worker[w] = Idle
  /\ process' = None
  /\ UNCHANGED <<tree, disk, todo, worker, results, history, crashes>>

At(w, step) == worker[w].pc = step
Goto(w, step) == worker' = [worker EXCEPT ![w].pc = step]

Finish(w, outcome) ==
  /\ results' = [results EXCEPT ![worker[w].path] = outcome]
  /\ worker' = [worker EXCEPT ![w] = Idle]

\* The bytes are read once; hash and facts are taken from these bytes.
Read(w) ==
  /\ At(w, "idle")
  /\ \E p \in todo :
       /\ todo' = todo \ {p}
       /\ IF tree[p] = Missing
          THEN /\ results' = [results EXCEPT ![p] = Failure(None)]
               /\ UNCHANGED worker
          ELSE /\ worker' = [worker EXCEPT ![w] =
                               [pc |-> "load", path |-> p, hash |-> tree[p], facts |-> None]]
               /\ UNCHANGED results
  /\ UNCHANGED <<tree, disk, process, history, crashes>>

\* A missing or corrupted entry is a miss.
load(w) ==
  /\ At(w, "load")
  /\ IF Complete(worker[w].hash)
     THEN Finish(w, Outcome(worker[w].hash, entry[worker[w].hash]))
     ELSE Goto(w, "parse") /\ UNCHANGED results
  /\ UNCHANGED <<tree, disk, process, todo, history, crashes>>

\* Nothing is stored for a file that fails to parse.
extract(w) ==
  /\ At(w, "parse")
  /\ IF worker[w].hash \in Unparsable
     THEN Finish(w, Failure(worker[w].hash))
     ELSE /\ worker' = [worker EXCEPT ![w].pc = "write",
                          ![w].facts = Facts(worker[w].path, worker[w].hash)]
          /\ UNCHANGED results
  /\ UNCHANGED <<tree, disk, process, todo, history, crashes>>

--------------------------------------------------------------------------------
(* ParseCache::store *)

\* Faulty variant: the threads of a process share the name.
temp_of_process(w) == <<worker[w].hash, process, CHOOSE v \in Workers : TRUE>>

temp_of(w) == <<worker[w].hash, process, w>>

\* Over an existing file a rename may fail or replace it: platforms differ.
MayFail(w) == temp[temp_of(w)] = Missing \/ entry[worker[w].hash] # Missing

Rename(w) ==
  /\ temp[temp_of(w)] # Missing
  /\ entry' = [entry EXCEPT ![worker[w].hash] = temp[temp_of(w)]]
  /\ temp' = [temp EXCEPT ![temp_of(w)] = Missing]

Stored(w) == Finish(w, Outcome(worker[w].hash, worker[w].facts))

\* fs::write creates or truncates the file, then fills it.
create_temp(w) ==
  /\ At(w, "write")
  /\ temp' = [temp EXCEPT ![temp_of(w)] = Torn]
  /\ Goto(w, "writing")
  /\ UNCHANGED <<tree, entry, process, todo, results, history, crashes>>

fill_temp(w) ==
  /\ At(w, "writing")
  /\ temp' = [temp EXCEPT ![temp_of(w)] = worker[w].facts]
  /\ Goto(w, "rename")
  /\ UNCHANGED <<tree, entry, process, todo, results, history, crashes>>

\* The write is given up, the unfinished file stays, the run goes on.
write_fails(w) ==
  /\ At(w, "writing")
  /\ Stored(w)
  /\ unwritten' = unwritten \cup {worker[w].hash}
  /\ UNCHANGED <<tree, disk, process, todo, warm, crashes>>

rename_temp(w) ==
  /\ At(w, "rename")
  /\ \/ Rename(w) /\ Stored(w)
     \/ MayFail(w) /\ Goto(w, "remove") /\ UNCHANGED <<disk, results>>
  /\ UNCHANGED <<tree, process, todo, history, crashes>>

remove_entry(w) ==
  /\ At(w, "remove")
  /\ entry' = [entry EXCEPT ![worker[w].hash] = Missing]
  /\ Goto(w, "again")
  /\ UNCHANGED <<tree, temp, process, todo, results, history, crashes>>

\* Faulty variant: after the removal the entry is given up.
rename_never_again(w) ==
  /\ At(w, "again")
  /\ temp' = [temp EXCEPT ![temp_of(w)] = Missing]
  /\ Stored(w)
  /\ UNCHANGED <<tree, entry, process, todo, history, crashes>>

rename_again(w) ==
  /\ At(w, "again")
  /\ \/ Rename(w)
     \/ MayFail(w) /\ temp' = [temp EXCEPT ![temp_of(w)] = Missing] /\ UNCHANGED entry
  /\ Stored(w)
  /\ UNCHANGED <<tree, process, todo, history, crashes>>

--------------------------------------------------------------------------------
(* The environment. *)

\* Files change at any time, also between discovery and reading.
Edit ==
  /\ \E p \in Paths, h \in Hashes \cup {Missing} : tree' = [tree EXCEPT ![p] = h]
  /\ UNCHANGED <<disk, process, todo, worker, results, history, crashes>>

\* The run is lost; entries that were not flushed are torn.
Crash ==
  /\ process # None /\ crashes < MaxCrashes
  /\ crashes' = crashes + 1
  /\ \E lost \in SUBSET {h \in Hashes : entry[h] # Missing} :
       entry' = [h \in Hashes |-> IF h \in lost THEN Torn ELSE entry[h]]
  /\ process' = None /\ todo' = {}
  /\ worker' = [w \in Workers |-> Idle]
  /\ results' = [p \in Paths |-> None]
  /\ UNCHANGED <<tree, temp, history>>

store(w) ==
  create_temp(w) \/ fill_temp(w) \/ write_fails(w)
  \/ rename_temp(w) \/ remove_entry(w) \/ rename_again(w)

Next ==
  \/ Begin \/ End \/ Edit \/ Crash
  \/ \E w \in Workers : Read(w) \/ load(w) \/ extract(w) \/ store(w)

Spec == Init /\ [][Next]_vars

--------------------------------------------------------------------------------
(* Properties. *)

\* The values of every variable.
TypeOK ==
  /\ tree \in [Paths -> Hashes \cup {Missing}]
  /\ entry \in [Hashes -> AllFacts \cup {Missing, Torn}]
  /\ temp \in [Temps -> AllFacts \cup {Missing, Torn}]
  /\ process \in Pids \cup {None}
  /\ todo \subseteq Paths
  /\ worker \in [Workers -> WorkerStates]
  /\ results \in [Paths -> [hash : Hashes \cup {None}, facts : AllFacts \cup {None}] \cup {None}]
  /\ warm \subseteq Hashes /\ unwritten \subseteq Hashes /\ crashes \in 0 .. MaxCrashes

\* Concurrent writers of one hash, failed writes and reused process ids never
\* publish an unfinished entry: only a crash tears one.
WritersNeverTear == crashes = 0 => \A h \in Hashes : entry[h] # Torn

\* An entry, and a file's result, hold facts of the very content they are
\* filed under, although the file may change between any two steps.
FactsOfContent ==
  /\ \A h \in Hashes : Complete(h) => entry[h].content = h
  /\ \A p \in Paths : results[p] # None /\ results[p].facts # None =>
       results[p].facts.content = results[p].hash

\* A content whose entry was complete when the run began is not parsed in it,
\* whatever the other workers write, remove and rename meanwhile.
WarmIsNotParsed == \A w \in Workers : At(w, "parse") => worker[w].hash \notin warm

\* Whatever the workers do at the same time, an entry is whole, of its content, and final.
EntriesAreSound == WritersNeverTear /\ FactsOfContent /\ WarmIsNotParsed

\* Once a run is over, every content it has facts of has a complete entry,
\* also if it was torn, or removed and renamed by racing workers; only a
\* failed write may leave it out.
CachedAfterRun ==
  process = None =>
    \A p \in Paths : results[p] # None /\ results[p].facts # None =>
      Complete(results[p].hash) \/ results[p].hash \in unwritten

\* Entries are path-independent: a file gets the facts its own path yields,
\* whichever file of the same content was parsed for it.
PathIndependent ==
  \A p \in Paths : results[p] # None /\ results[p].facts # None =>
    results[p].facts = Facts(p, results[p].hash)

================================================================================
