------------------------------ MODULE GitHistory -------------------------------
(***************************************************************************)
(* The history that the index keeps, and what is asked of it.  A commit is *)
(* [sha, at, message, changes], a change [path, from] with the path a file *)
(* had before a rename; the database is [commits, changes, co_changes].    *)
(* Messages are [type, words] with the class of each word; a verdict of    *)
(* the classifier is in tenths.                                            *)
(***************************************************************************)
EXTENDS Integers, Sequences, FiniteSets, FiniteSetsExt, SequencesExt, Functions, Sets

CONSTANTS
  NoPath,
  GitWindowDays,    \* 365
  GitMaxCommits,    \* 5000
  MaxRenames,       \* 20: renames followed from a path
  MaxCommitFiles,   \* 30
  MinSupport,       \* 3
  MinJaccard,       \* 35%
  MaxEvidence       \* 5

Unclassified == "unclassified"    \* other verdicts are "fix" and "no fix"

--------------------------------------------------------------------------------
(* Is a commit a fix? *)

repairs_housekeeping(words) ==
  LET verbs == {i \in DOMAIN words : words[i] = "correction"}
      anchor == IF verbs = {} THEN 1 ELSE Min(verbs)
  IN \E i \in anchor + 1 .. anchor + 3 : i \in DOMAIN words /\ words[i] = "housekeeping"

score(message) ==
  LET has(class) == class \in Range(message.words)
      base == IF message.type = "fix" THEN 9
              ELSE IF has("correction") THEN IF has("defect") THEN 8 ELSE 6
              ELSE IF has("defect") THEN 4 ELSE 0
  IN IF \/ message.words = <<>> \/ message.type = "other"
        \/ message.words[1] \in {"revert", "merge"} THEN 0
     ELSE IF ~ has("defect") /\ repairs_housekeeping(message.words)
     THEN IF base < 5 THEN 0 ELSE base - 5
     ELSE base

classify_fix_message(message, threshold) == IF score(message) >= threshold THEN "fix" ELSE "no fix"

--------------------------------------------------------------------------------
(* Ingestion. *)

\* The newest commits, and of these the ones in the window.
collect_history(log, now) ==
  LET first == IF Len(log) > GitMaxCommits THEN Len(log) - GitMaxCommits + 1 ELSE 1
  IN {log[i] : i \in {j \in first .. Len(log) : log[j].at >= now - GitWindowDays}}

\* Commits and changes that are known stay as they are.
commit_rows(db, commits, threshold) ==
  LET known == DOMAIN db.commits
      row(sha) ==
        LET c == CHOOSE x \in commits : x.sha = sha
        IN [at |-> c.at, message |-> c.message, fix |-> classify_fix_message(c.message, threshold)]
  IN [sha \in known \cup {c.sha : c \in commits} |->
        IF sha \in known THEN db.commits[sha] ELSE row(sha)]

change_rows(db, commits) ==
  db.changes \cup UNION {{[commit |-> c.sha, path |-> d.path, from |-> d.from] : d \in c.changes} : c \in commits}

upsert_git_facts(db, commits, threshold) ==
  [db EXCEPT !.commits = commit_rows(db, commits, threshold), !.changes = change_rows(db, commits)]

\* Faulty variant: every commit is classified again.
unclassified_commits_all(db) == DOMAIN db.commits

unclassified_commits(db) == {sha \in DOMAIN db.commits : db.commits[sha].fix = Unclassified}

backfill_fix_classification(db, threshold) ==
  LET judged(c) == [c EXCEPT !.fix = classify_fix_message(c.message, threshold)]
      old == unclassified_commits(db)
  IN [db EXCEPT !.commits =
        [sha \in DOMAIN db.commits |-> IF sha \in old THEN judged(db.commits[sha]) ELSE db.commits[sha]]]

ingest_git(db, log, now, threshold) ==
  backfill_fix_classification(upsert_git_facts(db, collect_history(log, now), threshold), threshold)

--------------------------------------------------------------------------------
(* Queries: everything is rolled up under the name a file has now. *)

Renames(db) ==
  {<<d.from, d.path>> : d \in {c \in db.changes : c.from # NoPath /\ c.from # c.path}}

\* Faulty variant: one rename is followed.
Canonical_one_step(db, path) ==
  LET next == {r[2] : r \in {e \in Renames(db) : e[1] = path}}
  IN IF next = {} THEN path ELSE CHOOSE p \in next : TRUE

Renamed(names, renames) == {r[2] : r \in {e \in renames : e[1] \in names}}

\* One step of every walk, as long as one of them goes on.
Follow(names, renames) == IF Renamed(names, renames) = {} THEN names ELSE Renamed(names, renames)

\* The name at the end of the longest walk along renames.
Canonical(db, path) ==
  LET renames == Renames(db)
      walk[depth \in Nat] == IF depth = 0 THEN {path} ELSE Follow(walk[depth - 1], renames)
  IN CHOOSE p \in walk[MaxRenames] : TRUE

\* <<commit, current name>>
Touches(db) ==
  LET names == [p \in {d.path : d \in db.changes} |-> Canonical(db, p)]
  IN {<<d.commit, names[d.path]>> : d \in db.changes}

file_churn(db) ==
  LET touches == Touches(db)
  IN [path \in {t[2] : t \in touches} |-> Cardinality({t \in touches : t[2] = path})]

commit_file_sets(db) ==
  LET touches == Touches(db)
  IN {[sha |-> sha, at |-> db.commits[sha].at, files |-> {t[2] : t \in {u \in touches : u[1] = sha}}]
      : sha \in {t[1] : t \in touches}}

Newest(db) == Max({db.commits[sha].at : sha \in DOMAIN db.commits})

\* A fix weighs half as much a day before (the half-life of the code is longer);
\* what the newest commit weighs is the same for all, so the sums compare.
file_fix_history(db) ==
  LET fixes == {t \in Touches(db) : db.commits[t[1]].fix = "fix"}
      days(path) == {db.commits[t[1]].at : t \in {u \in fixes : u[2] = path}}
  IN [path \in {t[2] : t \in fixes} |->
        [fixes |-> Cardinality(days(path)), mass |-> MapThenSumSet(LAMBDA day : 2 ^ day, days(path))]]

file_age_days(db) ==
  LET touches == Touches(db)
      last(path) == Max({db.commits[t[1]].at : t \in {u \in touches : u[2] = path}})
  IN [path \in {t[2] : t \in touches} |-> Newest(db) - last(path)]

\* What a commit touched, with the days since the commit before that touched it.
commit_shapes(db) ==
  LET touches == Touches(db)
      before(t) == {db.commits[u[1]].at : u \in {v \in touches : v[2] = t[2] /\ db.commits[v[1]].at < db.commits[t[1]].at}}
      aged(t) == [path |-> t[2], age |-> IF before(t) = {} THEN {} ELSE {db.commits[t[1]].at - Max(before(t))}]
  IN {[sha |-> sha, at |-> db.commits[sha].at, files |-> {aged(t) : t \in {u \in touches : u[1] = sha}}]
      : sha \in {t[1] : t \in touches}}

\* What `diagnose` reads: pairs of paths as they were in the commits.
co_change_pairs(db, min) ==
  LET paths(sha) == {d.path : d \in {c \in db.changes : c.commit = sha}}
      sized == {sha \in {d.commit : d \in db.changes} : Cardinality(paths(sha)) \in 2 .. MaxCommitFiles}
      together(pair) == {sha \in sized : pair \subseteq paths(sha)}
      pairs == UNION {kSubset(2, paths(sha)) : sha \in sized}
  IN {[pair |-> pair, count |-> Cardinality(together(pair))] : pair \in {p \in pairs : Cardinality(together(p)) >= min}}

--------------------------------------------------------------------------------
(* Evolutionary coupling. *)

\* Faulty variant: a commit of one file counts among those of the file.
Counted_all(commits) == {c \in commits : Cardinality(c.files) <= MaxCommitFiles}

\* Commits that say something about pairs.
Counted(commits) == {c \in commits : Cardinality(c.files) \in 2 .. MaxCommitFiles}

co_changed_pairs(commits) ==
  LET window == Counted(commits)
      with(files) == {c \in window : files \subseteq c.files}
      n(files) == Cardinality(with(files))
      strong(pair) ==
        \A f, g \in pair : f # g =>
          /\ n(pair) >= MinSupport
          /\ 100 * n(pair) >= MinJaccard * (n({f}) + n({g}) - n(pair))
          /\ n(pair) * Cardinality(window) > n({f}) * n({g})
      evidence(pair) ==
        {c.sha : c \in {d \in with(pair) :
           Cardinality({e \in with(pair) : e.at > d.at}) < MaxEvidence}}
  IN {[pair |-> pair, support |-> n(pair), of |-> [f \in pair |-> n({f})], commits |-> evidence(pair)]
      : pair \in {p \in UNION {kSubset(2, c.files) : c \in window} : strong(p)}}

\* Only files of the index are counted.
coupling_of(db, indexed) ==
  co_changed_pairs({[c EXCEPT !.files = @ \cap indexed] : c \in commit_file_sets(db)})

--------------------------------------------------------------------------------
(* What a change touches, measured against the indexed history, and the    *)
(* ranking of the modules by debt.  Fractions are pairs <<part, whole>>;   *)
(* a measure that there is none of is the empty set, else a singleton.     *)

CONSTANTS
  MinRankedCommits  \* 100

Total(of, files) == MapThenSumSet(LAMBDA f : of[f], files)

\* lines gives the changed lines of each file the change reaches; components
\* and modules the ones that own a file, mass and age what history knows.
change_shape(lines, components, modules, hotspots, mass, age) ==
  LET touched == DOMAIN lines
      owners(of) == {of[f] : f \in touched \cap DOMAIN of}
      known == touched \cap DOMAIN age
  IN [files |-> Cardinality(touched),
      lines |-> Total(lines, touched),
      components |-> Cardinality(owners(components)),
      hotspots |-> SelectSeq(hotspots, LAMBDA m : m \in owners(modules)),
      fix_mass_share |-> <<Total(mass, touched \cap DOMAIN mass), Total(mass, DOMAIN mass)>>,
      mean_age_days |-> IF known = {} THEN {} ELSE {<<Total(age, known), Cardinality(known)>>}]

\* The lines of a change are spread evenly iff all files have as many.
spread_is_even(lines) == Cardinality(DOMAIN lines) >= 2 /\ Cardinality(Range(lines)) = 1 /\ Range(lines) # {0}

\* files is a set of [path, age].
commit_shape(files, components, mass) ==
  LET paths == {f.path : f \in files}
      aged == {f \in files : f.age # {}}
  IN [files |-> Cardinality(files),
      components |-> Cardinality({components[p] : p \in paths \cap DOMAIN components}),
      fix_mass_share |-> <<Total(mass, paths \cap DOMAIN mass), Total(mass, DOMAIN mass)>>,
      mean_age_days |-> IF aged = {} THEN {}
                        ELSE {<<MapThenSumSet(LAMBDA f : CHOOSE a \in f.age : TRUE, aged), Cardinality(aged)>>}]

Reaches(share, other) == other[1] * share[2] <= share[1] * other[2]

\* Faulty variant: a commit that the change only equals does not count.
Percentile_strict(reached, history) == <<Cardinality(reached) - 1, Cardinality(history)>>

\* The share of the commits whose value the change reaches.
Percentile(reached, history) == <<Cardinality(reached), Cardinality(history)>>

\* history is a set of [sha, shape].
rank_change(shape, history) ==
  LET aged == {c \in history : c.shape.mean_age_days # {}}
      rank(commits, below(_)) == IF commits = {} THEN {} ELSE {Percentile({c \in commits : below(c)}, commits)}
      mean(s) == CHOOSE a \in s.mean_age_days : TRUE
  IN IF Cardinality(history) < MinRankedCommits
     THEN [files |-> {}, components |-> {}, fix_mass_share |-> {}, mean_age_days |-> {}]
     ELSE [files |-> rank(history, LAMBDA c : c.shape.files <= shape.files),
           components |-> rank(history, LAMBDA c : c.shape.components <= shape.components),
           fix_mass_share |-> rank(history, LAMBDA c : Reaches(shape.fix_mass_share, c.shape.fix_mass_share)),
           mean_age_days |-> IF shape.mean_age_days = {} THEN {}
                             ELSE rank(aged, LAMBDA c : Reaches(mean(shape), mean(c.shape)))]

\* What a change is measured against: the owners of the files, and what history knows.
ChangeFacts(db, component_of, module_of, hotspots) ==
  LET fixes == file_fix_history(db)
  IN [component_of |-> component_of, module_of |-> module_of, hotspots |-> hotspots,
      fix_mass |-> [p \in DOMAIN fixes |-> fixes[p].mass], age_days |-> file_age_days(db)]

\* The commits of the index, measured as the change is.
history_shapes(db, facts) ==
  {[sha |-> row.sha, shape |-> commit_shape(row.files, facts.component_of, facts.fix_mass)] : row \in commit_shapes(db)}

\* `attested` says whether git gave the lines: else each file counts and no line does.
build_change_shape(lines, attested, facts, history) ==
  LET shape == change_shape(lines, facts.component_of, facts.module_of, facts.hotspots, facts.fix_mass, facts.age_days)
      rank == rank_change(shape, history)
      declares_components == facts.component_of # <<>>
  IN [shape EXCEPT !.lines = IF attested THEN {@} ELSE {},
                   !.components = IF declares_components THEN {@} ELSE {},
                   !.fix_mass_share = IF @[2] > 0 THEN {@} ELSE {}]
     @@ [rank |-> IF declares_components THEN rank ELSE [rank EXCEPT !.components = {}]]

--------------------------------------------------------------------------------
(* Debt of the modules: seven measures, each against the highest. *)

Weights == [churn |-> 25, coupling |-> 20, complexity |-> 20, fan_in |-> 12, fan_out |-> 13,
            fragmentation |-> 7, violations |-> 3]

\* Scores of all modules are in the same parts.
Score(measures, module) ==
  LET highest(k) == Max({measures[m][k] : m \in DOMAIN measures} \cup {1})
      others(k) == FoldSet(LAMBDA o, p : highest(o) * p, 1, DOMAIN Weights \ {k})
  IN MapThenSumSet(LAMBDA k : Weights[k] * measures[module][k] * others(k), DOMAIN Weights)

compute_hotspots(measures, limit) ==
  LET scored == {s \in {<<Score(measures, m), m>> : m \in DOMAIN measures} : s[1] > 0}
      ranked == Sorted(scored, LAMBDA s, t : s[1] > t[1] \/ (s[1] = t[1] /\ s[2] < t[2]))
  IN [i \in 1 .. Min({Len(ranked), limit}) |-> ranked[i][2]]

================================================================================
