--------------------------------- MODULE Review ----------------------------------
(***************************************************************************)
(* `ovecc review` and `ovecc gate`: a repository is edited, committed and  *)
(* indexed, and two snapshots are compared.  A line of a file is <<kind,   *)
(* argument>>: a comment, a branch, a secret, the header of a function, or *)
(* an import, type-only or not, of a module.  File m is module m; one that *)
(* is added was empty.  What git reports of two contents is any longest    *)
(* common subsequence.                                                     *)
(***************************************************************************)
EXTENDS ModuleGraph, Clones

low == 1
medium == 2
high == 3

CONSTANTS
  Trees,            \* module -> lines, to start with
  Insertions,       \* module -> lines that an edit may insert
  MaxEdits,
  MaxSnapshots,
  MaxLines,
  hash              \* line -> place of the id of a finding there in the order of ids

\* A tree has a sequence of lines for each module.
ASSUME TreesAreFiles ==
  \A t \in Trees : DOMAIN t = Modules /\ \A m \in Modules : t[m] \in Seq(Range(t[m])) /\ Len(t[m]) <= MaxLines

\* The ids of findings at two lines differ; nothing says which one is less.
ASSUME IdsDiffer ==
  /\ MaxLines \in Nat
  /\ hash \in [0 .. MaxLines -> Nat]
  /\ \A i, j \in 0 .. MaxLines : hash[i] = hash[j] => i = j

VARIABLES
  tree,             \* the working tree
  commits,          \* the commits of the branch, as trees; HEAD is the last
  snapshots,
  edits
review_vars == <<tree, commits, snapshots, edits>>

Kind(line) == line[1]
Lines(t, m, kind) == {i \in DOMAIN t[m] : Kind(t[m][i]) = kind}
CodeLines(t, m) == {i \in DOMAIN t[m] : Kind(t[m][i]) # "comment"}

\* What a sequence has at some of its places.
At(s, places) == LET order == Sorted(places, <) IN [k \in DOMAIN order |-> s[order[k]]]

--------------------------------------------------------------------------------
(* The index of a tree. *)

\* <<start, end>> of the functions of a file.
symbol_spans(t, m) ==
  {<<i, Min({j \in Lines(t, m, "function") : j > i} \cup {Len(t[m]) + 1}) - 1>> : i \in Lines(t, m, "function")}

Enclosing(spans, i) == {s \in spans : s[1] <= i /\ i <= s[2]}

\* The smallest of the spans around a line, or the line.
enclosing_span(spans, i) ==
  LET around == Enclosing(spans, i)
  IN IF around = {} THEN <<i, i>>
     ELSE CHOOSE s \in around : \A o \in around : s[2] - s[1] <= o[2] - o[1]

Found(kind, severity, path, line, locator) ==
  [kind |-> kind, severity |-> severity, path |-> path, line |-> line, locator |-> locator]

\* The function around a line.
Locator(t, m, i) ==
  LET around == Enclosing(symbol_spans(t, m), i)
  IN IF around = {} THEN 0 ELSE t[m][(CHOOSE s \in around : TRUE)[1]][2]

security_rules(t) ==
  UNION {{Found("secret", high, m, i, Locator(t, m, i)) : i \in Lines(t, m, "secret")} : m \in Modules}

branches(t, m, s) == Cardinality({i \in Lines(t, m, "branch") : s[1] <= i /\ i <= s[2]})

complexity_findings(t) ==
  UNION {{Found("complexity", IF branches(t, m, s) > 2 THEN high ELSE medium, m, s[1], t[m][s[1]][2])
          : s \in {r \in symbol_spans(t, m) : branches(t, m, r) > 1}} : m \in Modules}

Imports(t) ==
  UNION {{<<m, i>> : i \in Lines(t, m, "import") \cup Lines(t, m, "type_import")} : m \in Modules}

\* One row for each import, in the order of the files.
Dependencies(t) ==
  LET order == Sorted(Imports(t), LAMBDA x, y : x[1] < y[1] \/ (x[1] = y[1] /\ x[2] < y[2]))
      row(x) == [source |-> x[1], target |-> t[x[1]][x[2]][2], kind |-> Kind(t[x[1]][x[2]]), external |-> FALSE,
                 from |-> x[1], to |-> t[x[1]][x[2]][2], line |-> x[2]]
  IN [k \in DOMAIN order |-> row(order[k])]

unused_files(t) == {Found("unused_file", low, m, 0, 0) : m \in Modules \ {t[x[1]][x[2]][2] : x \in Imports(t)}}

elementary_cycles(t) ==
  LET rows == Dependencies(t)
  IN UNION {Range(enumerate_scc_cycles(scc, rows)) : scc \in kosaraju_scc(Modules, runtime_edges(rows))}

\* A loop is known by its first import.
circular_dependency_rule(t, cycles) ==
  LET first(c) == CHOOSE x \in Imports(t) : x[1] = c[1] /\ t[x[1]][x[2]] = <<"import", c[2]>>
  IN {Found("circular_dependency", high, c[1], first(c)[2], c[2]) : c \in cycles}

Findings(t, cycles) ==
  security_rules(t) \cup complexity_findings(t) \cup unused_files(t) \cup circular_dependency_rule(t, cycles)

finding_group_key(f) == <<f.kind, f.severity, f.path, f.locator>>

\* Faulty variant: a finding is known by its line.
identities_of_lines(findings) == {[identity |-> <<finding_group_key(f), f.line>>, finding |-> f] : f \in findings}

\* The findings of a group are numbered in the order of their ids.
identities(findings) ==
  LET group(f) == {g \in findings : finding_group_key(g) = finding_group_key(f)}
  IN {[identity |-> <<finding_group_key(f), Cardinality({g \in group(f) : hash[g.line] < hash[f.line]})>>, finding |-> f]
      : f \in findings}

\* A line with code is one token: names and constants are alike, whatever they say.
collect_file_tokens(t) ==
  [m \in Modules |-> LET code == Sorted(CodeLines(t, m), <)
                     IN [k \in DOMAIN code |-> [token |-> Kind(t[m][code[k]]), line |-> code[k]]]]

compute_snapshot_metrics(t) ==
  LET rows == Dependencies(t)
  IN [modules |-> Cardinality(Modules), dependencies |-> Len(rows), circular_dependencies |-> cycle_count(rows),
      coupled_modules |-> Cardinality(local_dependency_edges(rows)),
      security_findings |-> Cardinality(security_rules(t)),
      high_complexity_functions |-> Cardinality(complexity_findings(t)),
      unused_files |-> Cardinality(unused_files(t))]

\* `loops` is of the index of the tree, of which only the newest is kept.
Snapshot(t, sha) ==
  LET cycles == elementary_cycles(t)
  IN [files |-> t, sha |-> sha, findings |-> identities(Findings(t, cycles)),
      edges |-> {<<d.source, d.target>> : d \in Range(Dependencies(t))},
      metrics |-> compute_snapshot_metrics(t),
      loops |-> cycles]

--------------------------------------------------------------------------------

ReviewInit ==
  /\ tree \in Trees
  /\ commits = <<tree>> /\ snapshots = <<>> /\ edits = 0

\* What is edited after the last index run is in no comparison.
EditTo(t) ==
  /\ edits < MaxEdits /\ Len(snapshots) < MaxSnapshots
  /\ tree' = t /\ edits' = edits + 1
  /\ UNCHANGED <<commits, snapshots>>

Insert ==
  \E m \in Modules, at \in 1 .. MaxLines : \E line \in Insertions[m] :
    /\ at <= Len(tree[m]) + 1 /\ Len(tree[m]) < MaxLines
    /\ EditTo([tree EXCEPT ![m] = InsertAt(@, at, line)])

DeleteLine == \E m \in Modules : \E at \in DOMAIN tree[m] : EditTo([tree EXCEPT ![m] = RemoveAt(@, at)])

Commit ==
  /\ tree # Last(commits)
  /\ commits' = Append(commits, tree)
  /\ UNCHANGED <<tree, snapshots, edits>>

Index ==
  /\ Len(snapshots) < MaxSnapshots
  /\ snapshots' = Append(snapshots, Snapshot(tree, Len(commits)))
  /\ UNCHANGED <<tree, commits, edits>>

ReviewNext == Insert \/ DeleteLine \/ Commit \/ Index

ReviewSpec == ReviewInit /\ [][ReviewNext]_review_vars

--------------------------------------------------------------------------------
(* The comparison. *)

snapshot_findings_minus(a, b) ==
  {x.finding : x \in {y \in a.findings : y.identity \notin {z.identity : z \in b.findings}}}

finding_diff(base, head) ==
  [new |-> snapshot_findings_minus(head, base), resolved |-> snapshot_findings_minus(base, head)]

changed_files(base, head) == {m \in Modules : base.files[m] # head.files[m]}

\* What git may report: the lines of `after` that are not kept, whichever are.
hunk_ranges(before, after) ==
  LET old == {At(before, places) : places \in SUBSET DOMAIN before}
      common == {places \in SUBSET DOMAIN after : At(after, places) \in old}
      longest == Max({Cardinality(K) : K \in common})
  IN {DOMAIN after \ K : K \in {L \in common : Cardinality(L) = longest}}

\* Each way to choose the changed lines of the files: module -> lines.
change_head_ranges(before, after, paths) ==
  LET hunks == [m \in Modules |-> IF m \in paths THEN hunk_ranges(before[m], after[m]) ELSE {{}}]
  IN {ranges \in [Modules -> UNION Range(hunks)] : \A m \in Modules : ranges[m] \in hunks[m]}

\* Between two commits, for each file that is not the same in both.
changed_line_ranges(before, after) == change_head_ranges(before, after, {m \in Modules : before[m] # after[m]})

\* From a commit to the disk, for the files that the snapshots tell apart.
worktree_line_ranges(before, disk, touched) == change_head_ranges(before, disk, touched)

\* The ways git may answer, or none when it cannot attest the lines.  `current`
\* is the tree on disk.
attested_change_ranges(base, head, branch, current) ==
  IF head.sha # Len(branch) THEN {}
  ELSE IF base.sha = head.sha THEN worktree_line_ranges(branch[base.sha], current, changed_files(base, head))
  ELSE changed_line_ranges(branch[base.sha], branch[head.sha])

point_scoped(kind) == kind = "secret"
body_scoped(kind) == kind = "complexity"

\* Faulty variant: only the line of the finding itself counts.
charged_alone(f, ranges, current) == ~ point_scoped(f.kind) \/ f.line \in ranges[f.path]

\* `current` is the newest index: the findings and the spans of the symbols.
charged_to_change(f, ranges, current) ==
  LET sites == {g \in {x.finding : x \in current.findings} : finding_group_key(g) = finding_group_key(f)}
      span == enclosing_span(symbol_spans(current.files, f.path), f.line)
  IN IF point_scoped(f.kind) /\ sites # {} THEN \E g \in sites : g.line \in ranges[g.path]
     ELSE IF point_scoped(f.kind) THEN f.line \in ranges[f.path]
     ELSE body_scoped(f.kind) => \E i \in ranges[f.path] : span[1] <= i /\ i <= span[2]

\* The new findings that an answer of git leaves.
scope_to_touched_lines(ranges, current, new) == {f \in new : charged_to_change(f, ranges, current)}

\* A loop is new when one of its edges is.
added(cycle, base) == \E i \in DOMAIN cycle : <<cycle[i], cycle[(i % Len(cycle)) + 1]>> \notin base.edges

\* Faulty variant: what is listed now and was not listed then.
new_cycles_by_list(base, current) == current.loops \ base.loops

new_cycles(base, current) == {c \in current.loops : added(c, base)}

\* A copy is charged for its code, whatever is written around it.
holds_changed_token(instance, ranges, current) ==
  \E token \in Range(collect_file_tokens(current.files)[instance.file]) :
    token.line \in instance.start_line .. instance.end_line /\ token.line \in ranges[instance.file]

\* The families of copies on disk that the change reaches: a file that it touches when git
\* has no answer.
new_duplications(touched, scoped, current) ==
  {family \in detect(collect_file_tokens(current.files)) :
     /\ touched # {}
     /\ \E i \in Range(family.instances) :
          IF scoped.answered THEN holds_changed_token(i, scoped.ranges, current) ELSE i.file \in touched}

max_severity(findings) == Max({f.severity : f \in findings} \cup {0})

review_crosses_threshold(fail_on, report) ==
  \/ report.new_cycles # {}
  \/ fail_on = "any" /\ (report.new_findings # {} \/ report.new_duplications # {})
  \/ fail_on # "any" /\ max_severity(report.new_findings) >= (IF fail_on = "high" THEN high ELSE medium)

review_risk(findings, cycles, duplications) ==
  IF cycles # {} \/ max_severity(findings) = high THEN "high"
  ELSE IF max_severity(findings) = medium \/ duplications # {} THEN "medium" ELSE "low"

\* A report tells the loops by themselves.
new_findings(base, head) == {f \in finding_diff(base, head).new : f.kind # "circular_dependency"}

\* The new findings for each answer of git, all of them when it has none.
scoped_findings(base, head, branch, current) ==
  LET new == new_findings(base, head)
      answers == attested_change_ranges(base, head, branch, current.files)
      scoped(findings, answered, ranges) == [findings |-> findings, answered |-> answered, ranges |-> ranges]
  IN IF answers = {} THEN {scoped(new, FALSE, [m \in Modules |-> {}])}
     ELSE {scoped(scope_to_touched_lines(r, current, new), TRUE, r) : r \in answers}

\* What is left of the new findings, and how many only moved.
ReviewReport(base, head, findings, cycles, duplications) ==
  [new_findings |-> findings, new_cycles |-> cycles, new_duplications |-> duplications,
   risk |-> review_risk(findings, cycles, duplications), resolved |-> finding_diff(base, head).resolved,
   shifted |-> Cardinality(new_findings(base, head)) - Cardinality(findings)]

build_review_report(base, head, branch, current) ==
  {ReviewReport(base, head, s.findings, new_cycles(base, current),
                new_duplications(changed_files(base, head), s, current))
   : s \in scoped_findings(base, head, branch, current)}

--------------------------------------------------------------------------------
(* The gate compares what snapshots count.  Modules stay, so only          *)
(* dependencies come and go.                                               *)

\* A module is imported by one specifier, and none is external.
dependency_difference(a, b) == {e \in a.edges \ b.edges : e[1] # e[2]}

diff(base, head) ==
  LET added_dependencies == dependency_difference(head, base)
      removed_dependencies == dependency_difference(base, head)
  IN [added_dependencies |-> added_dependencies, removed_dependencies |-> removed_dependencies,
      risk_score |-> IF Cardinality(added_dependencies) >= 10 THEN high
                     ELSE IF added_dependencies \cup removed_dependencies # {} THEN medium ELSE low]

\* `percent` compares the change of the coupling with a share of what it was; from none
\* it is taken for 100.
drift_trend(dependency_delta, cycle_delta, coupling_delta, coupling) ==
  LET percent == IF coupling # 0 THEN 100 * coupling_delta ELSE IF coupling_delta = 0 THEN 0 ELSE 100
      of == IF coupling # 0 THEN coupling ELSE 1
  IN IF dependency_delta = 0 /\ cycle_delta = 0 /\ percent < of /\ -percent < of THEN "stable"
     ELSE IF cycle_delta > 0 \/ percent > 10 * of \/ dependency_delta > 10 THEN "worsening"
     ELSE IF cycle_delta < 0 \/ percent < -10 * of \/ dependency_delta < -10 THEN "improving" ELSE "stable"

\* The metrics that either snapshot counted, with what they were and are.
drift(base, head) ==
  LET delta(metric) == head.metrics[metric] - base.metrics[metric]
  IN [circular_dependency_delta |-> delta("circular_dependencies"),
      metric_deltas |-> {d \in {[metric |-> m, base |-> base.metrics[m], head |-> head.metrics[m]] :
                                m \in DOMAIN head.metrics} : d.base # 0 \/ d.head # 0},
      trend |-> drift_trend(delta("dependencies"), delta("circular_dependencies"),
                            delta("coupled_modules"), base.metrics.coupled_modules)]

REGRESSION_METRICS == {"security_findings", "unused_files", "high_complexity_functions"}

diff_crosses_threshold(fail_on, report) ==
  CASE fail_on = "any" -> report.added_dependencies \cup report.removed_dependencies # {}
    [] fail_on = "medium" -> report.risk_score >= medium
    [] fail_on = "high" -> report.risk_score >= high

build_gate_report(fail_on, base, head) ==
  \/ drift(base, head).circular_dependency_delta > 0
  \/ diff_crosses_threshold(fail_on, diff(base, head))
  \/ \E d \in drift(base, head).metric_deltas : d.metric \in REGRESSION_METRICS /\ d.head > d.base

--------------------------------------------------------------------------------
(* What a review is for.  The newest snapshot is the head, as in the gate  *)
(* workflow; the base is any before it.                                    *)

Newest == Last(snapshots)
Bases == {snapshots[i] : i \in 1 .. Len(snapshots) - 1}
Reviews(base) == build_review_report(base, Newest, commits, Newest)
Scoped(base) == scoped_findings(base, Newest, commits, Newest)

Clean(s) == s.files = commits[s.sha]
\* The headers of functions are the same, and git reports none of them as touched.
KeptFunctions(base, scoped) ==
  \A m \in Modules :
    LET functions(t) == At(t[m], Lines(t, m, "function"))
    IN functions(base.files) = functions(Newest.files) /\ scoped.ranges[m] \cap Lines(Newest.files, m, "function") = {}

\* What the head has and the base has not: one more of a group of secrets, a file that
\* nothing imports any more, a function that is more complex than it was.
Introduced(base) ==
  LET before == {x.finding : x \in base.findings}
      after == {x.finding : x \in Newest.findings}
      alike(findings, f) == {g \in findings : finding_group_key(g) = finding_group_key(f)}
      more(f) == Cardinality(alike(after, f)) > Cardinality(alike(before, f))
      worse(f) == \A g \in before : g.kind = f.kind /\ g.path = f.path /\ g.locator = f.locator => g.severity < f.severity
  IN {finding_group_key(f) : f \in {g \in after : /\ g.kind # "circular_dependency"
                                              /\ IF g.kind = "complexity" THEN worse(g) ELSE more(g)}}

AllCharged(base) ==
  \A scoped \in Scoped(base) : KeptFunctions(base, scoped) =>
    Introduced(base) \subseteq {finding_group_key(f) : f \in scoped.findings}

\* Whatever the change moved and whichever lines git says it touched, every defect that
\* it introduced is reported, between commits and from a commit to the working tree.  A
\* change that adds or removes functions may hide one: what is under a new header is of
\* a new group.
IntroducedIsCharged ==
  Len(snapshots) > 1 /\ tree = Newest.files =>
    \A base \in Bases :
      Clean(base) /\ (Clean(Newest) \/ base.sha = Newest.sha) => AllCharged(base)

\* The same when commits and uncommitted edits are in the change (git compares two commits
\* then, and what is only in the working tree is taken for untouched).
WorktreeIsReviewed ==
  Len(snapshots) > 1 /\ tree = Newest.files =>
    \A base \in Bases : Clean(base) => AllCharged(base)

Code(t) == [m \in Modules |-> At(t[m], CodeLines(t, m))]

\* The lines that git reports are those of the change: it is between two commits, or
\* from one to the working tree; and they are the comments, not the code around them.
Attested(base) ==
  /\ Clean(base) /\ Newest.sha = Len(commits) /\ (Clean(Newest) \/ base.sha = Newest.sha)
  /\ \A scoped \in Scoped(base), m \in Modules : scoped.ranges[m] \subseteq Lines(Newest.files, m, "comment")

\* Comments that move everything else charge nothing, as often as a pattern is repeated
\* or a block of code copied, and neither the review nor the gate fails, nor does the
\* trend change.  A copy in a touched file is charged when git has no answer.
MovedIsNotCharged ==
  Len(snapshots) > 1 =>
    \A base \in Bases : Code(base.files) = Code(Newest.files) =>
      /\ \A report \in Reviews(base) :
           /\ report.new_findings = {} /\ report.shifted = 0 /\ report.new_cycles = {}
           /\ Attested(base) => report.risk = "low" /\ ~ review_crosses_threshold("any", report)
      /\ ~ build_gate_report("any", base, Newest) /\ drift(base, Newest).trend = "stable"

\* The loops of a tree: rings of modules, each with an import of the next.
Rings(t, kinds) ==
  {c \in UNION {[1 .. n -> Modules] : n \in 2 .. Cardinality(Modules)} :
     /\ IsInjective(c) /\ canonical(c) = c
     /\ \A i \in DOMAIN c : \E line \in Range(t[c[i]]) :
          Kind(line) \in kinds /\ line[2] = c[(i % Len(c)) + 1]}

\* A change is charged with loops of runtime imports that the base had in no form, not
\* even of type-only imports, whichever loops were listed of it and whatever the change
\* takes away from them.  One that it closes goes unreported only where the list ends: it
\* is longer than those looked for, or its component has as many that are no longer.
NewCyclesCharged ==
  Len(snapshots) > 1 =>
    \A base \in Bases :
      LET closed == Rings(Newest.files, {"import"}) \ Rings(base.files, {"import", "type_import"})
          charged == new_cycles(base, Newest)
      IN /\ charged \subseteq closed
         /\ \A c \in closed \ charged :
              \/ Len(c) > MaxCycleDepth
              \/ \E scc \in kosaraju_scc(Modules, runtime_edges(Dependencies(Newest.files))) :
                   /\ Range(c) \subseteq scc
                   /\ Cardinality({o \in Newest.loops : Range(o) \subseteq scc /\ Len(o) <= Len(c)})
                        = MaxCyclesPerScc

================================================================================
