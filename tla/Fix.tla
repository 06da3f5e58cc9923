---------------------------------- MODULE Fix ----------------------------------
(***************************************************************************)
(* `ovecc fix` on source files.  An index run records findings with line   *)
(* numbers; the files may be edited after it, also while fix runs.  A fix  *)
(* takes the unused files first, then the unused exports of one file after *)
(* the other, then their stale suppressions: it reads a file, edits the    *)
(* lines in memory from the bottom up, and writes the file once.           *)
(***************************************************************************)
EXTENDS Naturals, SequencesExt, FiniteSets

CONSTANTS
  Names,          \* what a file may export
  Files,
  Missing,        \* no such file
  Contents,       \* what a file may hold at first
  Used,           \* the names other files import
  MaxEdits        \* bound of the model

--------------------------------------------------------------------------------
(* What an edit makes of a line: an `export` keyword dropped, a name taken *)
(* from an export list, a suppression comment removed.  A line is the      *)
(* statement before its comment, the ovecc-ignore comment if it has one,   *)
(* and the statement after it, which only a block comment leaves room for. *)

Nothing == [form |-> "nothing", names |-> {}, bad |-> FALSE]

\* form: "plain" exports nothing; "decl" is `export <declaration>`; "list" is
\* `export { ... }` on one line; "manual" is any other export.
\* bad: some rule other than unused-export reports the statement.
Statements ==
  [form : {"plain"}, names : {{}}, bad : BOOLEAN]
  \cup [form : {"decl", "list", "manual"}, names : SUBSET Names, bad : BOOLEAN]

\* `// ovecc-ignore`, `// ovecc-ignore-next-line`, `/* ovecc-ignore */`, and
\* `//ovecc-ignore`, a directive without the space that fix looks for.
Marks == {"none", "ignore", "next", "block", "tight"}

Lines == {line \in [before : Statements \cup {Nothing}, mark : Marks, after : Statements \cup {Nothing}] :
            line.mark # "block" => line.after = Nothing}

IsDirective(line) == line.mark # "none"
Exported(line) == line.before.names \cup line.after.names

\* The line a directive on line n suppresses.
suppression_offset(content, n) == IF content[n].mark = "next" THEN n + 1 ELSE n
Suppressed(content) == {suppression_offset(content, n) : n \in {m \in DOMAIN content : IsDirective(content[m])}}

--------------------------------------------------------------------------------
(* The results of an edit. *)

Replace(line) == [edit |-> "replace", line |-> line]
RemoveLine == [edit |-> "remove"]
Refuse == [edit |-> "refuse"]

\* Faulty variant: the line number of the evidence is taken for an index.
Applied_zero_based(content, n, e) ==
  CASE e.edit = "replace" -> ReplaceAt(content, n, e.line)
    [] e.edit = "remove"  -> RemoveAt(content, n + 1)
    [] e.edit = "refuse"  -> content

\* Lines are counted from 1.
Applied(content, n, e) ==
  CASE e.edit = "replace" -> ReplaceAt(content, n, e.line)
    [] e.edit = "remove"  -> RemoveAt(content, n)
    [] e.edit = "refuse"  -> content

--------------------------------------------------------------------------------
(* Unused exports. *)

\* A list loses the named entry, and its line when that was the only one.
fix_reexport_list(line, symbol) ==
  IF symbol \notin line.before.names THEN Refuse
  ELSE IF line.before.names = {symbol} THEN RemoveLine
  ELSE Replace([line EXCEPT !.before.names = @ \ {symbol}])

\* A declaration loses its `export`, whichever name it declares.
fix_export_line(line, symbol) ==
  CASE line.before.form = "decl" ->
         Replace([line EXCEPT !.before = [@ EXCEPT !.form = "plain", !.names = {}]])
    [] line.before.form = "list" -> fix_reexport_list(line, symbol)
    [] OTHER -> Refuse

\* An evidence line outside the file is refused.
ExportEdit(content, n, symbol) ==
  IF n \in DOMAIN content THEN fix_export_line(content[n], symbol) ELSE Refuse

--------------------------------------------------------------------------------
(* Stale suppressions. *)

HasMarker(content, n) == n \in DOMAIN content /\ content[n].mark \in {"ignore", "next", "block"}

\* Faulty variant: a suppressed line below the last one is out of range.
marker_line_in_range(content, n) ==
  IF HasMarker(content, n) THEN n
  ELSE IF n \in 2 .. Len(content) /\ content[n - 1].mark = "next" THEN n - 1
  ELSE 0

\* Where the marker of a suppressed line is looked for: on the line itself,
\* then on the one above; 0 when there is none.
marker_line(content, n) ==
  IF HasMarker(content, n) THEN n
  ELSE IF n \in 2 .. Len(content) + 1 /\ content[n - 1].mark = "next" THEN n - 1
  ELSE 0

\* Everything from the marker to the end of the line goes.
strip_marker(line) ==
  IF line.before = Nothing THEN RemoveLine
  ELSE Replace([line EXCEPT !.mark = "none", !.after = Nothing])

remove_suppression_comment(content, n) ==
  IF marker_line(content, n) = 0 THEN Refuse
  ELSE strip_marker(content[marker_line(content, n)])

--------------------------------------------------------------------------------
(* The run. *)

\* Several lines of a file may export one name: declarations merge, functions have overloads.
ASSUME FixAssumption ==
  /\ Contents \subseteq Seq(Lines)
  /\ Missing \notin Seq(Lines)
  /\ Used \subseteq Names /\ MaxEdits \in Nat

FileRules == {"unused-file", "possibly-unused-file"}
Rules == FileRules \cup {"unused-export", "stale-suppression"}

NoName == "no name"
NoFile == "no file"
Finding(rule, file, line, name) == [rule |-> rule, file |-> file, line |-> line, name |-> name]

VARIABLES
  disk,       \* file -> its lines, or Missing
  findings,   \* those of the last index run
  indexed,    \* history: what that run read
  edited,     \* history: the files edited since
  run,        \* [apply, delete_files, left]: options, and findings not yet handled
  open,       \* [file, base, lines, left, done]: the file in memory
  report,     \* set of [finding, status]
  edits       \* number of edits

vars == <<disk, findings, indexed, edited, run, open, report, edits>>

NotRunning == [apply |-> FALSE, delete_files |-> FALSE, left |-> {}, running |-> FALSE]
Closed == [file |-> NoFile, base |-> <<>>, lines |-> <<>>, left |-> {}, done |-> {}]

--------------------------------------------------------------------------------
(* What an index run finds: reach is "reachable", or the rule of an unused file. *)

UnusedAt(file, content, reach) ==
  IF reach = "reachable"
  THEN UNION {{Finding("unused-export", file, n, name) : name \in Exported(content[n]) \ Used}
              : n \in DOMAIN content}
  ELSE {Finding(reach, file, 1, NoName)}

BadLines(content) == {n \in DOMAIN content : content[n].before.bad \/ content[n].after.bad}

\* A finding on a suppressed line is dropped; a suppression that drops none is stale.
apply_suppressions(file, content, reach) ==
  LET raw == UnusedAt(file, content, reach)
      flagged == {f.line : f \in raw} \cup BadLines(content)
  IN {f \in raw : f.line \notin Suppressed(content)}
     \cup {Finding("stale-suppression", file, n, NoName) : n \in Suppressed(content) \ flagged}

Init ==
  /\ disk \in [Files -> Contents]
  /\ findings = {} /\ indexed = disk /\ edited = {}
  /\ run = NotRunning /\ open = Closed
  /\ report = {} /\ edits = 0

Index ==
  /\ ~ run.running
  /\ \E reach \in [Files -> FileRules \cup {"reachable"}] :
       findings' = UNION {apply_suppressions(f, disk[f], reach[f])
                          : f \in {g \in Files : disk[g] # Missing}}
  /\ indexed' = disk /\ edited' = {}
  /\ report' = {}
  /\ UNCHANGED <<disk, run, open, edits>>

NewLines == {c[1] : c \in {d \in Contents : Len(d) = 1 /\ ~ IsDirective(d[1]) /\ Exported(d[1]) = {}}}

\* A statement is put in or a line taken out, also between a read and a write.
Edit ==
  /\ edits < MaxEdits
  /\ \E f \in Files :
       /\ disk[f] # Missing
       /\ \/ \E n \in 1 .. Len(disk[f]) + 1, s \in NewLines :
               disk' = [disk EXCEPT ![f] = InsertAt(@, n, s)]
          \/ \E n \in DOMAIN disk[f] : disk' = [disk EXCEPT ![f] = RemoveAt(@, n)]
       /\ edited' = edited \cup {f}
  /\ edits' = edits + 1
  /\ UNCHANGED <<findings, indexed, run, open, report>>

--------------------------------------------------------------------------------
(* One fix. *)

\* The findings of one rule, with --rule, or all of them.
Begin ==
  /\ ~ run.running /\ findings # {}
  /\ \E apply, delete_files \in BOOLEAN, chosen \in {Rules} \cup {{r} : r \in Rules} :
       run' = [apply |-> apply, delete_files |-> delete_files, running |-> TRUE,
               left |-> {f \in findings : f.rule \in chosen}]
  /\ report' = {}
  /\ UNCHANGED <<disk, findings, indexed, edited, open, edits>>

done == IF run.apply THEN "fixed" ELSE "planned"
Reported(fs, status) == {[finding |-> f, status |-> status] : f \in fs}
Pending(rules) == {f \in run.left : f.rule \in rules}

\* A file goes only with --delete-files, and not if a string names it.
fix_unused_file ==
  /\ \E f \in Pending(FileRules) :
       /\ run' = [run EXCEPT !.left = @ \ {f}]
       /\ IF f.rule = "possibly-unused-file" \/ ~ run.delete_files \/ disk[f.file] = Missing
          THEN report' = report \cup Reported({f}, "skipped") /\ UNCHANGED disk
          ELSE \/ /\ disk' = IF run.apply THEN [disk EXCEPT ![f.file] = Missing] ELSE disk
                  /\ report' = report \cup Reported({f}, done)
               \/ /\ run.apply /\ UNCHANGED disk
                  /\ report' = report \cup Reported({f}, "skipped")
  /\ UNCHANGED <<findings, indexed, edited, open, edits>>

\* The findings of a rule in one file; an unreadable file skips them all.
ReadGroup(rule) ==
  /\ open = Closed
  /\ \E f \in {g.file : g \in Pending({rule})} :
       LET group == {g \in Pending({rule}) : g.file = f}
       IN /\ run' = [run EXCEPT !.left = @ \ group]
          /\ IF disk[f] = Missing
             THEN report' = report \cup Reported(group, "skipped") /\ UNCHANGED open
             ELSE /\ open' = [file |-> f, base |-> disk[f], lines |-> disk[f],
                              left |-> group, done |-> {}]
                  /\ UNCHANGED report
  /\ UNCHANGED <<disk, findings, indexed, edited, edits>>

\* Exports of all files come before suppressions of any.
fix_unused_exports ==
  Pending(FileRules) = {} /\ ReadGroup("unused-export")

fix_stale_suppressions ==
  Pending(FileRules \cup {"unused-export"}) = {} /\ ReadGroup("stale-suppression")

Line(f, content) == IF f.rule = "unused-export" THEN f.line ELSE marker_line(content, f.line)
EditOf(f, content) ==
  IF f.rule = "unused-export" THEN ExportEdit(content, f.line, f.name)
  ELSE remove_suppression_comment(content, f.line)

\* Bottom-up; the order of two findings on one line is that of the query.
next_finding(f) == f \in open.left /\ \A g \in open.left : f.line >= g.line

\* A dry run edits the copy for suppressions, and leaves it for exports.
edit_lines ==
  /\ \E f \in open.left :
       LET edit == EditOf(f, open.lines)
           status == IF edit = Refuse THEN "skipped" ELSE done
       IN /\ next_finding(f)
          /\ open' = [open EXCEPT
               !.left = @ \ {f},
               !.done = @ \cup Reported({f}, status),
               !.lines = IF run.apply \/ f.rule = "stale-suppression"
                         THEN Applied(@, Line(f, open.lines), edit) ELSE @]
  /\ UNCHANGED <<disk, findings, indexed, edited, run, report, edits>>

Changed == \E d \in open.done : d.status # "skipped"

\* Faulty variant: a failed write is not reported.
Unwritten_ignored(outcomes) == outcomes

Unwritten(outcomes) == Reported({d.finding : d \in outcomes}, "skipped")

\* A write that fails leaves the file as it was, or cut off.
write_file ==
  /\ open # Closed /\ open.left = {}
  /\ IF run.apply /\ Changed
     THEN \/ /\ disk' = [disk EXCEPT ![open.file] = open.lines]
             /\ report' = report \cup open.done
          \/ /\ \/ UNCHANGED disk
                \/ \E n \in 0 .. Len(open.lines) - 1 :
                     disk' = [disk EXCEPT ![open.file] = SubSeq(open.lines, 1, n)]
             /\ report' = report \cup Unwritten(open.done)
     ELSE UNCHANGED disk /\ report' = report \cup open.done
  /\ open' = Closed
  /\ UNCHANGED <<findings, indexed, edited, run, edits>>

End ==
  /\ run.running /\ run.left = {} /\ open = Closed
  /\ run' = NotRunning
  /\ UNCHANGED <<disk, findings, indexed, edited, open, report, edits>>

FixStep ==
  fix_unused_file \/ fix_unused_exports \/ fix_stale_suppressions
  \/ edit_lines \/ write_file \/ End

Next == Index \/ Edit \/ Begin \/ FixStep

Spec == Init /\ [][Next]_vars

--------------------------------------------------------------------------------
(* Properties. *)

Outcome(f, status) == [finding |-> f, status |-> status] \in open.done
Fresh == open # Closed /\ open.base = indexed[open.file]

OpenFindings == open.left \cup {d.finding : d \in open.done}

\* The names whose findings on a line of the file as read are reported as fixed.
FixedAt(n) == {d.finding.name : d \in {e \in open.done : e.status = "fixed" /\ e.finding.line = n}}

\* A line without some of its exports: a declaration has them all or none, and a list
\* that has none left is gone.
Without(line, names) ==
  IF names = {} THEN line
  ELSE IF line.before.form = "decl"
  THEN [line EXCEPT !.before = [@ EXCEPT !.form = "plain", !.names = {}]]
  ELSE [line EXCEPT !.before.names = @ \ names]
GoneLines ==
  {n \in DOMAIN open.base : LET line == open.base[n].before IN
     line.form = "list" /\ FixedAt(n) # {} /\ line.names \subseteq FixedAt(n)}

\* The lines in memory are the lines read, in their order, without what is reported as fixed.
Follows(of) ==
  /\ \A k, l \in DOMAIN open.lines : k < l => of[k] < of[l]
  /\ {of[k] : k \in DOMAIN open.lines} = DOMAIN open.base \ GoneLines
  /\ \A k \in DOMAIN open.lines : open.lines[k] = Without(open.base[of[k]], FixedAt(of[k]))

\* On a file that is as it was indexed, exactly the unused exports that are reported as
\* fixed are gone, each from its own line, whichever other lines export the same name:
\* lines that go do not shift the findings left.
FixedIsGone ==
  Fresh /\ (\A f \in OpenFindings : f.rule = "unused-export") =>
    \E of \in [DOMAIN open.lines -> DOMAIN open.base] : Follows(of)

\* On such a file a finding is skipped only for what stands on its own line:
\* an export fix does not handle, a declaration another finding has already
\* un-exported, a directive without the space fix looks for.
Excused(f) ==
  IF f.rule = "unused-export"
  THEN \/ open.base[f.line].before.form \notin {"decl", "list"}
       \/ f.name \notin open.base[f.line].before.names
       \/ \E g \in findings : g # f /\ g.line = f.line /\ Outcome(g, done)
  ELSE \A n \in DOMAIN open.base :
         IsDirective(open.base[n]) /\ suppression_offset(open.base, n) = f.line
           => open.base[n].mark = "tight"

FreshIsNotSkipped ==
  Fresh => \A d \in open.done : d.status = "skipped" => Excused(d.finding)

\* What a step reports as fixed it has put on the disk, and what it only plans
\* has not touched it; a failed write is never reported as a fix.
ReportsWhatIsOnDisk ==
  [][\A d \in report' \ report :
       /\ d.status = "fixed" =>
            disk'[d.finding.file] = IF d.finding.rule \in FileRules THEN Missing ELSE open.lines
       /\ d.status = "planned" => UNCHANGED disk]_vars

================================================================================
