------------------------------- MODULE Fix_proofs ------------------------------
(***************************************************************************)
(* What `ovecc fix` reports is what it has written, for any files,         *)
(* contents, findings, edits and failures; and its removals from a         *)
(* manifest never fail on a comma, for any manifest whose sections go over *)
(* several lines, and any packages.                                        *)
(***************************************************************************)
EXTENDS Fix, ManifestFix, WellFoundedInduction, SequenceTheorems, TLAPS

IsOpenRecord(o) ==
  o = [file |-> o.file, base |-> o.base, lines |-> o.lines, left |-> o.left, done |-> o.done]
IsRunRecord(r) ==
  r = [apply |-> r.apply, delete_files |-> r.delete_files, left |-> r.left, running |-> r.running]

\* The shape of the values, whatever the files hold.
Shape ==
  /\ disk = [f \in Files |-> disk[f]]
  /\ IsRunRecord(run) /\ IsOpenRecord(open)
  /\ \A f \in findings \cup run.left : f.file \in Files
  /\ ~ run.running => run.left = {}

\* A file is open only in a run, and its findings are its own.
Grouped ==
  open # Closed =>
    /\ run.running /\ open.file \in Files
    /\ \A f \in open.left : f.file = open.file /\ f.rule \notin FileRules
    /\ \A d \in open.done : d.finding.file = open.file /\ d.finding.rule \notin FileRules

\* A run that applies plans nothing, a dry run fixes nothing.
DoneByOption ==
  open # Closed => \A d \in open.done : d.status \in {"skipped", done}

Inv == Shape /\ Grouped /\ DoneByOption

--------------------------------------------------------------------------------
\* An index run records findings of files it has read.
LEMMA FindingsOfFiles ==
  ASSUME NEW file \in Files, NEW content, NEW reach,
         NEW f \in apply_suppressions(file, content, reach)
  PROVE  f.file \in Files
<1> DEFINE stale == {Finding("stale-suppression", file, n, NoName) :
                       n \in Suppressed(content)
                             \ ({g.line : g \in UnusedAt(file, content, reach)} \cup BadLines(content))}
<1>1. f \in UnusedAt(file, content, reach) \/ f \in stale
  BY DEF apply_suppressions
<1>2. CASE f \in UnusedAt(file, content, reach)
  BY <1>2 DEF UnusedAt, Finding
<1>3. CASE f \in stale
  BY <1>3 DEF Finding
<1> QED BY <1>1, <1>2, <1>3

LEMMA Initially == Init => Inv
BY DEF Init, Inv, Shape, Grouped, DoneByOption, IsRunRecord, IsOpenRecord, NotRunning, Closed

LEMMA IndexStep == Inv /\ Index => Inv'
<1> SUFFICES ASSUME Inv, Index PROVE Inv'
  OBVIOUS
<1>1. \A f \in findings' : f.file \in Files
  BY FindingsOfFiles DEF Index
<1> QED BY <1>1 DEF Inv, Index, Shape, Grouped, DoneByOption, done, IsRunRecord, IsOpenRecord

LEMMA EditStep == Inv /\ Edit => Inv'
<1> SUFFICES ASSUME Inv, Edit PROVE Inv'
  OBVIOUS
<1>1. disk' = [f \in Files |-> disk'[f]]
  BY DEF Inv, Shape, Edit
<1> QED BY <1>1 DEF Inv, Edit, Shape, Grouped, DoneByOption, done, IsRunRecord, IsOpenRecord

LEMMA BeginStep == Inv /\ Begin => Inv'
BY DEF Inv, Begin, Shape, Grouped, DoneByOption, done, IsRunRecord, IsOpenRecord

LEMMA UnusedFileStep == Inv /\ fix_unused_file => Inv'
<1> SUFFICES ASSUME Inv, NEW f \in Pending(FileRules), fix_unused_file,
                    run' = [run EXCEPT !.left = @ \ {f}],
                    \/ UNCHANGED disk
                    \/ disk' = IF run.apply THEN [disk EXCEPT ![f.file] = Missing] ELSE disk
             PROVE  Inv'
  BY DEF fix_unused_file
<1>1. disk' = [g \in Files |-> disk'[g]]
  BY DEF Inv, Shape
<1>2. /\ run'.left \subseteq run.left /\ run'.apply = run.apply /\ run'.running = run.running
      /\ IsRunRecord(run')
  BY DEF Inv, Shape, IsRunRecord
<1> QED BY <1>1, <1>2 DEF Inv, fix_unused_file, Shape, Grouped, DoneByOption, done, IsOpenRecord

LEMMA ReadStep ==
  ASSUME Inv, NEW rule \in Rules \ FileRules, ReadGroup(rule)
  PROVE  Inv'
<1>1. PICK f \in {g.file : g \in Pending({rule})} :
        LET group == {g \in Pending({rule}) : g.file = f}
        IN /\ run' = [run EXCEPT !.left = @ \ group]
           /\ \/ UNCHANGED open
              \/ open' = [file |-> f, base |-> disk[f], lines |-> disk[f],
                          left |-> group, done |-> {}]
  BY DEF ReadGroup
<1>2. f \in Files /\ run.running
  BY DEF Pending, Inv, Shape
<1>3. /\ run'.left \subseteq run.left /\ run'.apply = run.apply /\ run'.running = run.running
      /\ IsRunRecord(run')
  BY <1>1 DEF Inv, Shape, IsRunRecord
<1>4. Shape'
  BY <1>1, <1>3 DEF Inv, ReadGroup, Shape, IsOpenRecord
<1>5. CASE UNCHANGED open
  BY <1>3, <1>4, <1>5 DEF Inv, Grouped, DoneByOption, done
<1>6. CASE ~ UNCHANGED open
  <2>1. /\ open'.file = f /\ open'.done = {}
        /\ \A g \in open'.left : g.file = f /\ g.rule = rule
    BY <1>1, <1>6 DEF Pending
  <2> QED BY <1>2, <1>3, <1>4, <2>1 DEF Inv, Grouped, DoneByOption
<1> QED BY <1>5, <1>6

LEMMA EditLinesStep == Inv /\ edit_lines => Inv'
<1> SUFFICES ASSUME Inv, NEW f \in open.left, NEW lines, NEW status \in {"skipped", done},
                    open' = [open EXCEPT !.left = @ \ {f},
                                         !.done = @ \cup Reported({f}, status),
                                         !.lines = lines],
                    UNCHANGED <<disk, findings, indexed, edited, run, report, edits>>
             PROVE  Inv'
  BY DEF edit_lines
<1>1. open # Closed
  BY DEF Closed
<1>2. /\ open'.file = open.file /\ open'.left = open.left \ {f}
      /\ open'.done = open.done \cup {[finding |-> f, status |-> status]}
      /\ IsOpenRecord(open')
  BY DEF Inv, Shape, IsOpenRecord, Reported
<1>3. Shape'
  BY <1>2 DEF Inv, Shape, IsRunRecord
<1>4. Grouped'
  <2>1. /\ run.running /\ open.file \in Files
        /\ \A g \in open.left : g.file = open.file /\ g.rule \notin FileRules
        /\ \A d \in open.done : d.finding.file = open.file /\ d.finding.rule \notin FileRules
    BY <1>1 DEF Inv, Grouped
  <2>2. \A d \in open'.done : d \in open.done \/ d.finding = f
    BY <1>2
  <2>3. \A d \in open'.done : d.finding.file = open.file /\ d.finding.rule \notin FileRules
    BY <2>1, <2>2
  <2> QED BY <1>2, <2>1, <2>3 DEF Grouped
<1>5. DoneByOption'
  BY <1>1, <1>2 DEF Inv, DoneByOption, done
<1> QED BY <1>3, <1>4, <1>5 DEF Inv

LEMMA WriteStep == Inv /\ write_file => Inv'
<1> SUFFICES ASSUME Inv, write_file PROVE Inv'
  OBVIOUS
<1>1. disk' = [f \in Files |-> disk'[f]]
  BY DEF Inv, Shape, write_file
<1> QED BY <1>1 DEF Inv, write_file, Shape, Grouped, DoneByOption, IsRunRecord, IsOpenRecord, Closed

LEMMA EndStep == Inv /\ End => Inv'
BY DEF Inv, End, Shape, Grouped, DoneByOption, IsRunRecord, IsOpenRecord, NotRunning

LEMMA Invariance == Inv /\ [Next]_vars => Inv'
<1> SUFFICES ASSUME Inv, [Next]_vars PROVE Inv'
  OBVIOUS
<1>1. CASE fix_unused_exports
  BY <1>1, ReadStep DEF fix_unused_exports, Rules, FileRules
<1>2. CASE fix_stale_suppressions
  BY <1>2, ReadStep DEF fix_stale_suppressions, Rules, FileRules
<1>3. CASE UNCHANGED vars
  BY <1>3 DEF vars, Inv, Shape, Grouped, DoneByOption, done, IsRunRecord, IsOpenRecord
<1> QED BY <1>1, <1>2, <1>3, IndexStep, EditStep, BeginStep, UnusedFileStep, EditLinesStep,
          WriteStep, EndStep DEF Next, FixStep

--------------------------------------------------------------------------------
(* What a step adds to the report. *)

LEMMA FileReport == Inv /\ fix_unused_file =>
  \A d \in report' \ report :
    /\ d.status = "fixed" => d.finding.rule \in FileRules /\ disk'[d.finding.file] = Missing
    /\ d.status = "planned" => UNCHANGED disk
<1> SUFFICES ASSUME Inv, fix_unused_file, NEW d \in report' \ report
             PROVE  /\ d.status = "fixed" => /\ d.finding.rule \in FileRules
                                            /\ disk'[d.finding.file] = Missing
                    /\ d.status = "planned" => UNCHANGED disk
  OBVIOUS
<1>1. PICK f \in Pending(FileRules) :
        \/ report' = report \cup Reported({f}, "skipped")
        \/ /\ disk' = IF run.apply THEN [disk EXCEPT ![f.file] = Missing] ELSE disk
           /\ report' = report \cup Reported({f}, done)
  BY DEF fix_unused_file
<1>2. f.file \in Files /\ f.rule \in FileRules
  BY DEF Pending, Inv, Shape
<1>3. CASE report' = report \cup Reported({f}, "skipped")
  BY <1>3 DEF Reported
<1>4. CASE /\ disk' = IF run.apply THEN [disk EXCEPT ![f.file] = Missing] ELSE disk
           /\ report' = report \cup Reported({f}, done)
  <2>1. d.finding = f /\ d.status = done
    BY <1>4 DEF Reported
  <2> QED BY <1>2, <1>4, <2>1 DEF done, Inv, Shape
<1> QED BY <1>1, <1>3, <1>4

LEMMA WriteReport == Inv /\ write_file =>
  \A d \in report' \ report :
    /\ d.status = "fixed" =>
         d.finding.rule \notin FileRules /\ disk'[d.finding.file] = open.lines
    /\ d.status = "planned" => UNCHANGED disk
<1> SUFFICES ASSUME Inv, write_file, NEW d \in report' \ report
             PROVE  /\ d.status = "fixed" => /\ d.finding.rule \notin FileRules
                                            /\ disk'[d.finding.file] = open.lines
                    /\ d.status = "planned" => UNCHANGED disk
  OBVIOUS
<1>1. CASE d \notin open.done
  BY <1>1 DEF write_file, Unwritten, Reported
<1>2. CASE d \in open.done
  <2>1. /\ d.finding.file = open.file /\ open.file \in Files
        /\ d.finding.rule \notin FileRules /\ d.status \in {"skipped", done}
    BY <1>2 DEF Inv, Grouped, DoneByOption, write_file
  <2>2. CASE run.apply /\ Changed
    <3>1. CASE disk' = [disk EXCEPT ![open.file] = open.lines]
      BY <2>1, <2>2, <3>1 DEF Inv, Shape, done
    <3>2. CASE report' = report \cup Unwritten(open.done)
      BY <3>2 DEF Unwritten, Reported
    <3> QED BY <2>2, <3>1, <3>2 DEF write_file
  <2>3. CASE ~ (run.apply /\ Changed)
    BY <1>2, <2>1, <2>3 DEF write_file, Changed, done
  <2> QED BY <2>2, <2>3
<1> QED BY <1>1, <1>2

\* No failed write and no other step reports a fix that is not on the disk.
THEOREM HonestReports == Spec => ReportsWhatIsOnDisk
<1>1. Inv /\ [Next]_vars =>
        [\A d \in report' \ report :
           /\ d.status = "fixed" =>
                disk'[d.finding.file] = IF d.finding.rule \in FileRules THEN Missing ELSE open.lines
           /\ d.status = "planned" => UNCHANGED disk]_vars
  <2> SUFFICES ASSUME Inv, Next, NEW d \in report' \ report
               PROVE  /\ d.status = "fixed" =>
                           disk'[d.finding.file] =
                             IF d.finding.rule \in FileRules THEN Missing ELSE open.lines
                      /\ d.status = "planned" => UNCHANGED disk
    OBVIOUS
  <2>1. CASE fix_unused_file
    BY <2>1, FileReport
  <2>2. CASE write_file
    BY <2>2, WriteReport
  <2>3. CASE fix_unused_exports \/ fix_stale_suppressions
    BY <2>3 DEF fix_unused_exports, fix_stale_suppressions, ReadGroup, Reported
  <2>4. CASE Index \/ Edit \/ Begin \/ edit_lines \/ End
    BY <2>4 DEF Index, Edit, Begin, edit_lines, End
  <2> QED BY <2>1, <2>2, <2>3, <2>4 DEF Next, FixStep
<1> QED BY <1>1, Initially, Invariance, PTL DEF Spec, ReportsWhatIsOnDisk

--------------------------------------------------------------------------------
(* What an edit does to the lines of a file. *)

Content(content) == content \in Seq(Lines)

LEMMA ReplacedLines ==
  ASSUME NEW s \in Seq(Lines), NEW n \in DOMAIN s, NEW line \in Lines
  PROVE  /\ ReplaceAt(s, n, line) \in Seq(Lines)
         /\ DOMAIN ReplaceAt(s, n, line) = DOMAIN s
         /\ ReplaceAt(s, n, line)[n] = line
         /\ \A k \in DOMAIN s : k # n => ReplaceAt(s, n, line)[k] = s[k]
BY DEF ReplaceAt

LEMMA RemovedLines ==
  ASSUME NEW s \in Seq(Lines), NEW n \in DOMAIN s
  PROVE  /\ RemoveAt(s, n) \in Seq(Lines)
         /\ DOMAIN RemoveAt(s, n) = 1 .. Len(s) - 1
         /\ \A k \in 1 .. Len(s) - 1 : RemoveAt(s, n)[k] = IF k < n THEN s[k] ELSE s[k + 1]
<1> DEFINE head == SubSeq(s, 1, n - 1)
           tail == SubSeq(s, n + 1, Len(s))
<1>1. n \in 1 .. Len(s) /\ Len(s) \in Nat
  OBVIOUS
<1>2. head \in Seq(Lines) /\ Len(head) = n - 1 /\ \A k \in 1 .. n - 1 : head[k] = s[k]
  BY <1>1
<1>3. /\ tail \in Seq(Lines) /\ Len(tail) = Len(s) - n
      /\ \A k \in 1 .. Len(s) - n : tail[k] = s[k + n]
  BY <1>1
<1>4. /\ head \o tail \in Seq(Lines) /\ Len(head \o tail) = Len(s) - 1
      /\ \A k \in 1 .. Len(s) - 1 : (head \o tail)[k] = IF k < n THEN s[k] ELSE s[k + 1]
  <2> HIDE DEF head, tail
  <2>1. head \o tail \in Seq(Lines) /\ Len(head \o tail) = Len(s) - 1
    BY <1>1, <1>2, <1>3
  <2>2. ASSUME NEW k \in 1 .. Len(s) - 1
        PROVE  (head \o tail)[k] = IF k < n THEN s[k] ELSE s[k + 1]
    <3>1. CASE k < n
      BY <1>1, <1>2, <1>3, <3>1
    <3>2. CASE ~ (k < n)
      <4>1. (head \o tail)[k] = tail[k - (n - 1)]
        BY <1>1, <1>2, <1>3, <3>2, SMTT(30)
      <4>2. k - (n - 1) \in 1 .. Len(s) - n /\ (k - (n - 1)) + n = k + 1
        BY <1>1, <3>2
      <4>3. tail[k - (n - 1)] = s[(k - (n - 1)) + n]
        BY <1>3, <4>2
      <4> QED BY <3>2, <4>1, <4>2, <4>3
    <3> QED BY <3>1, <3>2
  <2> QED BY <2>1, <2>2
<1>5. RemoveAt(s, n) = head \o tail
  BY DEF RemoveAt
<1> HIDE DEF head, tail
<1>6. DOMAIN RemoveAt(s, n) = 1 .. Len(s) - 1
  BY <1>1, <1>4, <1>5
<1> QED BY <1>4, <1>5, <1>6

LEMMA InsertedLines ==
  ASSUME NEW s \in Seq(Lines), NEW n \in 1 .. Len(s) + 1, NEW line \in Lines
  PROVE  /\ InsertAt(s, n, line) \in Seq(Lines)
         /\ DOMAIN InsertAt(s, n, line) = 1 .. Len(s) + 1
         /\ \A k \in 1 .. Len(s) + 1 :
              InsertAt(s, n, line)[k] = IF k < n THEN s[k] ELSE IF k = n THEN line ELSE s[k - 1]
<1> DEFINE head == SubSeq(s, 1, n - 1)
           tail == SubSeq(s, n, Len(s))
           front == head \o <<line>>
<1>1. n \in 1 .. Len(s) + 1 /\ Len(s) \in Nat
  OBVIOUS
<1>2. head \in Seq(Lines) /\ Len(head) = n - 1 /\ \A k \in 1 .. n - 1 : head[k] = s[k]
  BY <1>1
<1>3. /\ tail \in Seq(Lines) /\ Len(tail) = Len(s) - n + 1
      /\ \A k \in 1 .. Len(s) - n + 1 : tail[k] = s[k + n - 1]
  BY <1>1
<1>4. /\ front \in Seq(Lines) /\ Len(front) = n
      /\ \A k \in 1 .. n : front[k] = IF k < n THEN s[k] ELSE line
  <2> HIDE DEF head
  <2> QED BY <1>1, <1>2
<1>5. /\ front \o tail \in Seq(Lines) /\ Len(front \o tail) = Len(s) + 1
      /\ \A k \in 1 .. Len(s) + 1 :
           (front \o tail)[k] = IF k < n THEN s[k] ELSE IF k = n THEN line ELSE s[k - 1]
  <2> HIDE DEF front, tail
  <2>1. front \o tail \in Seq(Lines) /\ Len(front \o tail) = Len(s) + 1
    BY <1>1, <1>3, <1>4
  <2>2. ASSUME NEW k \in 1 .. Len(s) + 1
        PROVE  (front \o tail)[k] = IF k < n THEN s[k] ELSE IF k = n THEN line ELSE s[k - 1]
    <3>1. CASE k <= n
      BY <1>1, <1>3, <1>4, <3>1
    <3>2. CASE ~ (k <= n)
      <4>1. (front \o tail)[k] = tail[k - n]
        BY <1>1, <1>3, <1>4, <3>2, SMTT(30)
      <4>2. k - n \in 1 .. Len(s) - n + 1 /\ (k - n) + n - 1 = k - 1 /\ k # n
        BY <1>1, <3>2
      <4>3. tail[k - n] = s[(k - n) + n - 1]
        BY <1>3, <4>2
      <4> QED BY <1>1, <3>2, <4>1, <4>2, <4>3
    <3> QED BY <3>1, <3>2
  <2> QED BY <2>1, <2>2
<1>6. InsertAt(s, n, line) = front \o tail
  BY DEF InsertAt
<1> HIDE DEF head, tail, front
<1>7. DOMAIN InsertAt(s, n, line) = 1 .. Len(s) + 1
  BY <1>1, <1>5, <1>6
<1> QED BY <1>5, <1>6, <1>7

LEMMA KeptLines ==
  ASSUME NEW s \in Seq(Lines), NEW n \in 0 .. Len(s)
  PROVE  /\ SubSeq(s, 1, n) \in Seq(Lines)
         /\ DOMAIN SubSeq(s, 1, n) = 1 .. n
         /\ \A k \in 1 .. n : SubSeq(s, 1, n)[k] = s[k]
OBVIOUS

\* The names of a line that an edit leaves are names it had, and its comment
\* stays or goes.
Shrunk(new, old) ==
  /\ new.before.names \subseteq old.before.names /\ new.after.names \subseteq old.after.names
  /\ new \in Lines

LEMMA PartTypes ==
  ASSUME NEW part \in Statements \cup {Nothing}
  PROVE  /\ part = [form |-> part.form, names |-> part.names, bad |-> part.bad]
         /\ part.names \subseteq Names
         /\ part.bad \in BOOLEAN
<1>1. CASE part \in [form : {"plain"}, names : {{}}, bad : BOOLEAN]
  BY <1>1
<1>2. CASE part \in [form : {"decl", "list", "manual"}, names : SUBSET Names, bad : BOOLEAN]
  BY <1>2
<1>3. CASE part = Nothing
  BY <1>3 DEF Nothing
<1> QED BY <1>1, <1>2, <1>3 DEF Statements

LEMMA LineTypes ==
  ASSUME NEW line \in Lines
  PROVE  /\ line = [before |-> line.before, mark |-> line.mark, after |-> line.after]
         /\ line.mark \in Marks
         /\ line.mark # "block" => line.after = Nothing
         /\ \A part \in {line.before, line.after} :
              /\ part \in Statements \cup {Nothing}
              /\ part = [form |-> part.form, names |-> part.names, bad |-> part.bad]
              /\ part.names \subseteq Names /\ part.bad \in BOOLEAN
<1>1. /\ line \in [before : Statements \cup {Nothing}, mark : Marks, after : Statements \cup {Nothing}]
      /\ line.mark # "block" => line.after = Nothing
  BY DEF Lines
<1> QED BY <1>1, PartTypes

LEMMA StatementTypes ==
  ASSUME NEW form \in {"decl", "list", "plain"}, NEW names \in SUBSET Names, NEW bad \in BOOLEAN,
         form = "plain" => names = {}
  PROVE  [form |-> form, names |-> names, bad |-> bad] \in Statements
BY DEF Statements

LEMMA FixedLine ==
  ASSUME NEW line \in Lines, NEW symbol, fix_export_line(line, symbol).edit = "replace"
  PROVE  /\ Shrunk(fix_export_line(line, symbol).line, line)
         /\ symbol \notin fix_export_line(line, symbol).line.before.names
<1> DEFINE new == fix_export_line(line, symbol).line
<1> HIDE DEF new
<1>0. /\ line = [before |-> line.before, mark |-> line.mark, after |-> line.after]
      /\ line.before = [form |-> line.before.form, names |-> line.before.names, bad |-> line.before.bad]
  BY LineTypes
<1>1. CASE line.before.form = "decl"
  <2>1. new = [line EXCEPT !.before = [line.before EXCEPT !.form = "plain", !.names = {}]]
    BY <1>1 DEF fix_export_line, Replace, new
  <2>2. /\ new.before = [form |-> "plain", names |-> {}, bad |-> line.before.bad]
        /\ new.after = line.after /\ new.mark = line.mark
        /\ new = [before |-> new.before, mark |-> new.mark, after |-> new.after]
    BY <1>0, <2>1
  <2>3. new.before \in Statements
    <3>1. line.before.bad \in BOOLEAN
      BY LineTypes
    <3> QED BY <2>2, <3>1, StatementTypes
  <2> QED BY <2>2, <2>3, LineTypes DEF Shrunk, Lines, new
<1>2. CASE line.before.form = "list"
  <2>1. /\ line.before.names # {symbol} /\ symbol \in line.before.names
        /\ new = [line EXCEPT !.before.names = line.before.names \ {symbol}]
    BY <1>2 DEF fix_export_line, fix_reexport_list, Replace, RemoveLine, Refuse, new
  <2>2. /\ new.before = [form |-> "list", names |-> line.before.names \ {symbol},
                         bad |-> line.before.bad]
        /\ new.after = line.after /\ new.mark = line.mark
        /\ new = [before |-> new.before, mark |-> new.mark, after |-> new.after]
    BY <1>0, <1>2, <2>1
  <2>3. new.before \in Statements
    <3>1. line.before.bad \in BOOLEAN /\ line.before.names \ {symbol} \in SUBSET Names
      BY LineTypes
    <3> QED BY <2>2, <3>1, StatementTypes
  <2> QED BY <2>2, <2>3, LineTypes DEF Shrunk, Lines, new
<1> QED BY <1>1, <1>2 DEF fix_export_line, Refuse

LEMMA StrippedLine ==
  ASSUME NEW line \in Lines, strip_marker(line).edit = "replace"
  PROVE  Shrunk(strip_marker(line).line, line)
<1> DEFINE new == strip_marker(line).line
<1>1. new = [line EXCEPT !.mark = "none", !.after = Nothing]
  BY DEF strip_marker, Replace, RemoveLine
<1>2. /\ new.before = line.before /\ new.mark = "none" /\ new.after = Nothing
      /\ new = [before |-> new.before, mark |-> new.mark, after |-> new.after]
  BY <1>1, LineTypes
<1> QED BY <1>2, LineTypes DEF Shrunk, Lines, Marks, Nothing

LEMMA KindsOfEdits ==
  /\ \A line, symbol : fix_export_line(line, symbol).edit \in {"replace", "remove", "refuse"}
  /\ \A line : strip_marker(line).edit \in {"replace", "remove"}
BY DEF fix_export_line, fix_reexport_list, strip_marker, Replace, RemoveLine, Refuse

--------------------------------------------------------------------------------
(* An edit of a content is a content. *)

LEMMA ReplacedContent ==
  ASSUME NEW s, Content(s), NEW n \in DOMAIN s, NEW line, Shrunk(line, s[n])
  PROVE  Content(ReplaceAt(s, n, line))
BY ReplacedLines DEF Content, Shrunk

LEMMA RemovedContent ==
  ASSUME NEW s, Content(s), NEW n \in DOMAIN s
  PROVE  Content(RemoveAt(s, n))
BY RemovedLines DEF Content

LEMMA KeptContent ==
  ASSUME NEW s, Content(s), NEW n \in 0 .. Len(s)
  PROVE  Content(SubSeq(s, 1, n))
BY KeptLines DEF Content

LEMMA InsertedContent ==
  ASSUME NEW s, Content(s), NEW n \in 1 .. Len(s) + 1, NEW line \in Lines
  PROVE  Content(InsertAt(s, n, line))
BY InsertedLines DEF Content

LEMMA AppliedContent ==
  ASSUME NEW s, Content(s), NEW f
  PROVE  Content(Applied(s, Line(f, s), EditOf(f, s)))
<1> DEFINE n == Line(f, s)
           e == EditOf(f, s)
<1>1. CASE e.edit = "refuse"
  BY <1>1 DEF Applied
<1>2. CASE e.edit # "refuse"
  <2>1. n \in DOMAIN s
    BY <1>2 DEF Line, EditOf, ExportEdit, remove_suppression_comment, marker_line, HasMarker,
                Refuse, Content
  <2>2. s[n] \in Lines
    BY <2>1 DEF Content
  <2>3. \/ e.edit = "remove"
        \/ e.edit = "replace" /\ Shrunk(e.line, s[n])
    BY <1>2, <2>1, <2>2, FixedLine, StrippedLine, KindsOfEdits
       DEF Line, EditOf, ExportEdit, remove_suppression_comment, Refuse
  <2>4. CASE e.edit = "remove"
    BY <2>1, <2>4, RemovedContent DEF Applied
  <2>5. CASE e.edit = "replace" /\ Shrunk(e.line, s[n])
    BY <2>1, <2>5, ReplacedContent DEF Applied
  <2> QED BY <2>3, <2>4, <2>5
<1> QED BY <1>1, <1>2

--------------------------------------------------------------------------------
(* What an index run finds stands on its line until a fix has come to it. *)

\* What the disk holds, what the last index run read, and what is in memory.
Contentful ==
  /\ \A f \in Files :
       /\ disk[f] # Missing => Content(disk[f])
       /\ indexed[f] # Missing => Content(indexed[f])
  /\ open # Closed => Content(open.base) /\ Content(open.lines)

Found(g) ==
  /\ g.file \in Files /\ indexed[g.file] # Missing
  /\ g.rule = "unused-export" =>
       /\ g = Finding("unused-export", g.file, g.line, g.name)
       /\ g.line \in DOMAIN indexed[g.file]
       /\ g.name \in Exported(indexed[g.file][g.line])
       /\ g.line \notin Suppressed(indexed[g.file])
  /\ g.rule = "stale-suppression" =>
       /\ g.line \in Suppressed(indexed[g.file])
       /\ g = Finding("stale-suppression", g.file, g.line, NoName)

\* The findings in hand are those of one rule.
AsFound ==
  /\ \A g \in findings : Found(g)
  /\ run.left \subseteq findings
  /\ open # Closed =>
       \E rule \in {"unused-export", "stale-suppression"} :
         open.left \cup {d.finding : d \in open.done} \subseteq {g \in findings : g.rule = rule}

\* A finding is handled once; until then its line and those above it are where they were.
InPlace(of) ==
  \A g \in open.left : \A k \in 1 .. g.line : k \in DOMAIN open.lines /\ of[k] = k

Tracked ==
  Fresh /\ (\A f \in OpenFindings : f.rule = "unused-export") =>
    /\ \A d \in open.done : d.finding \notin open.left
    /\ \E of \in [DOMAIN open.lines -> DOMAIN open.base] : Follows(of) /\ InPlace(of)

AsRead(k) == k \in DOMAIN open.lines /\ open.lines[k] = open.base[k]

\* An edit below a finding leaves the lines above it; on the line itself only
\* another finding of the same line has been at work.
LeftAsRead ==
  Fresh => \A g \in open.left :
    /\ \A k \in 1 .. g.line - 1 : AsRead(k)
    /\ IF g.rule = "unused-export"
       THEN AsRead(g.line) \/ \E h \in findings : h # g /\ h.line = g.line /\ Outcome(h, done)
       ELSE g.line \in DOMAIN open.base /\ open.base[g.line].mark # "next" => AsRead(g.line)

FixInv ==
  Inv /\ Contentful /\ AsFound /\ Tracked /\ LeftAsRead /\ FreshIsNotSkipped

AboutOpen == Tracked /\ LeftAsRead /\ FreshIsNotSkipped

\* Steps that have no file in memory afterwards, or leave it alone.
LEMMA ClosedStep == open' = Closed => AboutOpen'
BY DEF AboutOpen, Tracked, LeftAsRead, FreshIsNotSkipped, Fresh

LEMMA QuietStep ==
  ASSUME AboutOpen, UNCHANGED <<findings, indexed, open>>, run'.apply = run.apply
  PROVE  AboutOpen'
<1>1. UNCHANGED <<Fresh, done>>
  BY DEF Fresh, done
<1>2. Tracked'
  BY <1>1 DEF AboutOpen, Tracked, OpenFindings, Follows, InPlace, FixedAt, GoneLines
<1>3. LeftAsRead'
  BY <1>1 DEF AboutOpen, LeftAsRead, AsRead, Outcome
<1>4. FreshIsNotSkipped'
  BY <1>1 DEF AboutOpen, FreshIsNotSkipped, Excused, Outcome
<1> QED BY <1>2, <1>3, <1>4 DEF AboutOpen

LEMMA InitiallyFix == Init => FixInv
<1> SUFFICES ASSUME Init PROVE FixInv
  OBVIOUS
<1>1. Contentful
  BY FixAssumption DEF Init, Contentful, Content
<1>2. AsFound
  BY DEF Init, AsFound, NotRunning
<1>3. Tracked /\ LeftAsRead /\ FreshIsNotSkipped
  BY DEF Init, Tracked, LeftAsRead, FreshIsNotSkipped, Fresh
<1> QED BY <1>1, <1>2, <1>3, Initially DEF FixInv

LEMMA IndexFinds ==
  ASSUME Contentful, Index PROVE \A g \in findings' : Found(g)'
<1>1. PICK reach \in [Files -> FileRules \cup {"reachable"}] :
        findings' = UNION {apply_suppressions(f, disk[f], reach[f])
                           : f \in {g \in Files : disk[g] # Missing}}
  BY DEF Index
<1>2. SUFFICES ASSUME NEW file \in Files, disk[file] # Missing,
                      NEW g \in apply_suppressions(file, disk[file], reach[file])
               PROVE  Found(g)'
  BY <1>1
<1> DEFINE content == disk[file]
           raw == UnusedAt(file, content, reach[file])
           stale == {Finding("stale-suppression", file, n, NoName) :
                       n \in Suppressed(content) \ ({f.line : f \in raw} \cup BadLines(content))}
<1>3. indexed'[file] = content
  BY DEF Index
<1>4. g \in {f \in raw : f.line \notin Suppressed(content)} \/ g \in stale
  BY <1>2 DEF apply_suppressions
<1>5. CASE g \in stale
  <2>1. PICK n \in Suppressed(content) : g = Finding("stale-suppression", file, n, NoName)
    BY <1>5
  <2> QED BY <1>2, <1>3, <2>1 DEF Found, Finding
<1>6. CASE g \in raw /\ g.line \notin Suppressed(content)
  <2>1. CASE reach[file] = "reachable"
    <3>1. PICK n \in DOMAIN content : \E name \in Exported(content[n]) :
            g = Finding("unused-export", file, n, name)
      BY <1>6, <2>1 DEF UnusedAt
    <3> QED BY <1>2, <1>3, <1>6, <3>1 DEF Found, Finding
  <2>2. CASE reach[file] # "reachable"
    <3>1. g = Finding(reach[file], file, 1, NoName) /\ reach[file] \in FileRules
      BY <1>6, <2>2 DEF UnusedAt
    <3> QED BY <1>2, <1>3, <3>1 DEF Found, Finding, FileRules
  <2> QED BY <2>1, <2>2
<1> QED BY <1>4, <1>5, <1>6

LEMMA IndexStepFix == FixInv /\ Index => FixInv'
<1> SUFFICES ASSUME FixInv, Index PROVE FixInv'
  OBVIOUS
<1>1. open = Closed /\ open' = Closed /\ run.left = {} /\ run' = run
  BY DEF FixInv, Inv, Shape, Grouped, Index
<1>2. Contentful'
  BY <1>1 DEF FixInv, Contentful, Index
<1>3. AsFound'
  BY <1>1, IndexFinds DEF FixInv, AsFound
<1> QED BY <1>1, <1>2, <1>3, ClosedStep, IndexStep DEF FixInv, AboutOpen

LEMMA EditStepFix == FixInv /\ Edit => FixInv'
<1> SUFFICES ASSUME FixInv, Edit PROVE FixInv'
  OBVIOUS
<1>1. PICK f \in Files : /\ disk[f] # Missing
                         /\ \/ \E n \in 1 .. Len(disk[f]) + 1, s \in NewLines :
                                 disk' = [disk EXCEPT ![f] = InsertAt(disk[f], n, s)]
                            \/ \E n \in DOMAIN disk[f] : disk' = [disk EXCEPT ![f] = RemoveAt(disk[f], n)]
  BY DEF Edit
<1>2. Content(disk[f]) /\ disk = [g \in Files |-> disk[g]]
  BY <1>1 DEF FixInv, Contentful, Inv, Shape
<1>3. \A s \in NewLines : s \in Lines
  BY FixAssumption DEF NewLines
<1>4. Content(disk'[f])
  <2>1. CASE \E n \in 1 .. Len(disk[f]) + 1, s \in NewLines :
               disk' = [disk EXCEPT ![f] = InsertAt(disk[f], n, s)]
    BY <1>2, <1>3, <2>1, InsertedContent
  <2>2. CASE \E n \in DOMAIN disk[f] : disk' = [disk EXCEPT ![f] = RemoveAt(disk[f], n)]
    BY <1>2, <2>2, RemovedContent
  <2> QED BY <1>1, <2>1, <2>2
<1>5. \A g \in Files \ {f} : disk'[g] = disk[g]
  BY <1>1, <1>2
<1>6. Contentful'
  BY <1>4, <1>5 DEF FixInv, Contentful, Edit
<1>7. AsFound'
  BY DEF FixInv, AsFound, Found, Edit
<1> QED BY <1>6, <1>7, QuietStep, EditStep DEF FixInv, AboutOpen, Edit

LEMMA BeginStepFix == FixInv /\ Begin => FixInv'
<1> SUFFICES ASSUME FixInv, Begin PROVE FixInv'
  OBVIOUS
<1>1. open = Closed /\ open' = Closed /\ run'.left \subseteq findings
  BY DEF FixInv, Inv, Grouped, Begin
<1>2. Contentful' /\ AsFound'
  BY <1>1 DEF FixInv, Contentful, AsFound, Found, Begin
<1> QED BY <1>1, <1>2, ClosedStep, BeginStep DEF FixInv, AboutOpen

LEMMA UnusedFileStepFix == FixInv /\ fix_unused_file => FixInv'
<1> SUFFICES ASSUME FixInv, fix_unused_file PROVE FixInv'
  OBVIOUS
<1>1. PICK f \in Pending(FileRules) :
        /\ run' = [run EXCEPT !.left = @ \ {f}]
        /\ \/ UNCHANGED disk
           \/ disk' = [disk EXCEPT ![f.file] = Missing]
  BY DEF fix_unused_file
<1>2. run'.left \subseteq run.left /\ run'.apply = run.apply
  BY <1>1 DEF FixInv, Inv, Shape, IsRunRecord
<1>3. \A g \in Files : disk'[g] \in {disk[g], Missing}
  BY <1>1 DEF FixInv, Inv, Shape
<1>4. Contentful'
  BY <1>3 DEF FixInv, Contentful, fix_unused_file
<1>5. AsFound'
  BY <1>2 DEF FixInv, AsFound, Found, fix_unused_file
<1> QED BY <1>2, <1>4, <1>5, QuietStep, UnusedFileStep DEF FixInv, AboutOpen, fix_unused_file

LEMMA WriteStepFix == FixInv /\ write_file => FixInv'
<1> SUFFICES ASSUME FixInv, write_file PROVE FixInv'
  OBVIOUS
<1>1. open # Closed /\ Content(open.lines) /\ open.file \in Files
  BY DEF FixInv, Contentful, Inv, Grouped, write_file
<1>2. open' = Closed /\ UNCHANGED <<findings, indexed, run>>
  BY DEF write_file
<1>3. \/ UNCHANGED disk
      \/ disk' = [disk EXCEPT ![open.file] = open.lines]
      \/ \E n \in 0 .. Len(open.lines) - 1 :
           disk' = [disk EXCEPT ![open.file] = SubSeq(open.lines, 1, n)]
  BY DEF write_file
<1>4. \A n \in 0 .. Len(open.lines) - 1 : Content(SubSeq(open.lines, 1, n))
  <2>1. \A n \in 0 .. Len(open.lines) - 1 : n \in 0 .. Len(open.lines)
    BY <1>1 DEF Content
  <2> QED BY <1>1, <2>1, KeptContent
<1>5. \A g \in Files : disk'[g] = disk[g] \/ Content(disk'[g])
  BY <1>1, <1>3, <1>4 DEF FixInv, Inv, Shape
<1>6. Contentful'
  BY <1>2, <1>5 DEF FixInv, Contentful
<1>7. AsFound'
  BY <1>2 DEF FixInv, AsFound, Found
<1> QED BY <1>2, <1>6, <1>7, ClosedStep, WriteStep DEF FixInv, AboutOpen

LEMMA EndStepFix == FixInv /\ End => FixInv'
<1> SUFFICES ASSUME FixInv, End PROVE FixInv'
  OBVIOUS
<1>1. open' = Closed /\ run'.left = {}
  BY DEF End, NotRunning
<1>2. Contentful' /\ AsFound'
  BY <1>1 DEF FixInv, Contentful, AsFound, Found, End
<1> QED BY <1>1, <1>2, ClosedStep, EndStep DEF FixInv, AboutOpen

--------------------------------------------------------------------------------
(* A file is read. *)

\* Every line an index run found a finding on, and those above it, are there.
LEMMA LinesOfFindings ==
  ASSUME NEW content, Content(content), NEW g, g.file \in Files, indexed[g.file] = content, Found(g),
         g.rule \in {"unused-export", "stale-suppression"}
  PROVE  /\ g.line \in Nat
         /\ \A k \in 1 .. g.line - 1 : k \in DOMAIN content
         /\ g.rule = "unused-export" => g.line \in DOMAIN content
<1>1. DOMAIN content = 1 .. Len(content) /\ Len(content) \in Nat
  BY DEF Content
<1>2. CASE g.rule = "unused-export"
  BY <1>1, <1>2 DEF Found
<1>3. CASE g.rule = "stale-suppression"
  <2>1. PICK m \in DOMAIN content : g.line = suppression_offset(content, m)
    BY <1>3 DEF Found, Suppressed
  <2>2. g.line \in {m, m + 1}
    BY <2>1 DEF suppression_offset
  <2> QED BY <1>1, <1>3, <2>2
<1> QED BY <1>2, <1>3

\* An unused export stands on its line, before the comment.
LEMMA FoundBefore ==
  ASSUME NEW content, Content(content), NEW g, g.file \in Files, indexed[g.file] = content, Found(g),
         g.rule = "unused-export"
  PROVE  g.name \in content[g.line].before.names
<1>1. /\ g.line \in DOMAIN content /\ g.name \in Exported(content[g.line])
      /\ g.line \notin Suppressed(content)
  BY DEF Found
<1>3. content[g.line].mark # "block"
  <2> SUFFICES ASSUME content[g.line].mark = "block" PROVE FALSE
    OBVIOUS
  <2>1. suppression_offset(content, g.line) = g.line /\ IsDirective(content[g.line])
    BY DEF suppression_offset, IsDirective
  <2> QED BY <1>1, <2>1 DEF Suppressed
<1>4. content[g.line] \in Lines
  BY <1>1 DEF Content
<1>5. \A line \in Lines : line.mark # "block" => line.after.names = {}
  <2> SUFFICES ASSUME NEW line \in Lines, line.mark # "block" PROVE line.after.names = {}
    OBVIOUS
  <2>1. line.after = Nothing
    BY LineTypes
  <2> QED BY <2>1 DEF Nothing
<1> QED BY <1>1, <1>3, <1>4, <1>5 DEF Exported

LEMMA ReadStepFix ==
  ASSUME FixInv, NEW rule \in {"unused-export", "stale-suppression"}, ReadGroup(rule)
  PROVE  FixInv'
<1>1. PICK f \in {g.file : g \in Pending({rule})} :
        LET group == {g \in Pending({rule}) : g.file = f}
        IN /\ run' = [run EXCEPT !.left = @ \ group]
           /\ \/ UNCHANGED open
              \/ /\ disk[f] # Missing
                 /\ open' = [file |-> f, base |-> disk[f], lines |-> disk[f],
                             left |-> group, done |-> {}]
  BY DEF ReadGroup
<1> DEFINE group == {g \in Pending({rule}) : g.file = f}
<1>2. f \in Files
  BY DEF Pending, FixInv, Inv, Shape
<1>3. run'.left \subseteq run.left /\ run'.apply = run.apply
  BY <1>1 DEF FixInv, Inv, Shape, IsRunRecord
<1>4. UNCHANGED <<disk, findings, indexed>> /\ open = Closed
  BY DEF ReadGroup
<1>5. Inv'
  BY ReadStep DEF FixInv, Rules, FileRules
<1>6. CASE UNCHANGED open
  <2>1. Contentful' /\ AsFound'
    BY <1>3, <1>4, <1>6 DEF FixInv, Contentful, AsFound, Found
  <2> QED BY <1>3, <1>4, <1>5, <1>6, <2>1, QuietStep DEF FixInv, AboutOpen
<1>7. CASE ~ UNCHANGED open
  <2>1. /\ open'.file = f /\ open'.base = disk[f] /\ open'.lines = disk[f]
        /\ open'.left = group /\ open'.done = {} /\ disk[f] # Missing
    <3>1. /\ disk[f] # Missing
          /\ open' = [file |-> f, base |-> disk[f], lines |-> disk[f], left |-> group, done |-> {}]
      BY <1>1, <1>7
    <3> HIDE DEF group
    <3> QED BY <3>1
  <2>2. \A g \in group : g \in findings /\ g.file = f /\ g.rule = rule /\ Found(g)
    BY DEF Pending, FixInv, AsFound
  <2>3. Content(disk[f])
    BY <1>2, <2>1 DEF FixInv, Contentful
  <2>4. Contentful'
    BY <1>4, <2>1, <2>3 DEF FixInv, Contentful
  <2>5. AsFound'
    BY <1>3, <1>4, <2>1, <2>2 DEF FixInv, AsFound, Found
  <2>6. FreshIsNotSkipped'
    BY <2>1 DEF FreshIsNotSkipped
  <2>7. SUFFICES ASSUME Fresh' PROVE Tracked' /\ LeftAsRead'
    BY <1>5, <2>4, <2>5, <2>6 DEF FixInv, Tracked, LeftAsRead
  <2>8. indexed[f] = disk[f]
    BY <1>4, <2>1, <2>7 DEF Fresh
  <2>9. Tracked'
    <3> HIDE DEF group
    <3> SUFFICES ASSUME \A g \in group : g.rule = "unused-export"
                 PROVE  \E of \in [DOMAIN disk[f] -> DOMAIN disk[f]] : Follows(of)' /\ InPlace(of)'
      <4>1. OpenFindings' = group
        BY <2>1 DEF OpenFindings
      <4> QED BY <2>1, <4>1 DEF Tracked
    <3>0. PICK id \in [DOMAIN disk[f] -> DOMAIN disk[f]] : \A k \in DOMAIN disk[f] : id[k] = k
      <4> DEFINE same == [k \in DOMAIN disk[f] |-> k]
      <4>1. same \in [DOMAIN disk[f] -> DOMAIN disk[f]] /\ \A k \in DOMAIN disk[f] : same[k] = k
        OBVIOUS
      <4> QED BY <4>1
    <3>1. \A n : FixedAt(n)' = {}
      BY <2>1 DEF FixedAt
    <3>2. Follows(id)'
      <4>1. GoneLines' = {}
        BY <3>1 DEF GoneLines
      <4>2. {id[k] : k \in DOMAIN disk[f]} = DOMAIN disk[f]
        BY <3>0
      <4>3. \A k, l \in DOMAIN disk[f] : k < l => id[k] < id[l]
        BY <3>0
      <4>4. \A k \in DOMAIN disk[f] : disk[f][k] = Without(disk[f][id[k]], {})
        BY <3>0 DEF Without
      <4> QED BY <2>1, <3>1, <4>1, <4>2, <4>3, <4>4 DEF Follows
    <3>3. InPlace(id)'
      <4> SUFFICES ASSUME NEW g \in group, NEW k \in 1 .. g.line PROVE k \in DOMAIN disk[f]
        BY <2>1, <3>0 DEF InPlace
      <4>1. /\ Found(g) /\ g.file \in Files /\ indexed[g.file] = disk[f] /\ g.line \in DOMAIN disk[f]
        BY <1>2, <2>2, <2>8 DEF Found
      <4>2. DOMAIN disk[f] = 1 .. Len(disk[f]) /\ Len(disk[f]) \in Nat
        BY <2>3 DEF Content
      <4> QED BY <4>1, <4>2
    <3> QED BY <3>0, <3>2, <3>3
  <2>10. LeftAsRead'
    <3> SUFFICES ASSUME NEW g \in group
                 PROVE  /\ \A k \in 1 .. g.line - 1 : AsRead(k)'
                        /\ g.rule = "unused-export" => AsRead(g.line)'
                        /\ g.line \in DOMAIN disk[f] => AsRead(g.line)'
      BY <2>1, <2>2 DEF LeftAsRead
    <3>1. \A k \in DOMAIN disk[f] : AsRead(k)'
      BY <2>1 DEF AsRead
    <3> QED BY <1>2, <2>2, <2>3, <2>8, <3>1, LinesOfFindings
  <2> QED BY <2>9, <2>10
<1> QED BY <1>6, <1>7

--------------------------------------------------------------------------------
(* A finding is handled, the lowest first. *)

\* The line that an edit touches is that of the finding, or the one above.
LEMMA EditedLine ==
  ASSUME NEW s, Content(s), NEW f, EditOf(f, s) # Refuse
  PROVE  /\ Line(f, s) \in DOMAIN s
         /\ f.rule = "unused-export" => Line(f, s) = f.line
         /\ f.rule # "unused-export" =>
              Line(f, s) = f.line \/ (Line(f, s) = f.line - 1 /\ s[Line(f, s)].mark = "next")
         /\ \/ EditOf(f, s).edit = "remove"
            \/ EditOf(f, s).edit = "replace" /\ Shrunk(EditOf(f, s).line, s[Line(f, s)])
<1> DEFINE n == Line(f, s)
           e == EditOf(f, s)
<1>1. CASE f.rule = "unused-export"
  <2>1. n = f.line /\ n \in DOMAIN s /\ e = fix_export_line(s[n], f.name)
    BY <1>1 DEF Line, EditOf, ExportEdit
  <2>2. s[n] \in Lines
    BY <2>1 DEF Content
  <2>3. e.edit # "refuse"
    BY <2>1 DEF fix_export_line, fix_reexport_list, Replace, RemoveLine, Refuse
  <2> HIDE DEF n, e
  <2>4. e.edit = "replace" => Shrunk(e.line, s[n])
    BY <2>1, <2>2, FixedLine
  <2>5. e.edit \in {"replace", "remove"}
    BY <2>1, <2>3, KindsOfEdits
  <2> QED BY <1>1, <2>1, <2>4, <2>5 DEF n, e
<1>2. CASE f.rule # "unused-export"
  <2>1. n = marker_line(s, f.line) /\ n # 0 /\ e = strip_marker(s[n])
    BY <1>2 DEF Line, EditOf, remove_suppression_comment
  <2>2. n \in DOMAIN s /\ (n = f.line \/ (n = f.line - 1 /\ s[n].mark = "next"))
    BY <2>1 DEF marker_line, HasMarker, Content
  <2>3. s[n] \in Lines
    BY <2>2 DEF Content
  <2> HIDE DEF n, e
  <2>4. e.edit = "replace" => Shrunk(e.line, s[n])
    BY <2>1, <2>3, StrippedLine
  <2>5. e.edit \in {"replace", "remove"}
    BY <2>1, KindsOfEdits
  <2> QED BY <1>2, <2>2, <2>4, <2>5 DEF n, e
<1> QED BY <1>1, <1>2

\* The lines above an edit stay as they are; every line left is one there was,
\* with no name it had not.
LEMMA EditedLines ==
  ASSUME NEW s, Content(s), NEW f, EditOf(f, s) # Refuse,
         NEW t, t = Applied(s, Line(f, s), EditOf(f, s))
  PROVE  /\ \A k \in DOMAIN s : k < Line(f, s) => k \in DOMAIN t /\ t[k] = s[k]
         /\ \A k \in DOMAIN t : k # Line(f, s) => t[k] = s[k] \/ (k > Line(f, s) /\ t[k] = s[k + 1])
         /\ EditOf(f, s).edit = "remove" => 
              \A k \in DOMAIN t : k + 1 \in DOMAIN s /\ t[k] = IF k < Line(f, s) THEN s[k] ELSE s[k + 1]
         /\ EditOf(f, s).edit = "replace" =>
              /\ DOMAIN t = DOMAIN s /\ t[Line(f, s)] = EditOf(f, s).line
              /\ \A k \in DOMAIN t : k # Line(f, s) => t[k] = s[k]
<1> DEFINE n == Line(f, s)
           e == EditOf(f, s)
<1>1. /\ n \in DOMAIN s /\ s \in Seq(Lines)
      /\ \/ e.edit = "remove"
         \/ e.edit = "replace" /\ e.line \in Lines
  BY EditedLine DEF Content, Shrunk
<1>2. DOMAIN s = 1 .. Len(s) /\ Len(s) \in Nat
  BY <1>1
<1> HIDE DEF n, e
<1>3. CASE e.edit = "remove"
  <2>1. t = RemoveAt(s, n)
    BY <1>3 DEF Applied, n, e
  <2>2. /\ DOMAIN t = 1 .. Len(s) - 1
        /\ \A k \in 1 .. Len(s) - 1 : t[k] = IF k < n THEN s[k] ELSE s[k + 1]
    BY <1>1, <2>1, RemovedLines
  <2> QED BY <1>1, <1>2, <1>3, <2>2 DEF n, e
<1>4. CASE e.edit = "replace" /\ e.line \in Lines
  <2>1. PICK line \in Lines : line = e.line /\ t = ReplaceAt(s, n, line)
    BY <1>4 DEF Applied, n, e
  <2> DEFINE u == ReplaceAt(s, n, line)
  <2>2. DOMAIN u = DOMAIN s
    BY <1>1, ReplacedLines
  <2>3. u[n] = line
    BY <1>1, ReplacedLines
  <2>4. \A k \in DOMAIN s : k # n => u[k] = s[k]
    BY <1>1, ReplacedLines
  <2> QED BY <1>1, <1>2, <1>4, <2>1, <2>2, <2>3, <2>4 DEF n, e
<1> QED BY <1>1, <1>3, <1>4

\* What a fix leaves of an open file, whether it edits a line or not.
Remaining(f) ==
  IF run.apply \/ f.rule = "stale-suppression"
  THEN Applied(open.lines, Line(f, open.lines), EditOf(f, open.lines)) ELSE open.lines
StatusOf(f) == IF EditOf(f, open.lines) = Refuse THEN "skipped" ELSE done

\* One finding handled, on a file that is as it was indexed.
Handled(f) ==
  /\ f \in open.left /\ next_finding(f)
  /\ open'.file = open.file /\ open'.base = open.base
  /\ open'.left = open.left \ {f}
  /\ open'.done = open.done \cup {[finding |-> f, status |-> StatusOf(f)]}
  /\ open'.lines = Remaining(f)
  /\ UNCHANGED <<disk, findings, indexed, edited, run, report, edits>>

LEMMA StepHandles == Inv /\ edit_lines => \E f \in open.left : Handled(f)
<1> SUFFICES ASSUME Inv, edit_lines PROVE \E f \in open.left : Handled(f)
  OBVIOUS
<1>1. PICK f \in open.left :
        /\ next_finding(f)
        /\ open' = [open EXCEPT !.left = @ \ {f},
                                !.done = @ \cup Reported({f}, StatusOf(f)),
                                !.lines = Remaining(f)]
  BY DEF edit_lines, Remaining, StatusOf
<1>2. Handled(f)
  <2>1. Reported({f}, StatusOf(f)) = {[finding |-> f, status |-> StatusOf(f)]}
    BY DEF Reported
  <2>2. open = [file |-> open.file, base |-> open.base, lines |-> open.lines,
                left |-> open.left, done |-> open.done]
    BY DEF Inv, Shape, IsOpenRecord
  <2>3. /\ open'.file = open.file /\ open'.base = open.base
        /\ open'.left = open.left \ {f}
        /\ open'.done = open.done \cup {[finding |-> f, status |-> StatusOf(f)]}
        /\ open'.lines = Remaining(f)
    BY <1>1, <2>1, <2>2
  <2> QED BY <1>1, <2>3 DEF Handled, edit_lines
<1> QED BY <1>2

\* The findings in hand: of one rule and one file, the lines of suppressions apart.
LEMMA InHand ==
  ASSUME FixInv, NEW f \in open.left, NEW g \in open.left
  PROVE  /\ open # Closed /\ Content(open.base) /\ Content(open.lines)
         /\ f \in findings /\ Found(f) /\ f.rule \in {"unused-export", "stale-suppression"}
         /\ f.rule = g.rule /\ f.file = open.file /\ open.file \in Files
         /\ f.rule = "stale-suppression" /\ f # g => f.line # g.line
<1>1. open # Closed
  BY DEF Closed
<1>2. PICK rule \in {"unused-export", "stale-suppression"} :
        open.left \subseteq {h \in findings : h.rule = rule}
  BY <1>1 DEF FixInv, AsFound
<1>3. Found(f) /\ Found(g) /\ f.file = open.file /\ g.file = open.file /\ open.file \in Files
  BY <1>1, <1>2 DEF FixInv, AsFound, Inv, Grouped
<1>4. f.rule = "stale-suppression" /\ f # g => f.line # g.line
  BY <1>2, <1>3 DEF Found
<1> QED BY <1>1, <1>2, <1>3, <1>4 DEF FixInv, Contentful

LEMMA NothingRefused ==
  ASSUME NEW f, EditOf(f, open.lines) = Refuse PROVE Remaining(f) = open.lines
BY DEF Remaining, Applied, Refuse

\* An edit that leaves what a line is without some of its exports.
Leaves(e, line, names) ==
  /\ e.edit = "replace" =>
       e.line = Without(line, names) /\ ~ (line.before.form = "list" /\ line.before.names \subseteq names)
  /\ e.edit = "remove" => line.before.form = "list" /\ line.before.names \subseteq names

\* What one more name of a line takes away from what the names before it left.
LEMMA WithoutOneMore ==
  ASSUME NEW line \in Lines, NEW fixed, NEW symbol, symbol \notin fixed, NEW e,
         e = fix_export_line(Without(line, fixed), symbol), e # Refuse
  PROVE  Leaves(e, line, fixed \cup {symbol})
<1> DEFINE now == Without(line, fixed)
<1>0. /\ line = [before |-> line.before, mark |-> line.mark, after |-> line.after]
      /\ line.before = [form |-> line.before.form, names |-> line.before.names, bad |-> line.before.bad]
  BY LineTypes
<1>1. e = fix_export_line(now, symbol) /\ e # Refuse
  OBVIOUS
<1>2. CASE line.before.form = "decl"
  <2>1. fixed = {}
    <3> SUFFICES ASSUME fixed # {} PROVE FALSE
      OBVIOUS
    <3>1. now = [line EXCEPT !.before = [line.before EXCEPT !.form = "plain", !.names = {}]]
      BY <1>2 DEF Without
    <3>2. now.before.form = "plain"
      BY <1>0, <3>1
    <3> QED BY <1>1, <3>2 DEF fix_export_line
  <2>2. now = line
    BY <2>1 DEF Without
  <2> HIDE DEF now
  <2>3. e = Replace([line EXCEPT !.before = [line.before EXCEPT !.form = "plain", !.names = {}]])
    BY <1>1, <1>2, <2>2 DEF fix_export_line
  <2>4. Without(line, fixed \cup {symbol})
          = [line EXCEPT !.before = [line.before EXCEPT !.form = "plain", !.names = {}]]
    BY <1>2 DEF Without
  <2>5. e.edit = "replace" /\ e.line = Without(line, fixed \cup {symbol})
    BY <2>3, <2>4 DEF Replace
  <2>6. e.edit # "remove"
    BY <2>5
  <2> QED BY <1>2, <2>5, <2>6 DEF Leaves
<1>3. CASE line.before.form # "decl"
  <2>1. /\ now.before.form = line.before.form
        /\ now.before.names = line.before.names \ fixed
        /\ now = [line EXCEPT !.before.names = line.before.names \ fixed]
    <3>1. CASE fixed = {}
      <4>1. now = line
        BY <3>1 DEF Without
      <4> QED BY <1>0, <3>1, <4>1
    <3>2. CASE fixed # {}
      <4>1. now = [line EXCEPT !.before.names = line.before.names \ fixed]
        BY <1>3, <3>2 DEF Without
      <4> QED BY <1>0, <4>1
    <3> QED BY <3>1, <3>2
  <2> HIDE DEF now
  <2>2. /\ line.before.form = "list" /\ symbol \in now.before.names
        /\ e = fix_reexport_list(now, symbol)
    BY <1>1, <1>3, <2>1 DEF fix_export_line, fix_reexport_list
  <2>3. CASE now.before.names = {symbol}
    <3>1. e = RemoveLine
      BY <2>2, <2>3 DEF fix_reexport_list
    <3> QED BY <2>1, <2>2, <2>3, <3>1 DEF RemoveLine, Leaves
  <2>4. CASE now.before.names # {symbol}
    <3>1. e = Replace([now EXCEPT !.before.names = now.before.names \ {symbol}])
      BY <2>2, <2>4 DEF fix_reexport_list
    <3>2. [now EXCEPT !.before.names = now.before.names \ {symbol}]
            = [line EXCEPT !.before.names = line.before.names \ (fixed \cup {symbol})]
      <4>1. now.before.names \ {symbol} = line.before.names \ (fixed \cup {symbol})
        BY <2>1
      <4>2. /\ now.before = [line.before EXCEPT !.names = line.before.names \ fixed]
            /\ now.mark = line.mark /\ now.after = line.after
            /\ now = [before |-> now.before, mark |-> now.mark, after |-> now.after]
        BY <1>0, <2>1
      <4> QED BY <1>0, <4>1, <4>2
    <3>3. Without(line, fixed \cup {symbol})
            = [line EXCEPT !.before.names = line.before.names \ (fixed \cup {symbol})]
      BY <2>2 DEF Without
    <3>4. ~ (line.before.names \subseteq fixed \cup {symbol})
      BY <2>1, <2>2, <2>4
    <3>5. e.edit = "replace" /\ e.line = Without(line, fixed \cup {symbol})
      BY <3>1, <3>2, <3>3 DEF Replace
    <3> QED BY <3>4, <3>5 DEF Leaves
  <2> QED BY <2>3, <2>4
<1> QED BY <1>2, <1>3

\* Where the lines come from when one of them is gone.
OneLess(new, of, len, n) ==
  /\ \A k \in 1 .. len - 1 : new[k] = IF k < n THEN of[k] ELSE of[k + 1]
  /\ \A k, l \in 1 .. len - 1 : k < l => new[k] < new[l]
  /\ {new[k] : k \in 1 .. len - 1} = {of[k] : k \in 1 .. len} \ {n}
  /\ \A k \in 1 .. len - 1 : new[k] # n

LEMMA LinesWithoutOne ==
  ASSUME NEW len \in Nat, NEW max \in Nat, NEW of \in [1 .. len -> 1 .. max],
         \A k, l \in 1 .. len : k < l => of[k] < of[l], NEW n \in 1 .. len, of[n] = n
  PROVE  \E new \in [1 .. len - 1 -> 1 .. max] : OneLess(new, of, len, n)
<1> DEFINE new == [k \in 1 .. len - 1 |-> IF k < n THEN of[k] ELSE of[k + 1]]
<1>1. \A k \in 1 .. len - 1 : new[k] = IF k < n THEN of[k] ELSE of[k + 1]
  OBVIOUS
<1>2. new \in [1 .. len - 1 -> 1 .. max]
  OBVIOUS
<1> HIDE DEF new
<1>3. \A k, l \in 1 .. len - 1 : k < l => new[k] < new[l]
  <2> SUFFICES ASSUME NEW k \in 1 .. len - 1, NEW l \in 1 .. len - 1, k < l PROVE new[k] < new[l]
    OBVIOUS
  <2>1. k + 1 \in 1 .. len /\ l + 1 \in 1 .. len /\ k \in 1 .. len /\ l \in 1 .. len
    OBVIOUS
  <2>2. CASE l < n
    BY <1>1, <2>1, <2>2
  <2>3. CASE k < n /\ ~ (l < n)
    <3>1. of[k] < of[l + 1]
      BY <2>1
    <3> QED BY <1>1, <2>3, <3>1
  <2>4. CASE ~ (k < n)
    <3>1. of[k + 1] < of[l + 1] /\ ~ (l < n)
      BY <2>1, <2>4
    <3> QED BY <1>1, <2>4, <3>1
  <2> QED BY <2>2, <2>3, <2>4
<1>4. \A k \in 1 .. len - 1 : new[k] # n /\ \E j \in 1 .. len : new[k] = of[j]
  <2> SUFFICES ASSUME NEW k \in 1 .. len - 1
               PROVE  new[k] # n /\ \E j \in 1 .. len : new[k] = of[j]
    OBVIOUS
  <2>1. CASE k < n
    <3>1. k \in 1 .. len /\ of[k] < of[n] /\ of[k] \in Nat
      BY <2>1
    <3> QED BY <1>1, <2>1, <3>1
  <2>2. CASE ~ (k < n)
    <3>1. k + 1 \in 1 .. len /\ of[n] < of[k + 1] /\ of[k + 1] \in Nat
      BY <2>2
    <3> QED BY <1>1, <2>2, <3>1
  <2> QED BY <2>1, <2>2
<1>5. \A j \in 1 .. len : of[j] # n => \E k \in 1 .. len - 1 : new[k] = of[j]
  <2> SUFFICES ASSUME NEW j \in 1 .. len, of[j] # n
               PROVE  \E k \in 1 .. len - 1 : new[k] = of[j]
    OBVIOUS
  <2>1. CASE j < n
    BY <1>1, <2>1
  <2>2. CASE ~ (j < n)
    <3>1. j # n /\ j - 1 \in 1 .. len - 1 /\ ~ (j - 1 < n) /\ (j - 1) + 1 = j
      BY <2>2
    <3> QED BY <1>1, <3>1
  <2> QED BY <2>1, <2>2
<1>6. {new[k] : k \in 1 .. len - 1} = {of[k] : k \in 1 .. len} \ {n}
  <2>1. ASSUME NEW k \in 1 .. len - 1 PROVE new[k] \in {of[j] : j \in 1 .. len} \ {n}
    BY <1>4
  <2>2. ASSUME NEW j \in 1 .. len, of[j] # n PROVE of[j] \in {new[k] : k \in 1 .. len - 1}
    BY <1>5, <2>2
  <2> QED BY <2>1, <2>2
<1> QED BY <1>1, <1>2, <1>3, <1>4, <1>6 DEF OneLess

LEMMA HandledTracked ==
  ASSUME FixInv, Fresh, NEW f, Handled(f) PROVE Tracked'
<1> DEFINE s == open.lines
           t == Remaining(f)
           n == f.line
<1>1. /\ f \in open.left /\ Content(s) /\ Content(open.base) /\ Content(t)
      /\ open'.lines = t /\ open'.base = open.base /\ open'.left = open.left \ {f}
      /\ open'.done = open.done \cup {[finding |-> f, status |-> StatusOf(f)]}
      /\ \A g \in open.left : g.line <= n
      /\ UNCHANGED run
  <2>1. f \in open.left /\ Content(s) /\ Content(open.base)
    BY InHand DEF Handled
  <2>2. Content(t)
    BY <2>1, AppliedContent DEF Remaining
  <2> QED BY <2>1, <2>2 DEF Handled, next_finding
<1>2. SUFFICES ASSUME \A g \in OpenFindings' : g.rule = "unused-export"
               PROVE  /\ \A d \in open'.done : d.finding \notin open'.left
                      /\ \E of \in [DOMAIN t -> DOMAIN open.base] : Follows(of)' /\ InPlace(of)'
  BY <1>1 DEF Tracked
<1> HIDE DEF s, t, n
<1>3. \A g \in OpenFindings : g.rule = "unused-export"
  <2>1. OpenFindings \subseteq OpenFindings'
    <3>1. ASSUME NEW d \in open.done PROVE d.finding \in OpenFindings'
      BY <1>1, <3>1 DEF OpenFindings
    <3>2. f \in OpenFindings'
      <4>1. [finding |-> f, status |-> StatusOf(f)] \in open'.done
        BY <1>1
      <4>2. [finding |-> f, status |-> StatusOf(f)].finding = f
        OBVIOUS
      <4> QED BY <4>1, <4>2 DEF OpenFindings
    <3>3. open.left \ {f} \subseteq OpenFindings'
      BY <1>1 DEF OpenFindings
    <3> QED BY <3>1, <3>2, <3>3 DEF OpenFindings
  <2> QED BY <1>2, <2>1
<1>4. /\ \A d \in open.done : d.finding \notin open.left
      /\ \E of \in [DOMAIN s -> DOMAIN open.base] : Follows(of) /\ InPlace(of)
  BY <1>3 DEF FixInv, Tracked, s
<1>5. PICK of \in [DOMAIN s -> DOMAIN open.base] : Follows(of) /\ InPlace(of)
  BY <1>4
<1>6. \A d \in open'.done : d.finding \notin open'.left
  BY <1>1, <1>4
<1>7. \A g \in OpenFindings :
        /\ g = Finding("unused-export", open.file, g.line, g.name)
        /\ g.line \in DOMAIN open.base /\ g.name \in open.base[g.line].before.names
  <2>0. open # Closed /\ open.file \in Files /\ indexed[open.file] = open.base
    BY <1>1, InHand DEF Fresh
  <2> SUFFICES ASSUME NEW g \in OpenFindings
               PROVE  /\ g = Finding("unused-export", open.file, g.line, g.name)
                      /\ g.line \in DOMAIN open.base /\ g.name \in open.base[g.line].before.names
    OBVIOUS
  <2>1. g \in findings /\ Found(g) /\ g.rule = "unused-export"
    BY <1>3, <2>0 DEF FixInv, AsFound, OpenFindings
  <2>2. g.file = open.file
    BY <2>0 DEF FixInv, Inv, Grouped, OpenFindings
  <2> QED BY <1>1, <2>0, <2>1, <2>2, FoundBefore DEF Found
<1>8. /\ DOMAIN s = 1 .. Len(s) /\ Len(s) \in Nat /\ DOMAIN open.base = 1 .. Len(open.base)
      /\ Len(open.base) \in Nat
      /\ n \in DOMAIN open.base /\ n \in DOMAIN s /\ of[n] = n
  <2>1. DOMAIN s = 1 .. Len(s) /\ Len(s) \in Nat /\ DOMAIN open.base = 1 .. Len(open.base)
        /\ Len(open.base) \in Nat
    BY <1>1 DEF Content
  <2>2. n \in DOMAIN open.base
    BY <1>1, <1>7 DEF OpenFindings, n
  <2>3. n \in 1 .. f.line
    BY <2>1, <2>2 DEF n
  <2> QED BY <1>1, <1>5, <2>1, <2>2, <2>3 DEF InPlace, s
<1>9. \A g \in open.left : g.name \notin FixedAt(g.line)
  <2> SUFFICES ASSUME NEW g \in open.left, NEW d \in open.done, d.finding.line = g.line,
                      d.finding.name = g.name
               PROVE  FALSE
    BY DEF FixedAt
  <2>1. g \in OpenFindings /\ d.finding \in OpenFindings
    BY DEF OpenFindings
  <2>2. d.finding = g
    BY <1>7, <2>1
  <2> QED BY <1>4, <2>2
<1>10. CASE StatusOf(f) # "fixed"
  <2>1. t = s
    <3>1. EditOf(f, s) = Refuse \/ ~ run.apply
      BY <1>10 DEF StatusOf, done, s
    <3>2. f.rule = "unused-export"
      BY <1>1, <1>3 DEF OpenFindings
    <3> QED BY <3>1, <3>2, NothingRefused DEF Remaining, s, t
  <2>2. \A m : FixedAt(m)' = FixedAt(m)
    <3> SUFFICES ASSUME NEW m PROVE FixedAt(m)' = FixedAt(m)
      OBVIOUS
    <3>1. \A d : d \in open'.done /\ d.status = "fixed" <=> d \in open.done /\ d.status = "fixed"
      BY <1>1, <1>10
    <3>2. {d \in open'.done : d.status = "fixed" /\ d.finding.line = m}
            = {d \in open.done : d.status = "fixed" /\ d.finding.line = m}
      BY <3>1
    <3> QED BY <3>2 DEF FixedAt
  <2>3. Follows(of)'
    BY <1>1, <1>5, <2>1, <2>2 DEF Follows, GoneLines, s
  <2>4. InPlace(of)'
    BY <1>1, <1>5, <2>1 DEF InPlace, s
  <2> QED BY <1>5, <1>6, <2>1, <2>3, <2>4
<1>11. CASE StatusOf(f) = "fixed"
  <2>1. /\ run.apply /\ EditOf(f, s) # Refuse /\ f.rule = "unused-export"
        /\ t = Applied(s, Line(f, s), EditOf(f, s)) /\ Line(f, s) = n
        /\ EditOf(f, s) = fix_export_line(s[n], f.name)
    <3>1. run.apply /\ EditOf(f, s) # Refuse
      BY <1>11 DEF StatusOf, done, s
    <3>2. f.rule = "unused-export"
      BY <1>1, <1>3 DEF OpenFindings
    <3> QED BY <1>8, <3>1, <3>2 DEF Remaining, Line, EditOf, ExportEdit, s, t, n
  <2> DEFINE e == EditOf(f, s)
             fixed == FixedAt(n)
  <2>2. /\ s[n] = Without(open.base[n], fixed) /\ open.base[n] \in Lines
        /\ f.name \notin fixed
    BY <1>1, <1>5, <1>8, <1>9 DEF Follows, Content, s, n
  <2>3. /\ e.edit = "replace" => /\ e.line = Without(open.base[n], fixed \cup {f.name})
                                 /\ ~ (open.base[n].before.form = "list"
                                       /\ open.base[n].before.names \subseteq fixed \cup {f.name})
        /\ e.edit = "remove" => /\ open.base[n].before.form = "list"
                                /\ open.base[n].before.names \subseteq fixed \cup {f.name}
    <3> HIDE DEF fixed
    <3>1. fix_export_line(Without(open.base[n], fixed), f.name) # Refuse
      BY <2>1, <2>2
    <3>2. e = fix_export_line(Without(open.base[n], fixed), f.name)
      BY <2>1, <2>2
    <3> HIDE DEF e
    <3>3. e # Refuse
      BY <3>1, <3>2
    <3>4. Leaves(e, open.base[n], fixed \cup {f.name})
      BY <2>2, <3>2, <3>3, WithoutOneMore
    <3> QED BY <3>4 DEF Leaves
  <2>4. \A m : FixedAt(m)' = IF m = n THEN fixed \cup {f.name} ELSE FixedAt(m)
    <3> SUFFICES ASSUME NEW m PROVE FixedAt(m)' = IF m = n THEN FixedAt(m) \cup {f.name} ELSE FixedAt(m)
      OBVIOUS
    <3> DEFINE d == [finding |-> f, status |-> "fixed"]
    <3>1. open'.done = open.done \cup {d} /\ d.finding.line = n /\ d.status = "fixed"
          /\ d.finding.name = f.name
      BY <1>1, <1>11 DEF n
    <3> HIDE DEF d
    <3>2. CASE m = n
      <4>1. {x \in open'.done : x.status = "fixed" /\ x.finding.line = m}
              = {x \in open.done : x.status = "fixed" /\ x.finding.line = m} \cup {d}
        BY <3>1, <3>2
      <4> QED BY <3>1, <3>2, <4>1 DEF FixedAt
    <3>3. CASE m # n
      <4>1. {x \in open'.done : x.status = "fixed" /\ x.finding.line = m}
              = {x \in open.done : x.status = "fixed" /\ x.finding.line = m}
        BY <3>1, <3>3
      <4> QED BY <3>3, <4>1 DEF FixedAt
    <3> QED BY <3>2, <3>3
  <2>5. n \notin GoneLines
    BY <1>5, <1>8 DEF Follows, s
  <2>6. \A m \in DOMAIN open.base : m # n => (m \in GoneLines' <=> m \in GoneLines)
    BY <1>1, <2>4 DEF GoneLines
  <2>7. n \in GoneLines' <=> /\ open.base[n].before.form = "list"
                             /\ open.base[n].before.names \subseteq fixed \cup {f.name}
    BY <1>1, <1>8, <2>4 DEF GoneLines
  <2>8. GoneLines \subseteq DOMAIN open.base /\ GoneLines' \subseteq DOMAIN open.base
    BY <1>1 DEF GoneLines
  <2> HIDE DEF e, fixed
  <2>9. e.edit \in {"replace", "remove"}
    BY <1>1, <2>1, EditedLine DEF e
  <2>10. CASE e.edit = "replace"
    <3>1. /\ DOMAIN t = DOMAIN s /\ t[n] = e.line
          /\ \A k \in DOMAIN t : k # n => t[k] = s[k]
      BY <1>1, <2>1, <2>10, EditedLines DEF e
    <3>2. GoneLines' = GoneLines
      BY <2>3, <2>5, <2>6, <2>7, <2>8, <2>10
    <3>3. \A k, l \in DOMAIN t : k < l => of[k] < of[l]
      BY <1>5, <3>1 DEF Follows, s
    <3>4. {of[k] : k \in DOMAIN t} = DOMAIN open.base \ GoneLines'
      BY <1>5, <3>1, <3>2 DEF Follows, s
    <3>5. \A k \in DOMAIN t : t[k] = Without(open.base[of[k]], FixedAt(of[k])')
      <4> SUFFICES ASSUME NEW k \in DOMAIN t PROVE t[k] = Without(open.base[of[k]], FixedAt(of[k])')
        OBVIOUS
      <4>1. CASE k = n
        BY <1>8, <2>3, <2>4, <2>10, <3>1, <4>1
      <4>2. CASE k # n
        <5>1. of[k] # n
          <6>1. of[k] \in Nat /\ k \in Nat /\ n \in Nat /\ k \in DOMAIN s
            BY <1>5, <1>8, <3>1
          <6>2. k < n \/ n < k
            BY <4>2, <6>1
          <6> QED BY <1>5, <1>8, <6>1, <6>2 DEF Follows, s
        <5>2. t[k] = s[k] /\ s[k] = Without(open.base[of[k]], FixedAt(of[k]))
          BY <1>5, <3>1, <4>2 DEF Follows, s
        <5> QED BY <2>4, <5>1, <5>2
      <4> QED BY <4>1, <4>2
    <3>6. Follows(of)'
      BY <1>1, <3>3, <3>4, <3>5 DEF Follows
    <3>7. InPlace(of)'
      BY <1>1, <1>5, <3>1 DEF InPlace, s
    <3> QED BY <1>5, <1>6, <3>1, <3>6, <3>7
  <2>11. CASE e.edit = "remove"
    <3>1. /\ DOMAIN t = 1 .. Len(s) - 1
          /\ \A k \in 1 .. Len(s) - 1 : t[k] = IF k < n THEN s[k] ELSE s[k + 1]
      <4>1. t = RemoveAt(s, n)
        BY <2>1, <2>11 DEF Applied, e
      <4> QED BY <1>1, <1>8, <4>1, RemovedLines DEF Content
    <3>2. PICK new \in [1 .. Len(s) - 1 -> 1 .. Len(open.base)] : OneLess(new, of, Len(s), n)
      <4>1. \A k, l \in 1 .. Len(s) : k < l => of[k] < of[l]
        BY <1>5, <1>8 DEF Follows, s
      <4>2. of \in [1 .. Len(s) -> 1 .. Len(open.base)] /\ n \in 1 .. Len(s)
        BY <1>8
      <4> QED BY <1>8, <4>1, <4>2, LinesWithoutOne
    <3>3. /\ \A k \in 1 .. Len(s) - 1 : new[k] = IF k < n THEN of[k] ELSE of[k + 1]
          /\ \A k, l \in 1 .. Len(s) - 1 : k < l => new[k] < new[l]
          /\ {new[k] : k \in 1 .. Len(s) - 1} = {of[k] : k \in 1 .. Len(s)} \ {n}
          /\ \A k \in 1 .. Len(s) - 1 : new[k] # n
      BY <3>2 DEF OneLess
    <3>4. {new[k] : k \in DOMAIN t} = DOMAIN open.base \ GoneLines'
      <4>1. {of[k] : k \in 1 .. Len(s)} = DOMAIN open.base \ GoneLines
        BY <1>5, <1>8 DEF Follows, s
      <4>2. GoneLines' = GoneLines \cup {n}
        BY <1>8, <2>3, <2>6, <2>7, <2>8, <2>11
      <4> QED BY <3>1, <3>3, <4>1, <4>2
    <3>5. \A k \in DOMAIN t : t[k] = Without(open.base[new[k]], FixedAt(new[k])')
      <4> SUFFICES ASSUME NEW k \in 1 .. Len(s) - 1
                   PROVE  t[k] = Without(open.base[new[k]], FixedAt(new[k])')
        BY <3>1
      <4>1. \A j \in 1 .. Len(s) : s[j] = Without(open.base[of[j]], FixedAt(of[j]))
        BY <1>5, <1>8 DEF Follows, s
      <4>2. t[k] = Without(open.base[new[k]], FixedAt(new[k]))
        BY <1>8, <3>1, <3>3, <4>1
      <4>3. new[k] # n
        BY <3>3
      <4> QED BY <2>4, <4>2, <4>3
    <3>6. Follows(new)'
      BY <1>1, <3>1, <3>3, <3>4, <3>5 DEF Follows
    <3>7. InPlace(new)'
      <4> SUFFICES ASSUME NEW g \in open.left, g # f, NEW k \in 1 .. g.line
                   PROVE  k \in DOMAIN t /\ new[k] = k
        BY <1>1 DEF InPlace
      <4>1. /\ g \in OpenFindings /\ g.line \in 1 .. Len(open.base) /\ g.line <= n
            /\ g.name \in open.base[g.line].before.names
        BY <1>1, <1>7, <1>8 DEF OpenFindings
      <4>2. g.line # n
        <5> SUFFICES ASSUME g.line = n PROVE FALSE
          OBVIOUS
        <5>1. f \in OpenFindings /\ f.line = n
          BY <1>1 DEF OpenFindings, n
        <5>2. g.name # f.name
          BY <1>7, <4>1, <5>1
        <5>3. g.name \in fixed
          BY <2>3, <2>11, <4>1, <5>2
        <5> QED BY <1>9, <5>3 DEF fixed
      <4>3. k < n /\ k \in 1 .. Len(s) - 1
        BY <1>8, <4>1, <4>2
      <4>4. of[k] = k
        BY <1>5 DEF InPlace
      <4> QED BY <3>1, <3>3, <4>3, <4>4
    <3>8. new \in [DOMAIN t -> DOMAIN open.base]
      BY <1>8, <3>1, <3>2
    <3> QED BY <1>6, <3>6, <3>7, <3>8
  <2> QED BY <2>9, <2>10, <2>11
<1> QED BY <1>10, <1>11

LEMMA HandledLeftAsRead ==
  ASSUME FixInv, Fresh, NEW f, Handled(f) PROVE LeftAsRead'
<1> DEFINE s == open.lines
           t == Remaining(f)
           n == Line(f, s)
<1>1. /\ f \in open.left /\ Content(s) /\ Content(open.base)
      /\ open'.lines = t /\ open'.base = open.base /\ open'.left = open.left \ {f}
      /\ open'.done = open.done \cup {[finding |-> f, status |-> StatusOf(f)]}
      /\ UNCHANGED <<findings, run>>
  BY InHand DEF Handled
<1>2. SUFFICES ASSUME NEW g \in open.left, g # f
               PROVE  /\ \A k \in 1 .. g.line - 1 : AsRead(k)'
                      /\ IF g.rule = "unused-export"
                         THEN \/ AsRead(g.line)'
                              \/ \E h \in findings : h # g /\ h.line = g.line /\ Outcome(h, done)'
                         ELSE g.line \in DOMAIN open.base /\ open.base[g.line].mark # "next"
                                => AsRead(g.line)'
  BY <1>1 DEF LeftAsRead, done
<1>3. /\ \A k \in 1 .. g.line - 1 : AsRead(k)
      /\ IF g.rule = "unused-export"
         THEN AsRead(g.line) \/ \E h \in findings : h # g /\ h.line = g.line /\ Outcome(h, done)
         ELSE g.line \in DOMAIN open.base /\ open.base[g.line].mark # "next" => AsRead(g.line)
  BY DEF FixInv, LeftAsRead
<1>4. \A h \in findings : Outcome(h, done) => Outcome(h, done)'
  BY <1>1 DEF Outcome, done
<1>5. CASE t = s
  <2>1. \A k : AsRead(k) => AsRead(k)'
    BY <1>1, <1>5 DEF AsRead
  <2> QED BY <1>3, <1>4, <2>1
<1>6. CASE t # s
  <2>1. EditOf(f, s) # Refuse /\ t = Applied(s, n, EditOf(f, s))
    BY <1>6, NothingRefused DEF Remaining
  <2>2. StatusOf(f) = done
    BY <2>1 DEF StatusOf
  <2>3. /\ g.rule = f.rule /\ g.line <= f.line /\ f \in findings
        /\ f.rule \in {"unused-export", "stale-suppression"}
        /\ f.rule = "stale-suppression" => f.line # g.line
    BY <1>1, <1>2, InHand DEF Handled, next_finding
  <2>4. f.line \in Nat /\ g.line \in Nat
    <3>1. \A h \in open.left : /\ Found(h) /\ h.file \in Files /\ indexed[h.file] = open.base
                               /\ h.rule \in {"unused-export", "stale-suppression"}
      BY InHand DEF Fresh
    <3> QED BY <1>1, <3>1, LinesOfFindings
  <2>5. \A k : AsRead(k) /\ k < n => AsRead(k)'
    <3> HIDE DEF s, t, n
    <3>1. \A k \in DOMAIN s : k < n => k \in DOMAIN t /\ t[k] = s[k]
      BY <1>1, <2>1, EditedLines DEF n
    <3> QED BY <1>1, <3>1 DEF AsRead, s
  <2>6. /\ n \in DOMAIN s
        /\ f.rule = "unused-export" => n = f.line
        /\ f.rule # "unused-export" => n = f.line \/ (n = f.line - 1 /\ s[n].mark = "next")
    BY <1>1, <2>1, EditedLine
  <2> HIDE DEF s, t, n
  <2>7. CASE f.rule = "unused-export"
    <3>1. \A k \in 1 .. g.line - 1 : AsRead(k)'
      BY <1>3, <2>3, <2>4, <2>5, <2>6, <2>7
    <3>2. CASE g.line = f.line
      <4>1. Outcome(f, done)'
        BY <1>1, <2>2 DEF Outcome, done
      <4> QED BY <1>2, <2>3, <2>7, <3>1, <3>2, <4>1
    <3>3. CASE g.line # f.line
      <4>1. AsRead(g.line) => AsRead(g.line)'
        BY <2>3, <2>4, <2>5, <2>6, <2>7, <3>3
      <4> QED BY <1>3, <1>4, <2>3, <2>7, <3>1, <4>1
    <3> QED BY <3>2, <3>3
  <2>8. CASE f.rule = "stale-suppression"
    <3>1. g.line < f.line /\ g.line <= n
      BY <2>3, <2>4, <2>6, <2>8
    <3>2. \A k \in 1 .. g.line - 1 : AsRead(k)'
      BY <1>3, <2>4, <2>5, <2>6, <2>8, <3>1
    <3>3. CASE g.line < n
      <4>1. AsRead(g.line) => AsRead(g.line)'
        BY <2>5, <3>3
      <4> QED BY <1>3, <2>3, <2>8, <3>2, <4>1
    <3>4. CASE g.line = n
      <4>1. s[g.line].mark = "next"
        BY <2>4, <2>6, <2>8, <3>1, <3>4
      <4>2. ~ (g.line \in DOMAIN open.base /\ open.base[g.line].mark # "next")
        BY <1>3, <2>3, <2>8, <4>1 DEF AsRead, s
      <4> QED BY <2>3, <2>8, <3>2, <4>2
    <3> QED BY <2>4, <2>6, <2>8, <3>1, <3>3, <3>4
  <2> QED BY <2>3, <2>7, <2>8
<1> QED BY <1>5, <1>6

LEMMA HandledIsNotSkipped ==
  ASSUME FixInv, Fresh, NEW f, Handled(f) PROVE FreshIsNotSkipped'
<1> DEFINE s == open.lines
<1>1. /\ f \in open.left /\ Content(s) /\ Content(open.base)
      /\ open'.base = open.base
      /\ open'.done = open.done \cup {[finding |-> f, status |-> StatusOf(f)]}
      /\ UNCHANGED <<findings, run>>
      /\ f.rule \in {"unused-export", "stale-suppression"}
  BY InHand DEF Handled
<1>2. \A g : Excused(g) => Excused(g)'
  BY <1>1 DEF Excused, Outcome, done
<1>3. SUFFICES ASSUME EditOf(f, s) = Refuse PROVE Excused(f)
  <2> SUFFICES ASSUME NEW d \in open'.done, d.status = "skipped" PROVE Excused(d.finding)'
    BY DEF FreshIsNotSkipped
  <2>1. CASE d \in open.done
    BY <1>2, <2>1 DEF FixInv, FreshIsNotSkipped
  <2>2. CASE d = [finding |-> f, status |-> StatusOf(f)]
    <3>1. EditOf(f, s) = Refuse
      BY <2>2 DEF StatusOf, done
    <3> QED BY <1>2, <1>3, <2>2, <3>1
  <2> QED BY <1>1, <2>1, <2>2
<1>4. CASE f.rule = "unused-export"
  <2>1. CASE AsRead(f.line)
    <3>1. fix_export_line(open.base[f.line], f.name) = Refuse
      BY <1>3, <1>4, <2>1 DEF EditOf, ExportEdit, AsRead
    <3> QED BY <1>4, <3>1
            DEF Excused, fix_export_line, fix_reexport_list, Replace, RemoveLine, Refuse
  <2>2. CASE \E h \in findings : h # f /\ h.line = f.line /\ Outcome(h, done)
    BY <1>4, <2>2 DEF Excused
  <2> QED BY <1>1, <1>4, <2>1, <2>2 DEF FixInv, LeftAsRead
<1>5. CASE f.rule = "stale-suppression"
  <2>1. SUFFICES ASSUME NEW m \in DOMAIN open.base, IsDirective(open.base[m]),
                        suppression_offset(open.base, m) = f.line
                 PROVE  open.base[m].mark = "tight"
    BY <1>5 DEF Excused
  <2>2. marker_line(s, f.line) = 0
    <3>1. \A line : strip_marker(line) # Refuse
      BY DEF strip_marker, Replace, RemoveLine, Refuse
    <3> QED BY <1>3, <1>5, <3>1 DEF EditOf, remove_suppression_comment
  <2>3. /\ DOMAIN open.base = 1 .. Len(open.base) /\ Len(open.base) \in Nat
        /\ DOMAIN s = 1 .. Len(s) /\ Len(s) \in Nat
        /\ open.base[m] \in Lines
    BY <1>1 DEF Content
  <2>4. f.line # 0 /\ f.line \in Nat
    BY <2>1, <2>3 DEF suppression_offset
  <2>5. ~ HasMarker(s, f.line)
    BY <2>2, <2>4 DEF marker_line
  <2>6. ~ (f.line \in 2 .. Len(s) + 1 /\ s[f.line - 1].mark = "next")
    BY <2>2, <2>3, <2>4, <2>5 DEF marker_line
  <2>7. CASE open.base[m].mark = "next"
    <3>1. m = f.line - 1 /\ AsRead(m)
      BY <1>1, <2>1, <2>3, <2>4, <2>7 DEF FixInv, LeftAsRead, suppression_offset
    <3> QED BY <2>3, <2>4, <2>6, <2>7, <3>1 DEF AsRead
  <2>8. CASE open.base[m].mark # "next"
    <3>1. m = f.line /\ AsRead(m)
      BY <1>1, <1>5, <2>1, <2>8 DEF FixInv, LeftAsRead, suppression_offset
    <3>2. open.base[m].mark \notin {"ignore", "next", "block"}
      BY <2>5, <3>1 DEF AsRead, HasMarker
    <3>3. open.base[m].mark \in Marks
      BY <2>3, LineTypes
    <3> QED BY <2>1, <3>2, <3>3 DEF Marks, IsDirective
  <2> QED BY <2>7, <2>8
<1> QED BY <1>1, <1>4, <1>5

LEMMA EditLinesStepFix == FixInv /\ edit_lines => FixInv'
<1> SUFFICES ASSUME FixInv, edit_lines PROVE FixInv'
  OBVIOUS
<1>1. PICK f \in open.left : Handled(f)
  BY StepHandles DEF FixInv
<1>2. Inv'
  BY EditLinesStep DEF FixInv
<1>3. Content(open.lines) /\ open # Closed
  BY InHand
<1>4. Content(Remaining(f))
  BY <1>3, AppliedContent DEF Remaining
<1>5. Contentful'
  BY <1>1, <1>3, <1>4 DEF FixInv, Contentful, Handled
<1>6. AsFound'
  <2>1. PICK rule \in {"unused-export", "stale-suppression"} :
          open.left \cup {d.finding : d \in open.done} \subseteq {g \in findings : g.rule = rule}
    BY <1>3 DEF FixInv, AsFound
  <2>2. \A d \in open'.done : d \in open.done \/ d.finding = f
    BY <1>1 DEF Handled
  <2>3. open'.left \cup {d.finding : d \in open'.done} \subseteq {g \in findings' : g.rule = rule}
    BY <1>1, <2>1, <2>2 DEF Handled
  <2> QED BY <1>1, <2>3 DEF FixInv, AsFound, Found, Handled
<1>7. CASE Fresh
  <2>1. UNCHANGED run
    BY <1>1 DEF Handled
  <2> QED BY <1>1, <1>2, <1>5, <1>6, <1>7, HandledTracked, HandledLeftAsRead, HandledIsNotSkipped
          DEF FixInv
<1>8. CASE ~ Fresh
  <2>1. ~ Fresh'
    BY <1>1, <1>3, <1>8 DEF Fresh, Handled
  <2> QED BY <1>2, <1>5, <1>6, <2>1
          DEF FixInv, Tracked, LeftAsRead, FreshIsNotSkipped
<1> QED BY <1>7, <1>8

LEMMA InvarianceFix == FixInv /\ [Next]_vars => FixInv'
<1> SUFFICES ASSUME FixInv, [Next]_vars PROVE FixInv'
  OBVIOUS
<1>1. CASE fix_unused_exports
  BY <1>1, ReadStepFix DEF fix_unused_exports
<1>2. CASE fix_stale_suppressions
  BY <1>2, ReadStepFix DEF fix_stale_suppressions
<1>3. CASE UNCHANGED vars
  <2>1. Contentful' /\ AsFound'
    BY <1>3 DEF vars, FixInv, Contentful, AsFound, Found
  <2>2. UNCHANGED <<findings, indexed, open>> /\ run'.apply = run.apply
    BY <1>3 DEF vars
  <2> QED BY <1>3, <2>1, <2>2, QuietStep, Invariance DEF FixInv, AboutOpen
<1> QED BY <1>1, <1>2, <1>3, IndexStepFix, EditStepFix, BeginStepFix, UnusedFileStepFix,
          EditLinesStepFix, WriteStepFix, EndStepFix DEF Next, FixStep

\* Lines that go do not shift the findings left: of a file as it was indexed, what is in
\* memory are its lines, in their order, without the exports that are reported as fixed,
\* each gone from its own line, however often the file exports a name.
THEOREM FixesTheRightLine == Spec => []FixedIsGone
<1>1. FixInv => FixedIsGone
  BY DEF FixInv, Tracked, FixedIsGone
<1> QED BY <1>1, InitiallyFix, InvarianceFix, PTL DEF Spec

\* On a file as it was indexed fix skips nothing it could have handled.
THEOREM SkipsWithCause == Spec => []FreshIsNotSkipped
<1>1. FixInv => FreshIsNotSkipped
  BY DEF FixInv
<1> QED BY <1>1, InitiallyFix, InvarianceFix, PTL DEF Spec

--------------------------------------------------------------------------------
(* The removals from a manifest. *)

\* The first of some places is one of them, and there is no earlier one.
LEMMA FirstOfPlaces ==
  ASSUME NEW places, places \subseteq Nat, NEW none, places # {}
  PROVE  /\ First(places, none) \in places
         /\ \A i \in places : First(places, none) <= i
<1> DEFINE Less == {pair \in Nat \X Nat : pair[1] < pair[2]}
<1>5. IsWellFoundedOn(Less, Nat)
  BY NatLessThanWellFounded DEF OpToRel
<1>6. \A x, y \in Nat : y < x => <<y, x>> \in Less
  OBVIOUS
<1> HIDE DEF Less
<1>1. PICK x \in places : \A y \in places : ~(<<y, x>> \in Less)
  BY <1>5, WFMin
<1>2. \A y \in places : ~(y < x)
  BY <1>1, <1>6
<1>3. \A y \in places : x <= y
  BY <1>2
<1>4. First(places, none) = CHOOSE n \in places : \A y \in places : n <= y
  BY DEF First, Min
<1> QED BY <1>3, <1>4

\* The first of some lines, or the place after the last one.
LEMMA FirstOrBeyond ==
  ASSUME NEW n \in Nat, NEW places, places \subseteq 1 .. n
  PROVE  First(places, n + 1) \in 1 .. n + 1
<1>1. CASE places = {}
  BY <1>1 DEF First
<1>2. CASE places # {}
  <2>1. places \subseteq Nat
    OBVIOUS
  <2>2. First(places, n + 1) \in places
    BY <1>2, <2>1, FirstOfPlaces
  <2>3. \A i \in 1 .. n : i \in 1 .. n + 1
    OBVIOUS
  <2>4. First(places, n + 1) \in 1 .. n
    BY <2>2, Zenon
  <2> QED BY <2>3, <2>4, Zenon
<1> QED BY <1>1, <1>2

\* A manifest without one of its lines.
LEMMA WithoutLine ==
  ASSUME NEW m \in Seq(ManifestLines), NEW k \in DOMAIN m
  PROVE  /\ RemoveAt(m, k) \in Seq(ManifestLines)
         /\ Len(RemoveAt(m, k)) = Len(m) - 1
         /\ \A i \in 1 .. Len(m) - 1 : RemoveAt(m, k)[i] = IF i < k THEN m[i] ELSE m[i + 1]
<1> DEFINE head == SubSeq(m, 1, k - 1)
           tail == SubSeq(m, k + 1, Len(m))
<1>1. k \in Nat /\ 1 <= k /\ k <= Len(m) /\ Len(m) \in Nat
  OBVIOUS
<1>2. head \in Seq(ManifestLines) /\ Len(head) = k - 1 /\ \A i \in 1 .. k - 1 : head[i] = m[i]
  BY <1>1, SubSeqProperties
<1>3. tail \in Seq(ManifestLines) /\ Len(tail) = Len(m) - k /\ \A i \in 1 .. Len(m) - k : tail[i] = m[k + i]
  BY <1>1, SubSeqProperties
<1>4. RemoveAt(m, k) = head \o tail
  BY DEF RemoveAt
<1> HIDE DEF head, tail
<1>5. /\ head \o tail \in Seq(ManifestLines) /\ Len(head \o tail) = Len(head) + Len(tail)
      /\ \A i \in 1 .. Len(head) + Len(tail) :
           (head \o tail)[i] = IF i <= Len(head) THEN head[i] ELSE tail[i - Len(head)]
  BY <1>2, <1>3, ConcatProperties
<1>6. \A i \in 1 .. Len(m) - 1 : (head \o tail)[i] = IF i < k THEN m[i] ELSE m[i + 1]
  <2> SUFFICES ASSUME NEW i \in 1 .. Len(m) - 1
               PROVE  (head \o tail)[i] = IF i < k THEN m[i] ELSE m[i + 1]
    OBVIOUS
  <2>1. (head \o tail)[i] = IF i <= k - 1 THEN head[i] ELSE tail[i - (k - 1)]
    <3>1. i \in 1 .. Len(head) + Len(tail) /\ Len(head) = k - 1
      BY <1>1, <1>2, <1>3
    <3>2. \A j \in 1 .. Len(head) + Len(tail) :
            (head \o tail)[j] = IF j <= Len(head) THEN head[j] ELSE tail[j - Len(head)]
      BY <1>5
    <3>3. (head \o tail)[i] = IF i <= Len(head) THEN head[i] ELSE tail[i - Len(head)]
      BY <3>1, <3>2
    <3> QED BY <3>1, <3>3
  <2>2. CASE i < k
    BY <1>1, <1>2, <2>1, <2>2
  <2>3. CASE ~ (i < k)
    <3>1. i - (k - 1) \in 1 .. Len(m) - k /\ k + (i - (k - 1)) = i + 1 /\ ~ (i <= k - 1)
      BY <1>1, <2>3
    <3> QED BY <1>3, <2>1, <2>3, <3>1
  <2> QED BY <2>2, <2>3
<1>7. Len(head \o tail) = Len(m) - 1
  BY <1>1, <1>2, <1>3, <1>5
<1>8. head \o tail \in Seq(ManifestLines)
  BY <1>5
<1> QED BY <1>4, <1>6, <1>7, <1>8, Zenon

\* A manifest with one more line.
LEMMA WithLine ==
  ASSUME NEW m \in Seq(ManifestLines), NEW k \in DOMAIN m, NEW e \in ManifestLines
  PROVE  /\ InsertAt(m, k, e) \in Seq(ManifestLines)
         /\ Len(InsertAt(m, k, e)) = Len(m) + 1
         /\ \A i \in 1 .. Len(m) + 1 :
              InsertAt(m, k, e)[i] = IF i < k THEN m[i] ELSE IF i = k THEN e ELSE m[i - 1]
<1> DEFINE head == SubSeq(m, 1, k - 1)
           tail == SubSeq(m, k, Len(m))
           one == <<e>>
<1>1. k \in Nat /\ 1 <= k /\ k <= Len(m) /\ Len(m) \in Nat
  OBVIOUS
<1>2. head \in Seq(ManifestLines) /\ Len(head) = k - 1 /\ \A i \in 1 .. k - 1 : head[i] = m[i]
  BY <1>1, SubSeqProperties
<1>3. /\ tail \in Seq(ManifestLines) /\ Len(tail) = Len(m) - k + 1
      /\ \A i \in 1 .. Len(m) - k + 1 : tail[i] = m[k + i - 1]
  BY <1>1, SubSeqProperties
<1>4. one \in Seq(ManifestLines) /\ Len(one) = 1 /\ one[1] = e
  OBVIOUS
<1>5. InsertAt(m, k, e) = (head \o one) \o tail
  BY DEF InsertAt
<1> DEFINE front == head \o one
<1> HIDE DEF head, tail, one
<1>6. front \in Seq(ManifestLines) /\ Len(front) = k /\ \A i \in 1 .. k : front[i] = IF i < k THEN m[i] ELSE e
  <2>1. /\ front \in Seq(ManifestLines) /\ Len(front) = Len(head) + Len(one)
        /\ \A i \in 1 .. Len(head) + Len(one) : front[i] = IF i <= Len(head) THEN head[i] ELSE one[i - Len(head)]
    BY <1>2, <1>4, ConcatProperties
  <2> HIDE DEF front
  <2> QED BY <1>1, <1>2, <1>4, <2>1
<1>7. InsertAt(m, k, e) = front \o tail
  BY <1>5
<1> HIDE DEF front
<1> DEFINE all == front \o tail
<1>8. /\ all \in Seq(ManifestLines) /\ Len(all) = Len(front) + Len(tail)
      /\ \A i \in 1 .. Len(front) + Len(tail) : all[i] = IF i <= Len(front) THEN front[i] ELSE tail[i - Len(front)]
  BY <1>3, <1>6, ConcatProperties
<1>9. InsertAt(m, k, e) = all
  BY <1>7
<1> HIDE DEF all
<1>10. ASSUME NEW i \in 1 .. Len(m) + 1
       PROVE  all[i] = IF i < k THEN m[i] ELSE IF i = k THEN e ELSE m[i - 1]
  <2>1. i \in 1 .. Len(front) + Len(tail)
    BY <1>1, <1>3, <1>6
  <2>2. CASE i <= k
    <3>1. i \in 1 .. k /\ all[i] = front[i]
      BY <1>6, <1>8, <2>1, <2>2
    <3> QED BY <1>6, <3>1
  <2>3. CASE i > k
    <3>1. all[i] = tail[i - k] /\ i - k \in 1 .. Len(m) - k + 1
      BY <1>1, <1>6, <1>8, <2>1, <2>3
    <3>2. tail[i - k] = m[k + (i - k) - 1]
      BY <1>3, <3>1
    <3>3. k + (i - k) - 1 = i - 1
      BY <1>1
    <3>4. all[i] = m[i - 1]
      BY ONLY <3>1, <3>2, <3>3, Zenon
    <3> QED BY <1>1, <2>3, <3>4
  <2> QED BY <1>1, <2>2, <2>3
<1>11. all \in Seq(ManifestLines) /\ Len(all) = Len(m) + 1
  BY <1>1, <1>3, <1>6, <1>8
<1> QED BY <1>9, <1>10, <1>11

--------------------------------------------------------------------------------
(* The sections of a manifest, and what is in them, after an edit. *)

\* Two lines that differ in their comma at most.
Alike(l, k) == l.kind = k.kind /\ l.section = k.section /\ l.keys = k.keys

\* An entry at i of a section that starts at n.
HeldAt(m, section, package, n, i) ==
  /\ n < i
  /\ m[n].kind = "section" /\ m[n].section = section
  /\ m[i].kind = "entry" /\ m[i].keys = {package}
  /\ \A j \in DOMAIN m : n < j /\ j < i => m[j].kind = "entry"
Held(m, section, package) == \E n, i \in DOMAIN m : HeldAt(m, section, package, n, i)

\* Where a line was before another one was removed at k, or inserted.
Up(k, i) == IF i < k THEN i ELSE i + 1
Down(k, i) == IF i < k THEN i ELSE i - 1

LEMMA UpGrows ==
  ASSUME NEW k \in Int, NEW i \in Int, NEW j \in Int, i < j
  PROVE  Up(k, i) \in Int /\ Up(k, i) < Up(k, j)
<1>1. CASE i < k /\ j < k BY <1>1 DEF Up
<1>2. CASE i < k /\ ~(j < k) BY <1>2 DEF Up
<1>3. CASE ~(i < k) BY <1>3 DEF Up
<1> QED BY <1>1, <1>2, <1>3

LEMMA DownGrows ==
  ASSUME NEW k \in Int, NEW i \in Int, NEW j \in Int, i < j, i # k, j # k
  PROVE  Down(k, i) \in Int /\ Down(k, i) < Down(k, j)
<1>1. CASE i < k /\ j < k BY <1>1 DEF Down
<1>2. CASE i < k /\ ~(j < k) BY <1>2 DEF Down
<1>3. CASE ~(i < k) BY <1>3 DEF Down
<1> QED BY <1>1, <1>2, <1>3

LEMMA DownOfUp ==
  ASSUME NEW k \in Int, NEW i \in Int
  PROVE  Up(k, i) # k /\ Down(k, Up(k, i)) = i /\ (i # k => Up(k, Down(k, i)) = i)
<1>1. CASE i < k BY <1>1 DEF Up, Down
<1>2. CASE ~(i < k) BY <1>2 DEF Up, Down
<1> QED BY <1>1, <1>2

Shorter(m, k, r) ==
  /\ r \in Seq(ManifestLines) /\ Len(r) = Len(m) - 1
  /\ \A i \in 1 .. Len(m) - 1 : Alike(r[i], m[Up(k, i)])
Longer(m, k, r) ==
  /\ r \in Seq(ManifestLines) /\ Len(r) = Len(m) + 1
  /\ r[k].kind = "entry" /\ \E p \in Packages : r[k].keys = {p}
  /\ \A i \in 1 .. Len(m) + 1 : i # k => Alike(r[i], m[Down(k, i)])

\* A section keeps its brace when it loses an entry,
LEMMA ShorterIsSectioned ==
  ASSUME NEW m \in Seq(ManifestLines), NEW k \in DOMAIN m, m[k].kind = "entry", NEW r, Shorter(m, k, r),
         Sectioned(m), Distinct(m)
  PROVE  Sectioned(r) /\ Distinct(r)
<1>1. DOMAIN r = 1 .. Len(m) - 1 /\ DOMAIN m = 1 .. Len(m) /\ Len(m) \in Nat /\ k \in 1 .. Len(m)
  BY DEF Shorter
<1>2. \A i \in DOMAIN r : Alike(r[i], m[Up(k, i)]) /\ Up(k, i) \in DOMAIN m
  BY <1>1 DEF Shorter, Up
<1>3. ASSUME NEW n \in DOMAIN r, r[n].kind = "section", r[n].section \in Sections PROVE \E last \in DOMAIN r : Closes(r, n, last)
  <2>1. m[Up(k, n)].kind = "section" /\ m[Up(k, n)].section \in Sections /\ Up(k, n) \in DOMAIN m
    BY <1>2, <1>3 DEF Alike
  <2>2. PICK last \in DOMAIN m : Closes(m, Up(k, n), last)
    BY <2>1 DEF Sectioned
  <2> DEFINE to == Down(k, last)
  <2>3. last # k /\ Up(k, n) < last
    BY <2>2 DEF Closes
  <2>4. to \in DOMAIN r /\ n < to /\ Up(k, to) = last
    BY <1>1, <2>3 DEF Up, Down
  <2> HIDE DEF to
  <2>5. r[to].kind = "close"
    BY <1>2, <2>2, <2>4 DEF Closes, Alike
  <2>6. ASSUME NEW i \in n + 1 .. to - 1 PROVE r[i].kind = "entry" /\ \E p \in Packages : r[i].keys = {p}
    <3>1. i \in DOMAIN r /\ Up(k, i) \in Up(k, n) + 1 .. last - 1
      <4>1. /\ n \in Int /\ k \in Int /\ last \in Int /\ i \in Int /\ to \in Int
            /\ 1 <= n /\ n < i /\ i < to /\ to <= Len(m) - 1
        BY <1>1, <2>4
      <4>2. Up(k, n) \in Int /\ Up(k, i) \in Int /\ Up(k, n) < Up(k, i) /\ Up(k, i) < Up(k, to)
        BY <4>1, UpGrows
      <4>3. i \in DOMAIN r
        BY <1>1, <4>1
      <4>4. Up(k, i) < last /\ last \in Int
        BY <1>1, <2>4, <4>2
      <4>5. Up(k, i) \in Up(k, n) + 1 .. last - 1
        BY ONLY <4>2, <4>4
      <4> QED BY <4>3, <4>5
    <3>2. m[Up(k, i)].kind = "entry" /\ \E p \in Packages : m[Up(k, i)].keys = {p}
      BY <2>2, <3>1 DEF Closes
    <3> QED BY <1>2, <3>1, <3>2 DEF Alike
  <2> QED BY <2>4, <2>5, <2>6 DEF Closes
<1>4. ASSUME NEW n \in DOMAIN r, NEW j \in DOMAIN r, r[n].kind = "section", r[j].kind = "section",
             r[n].section \in Sections, r[n].section = r[j].section
      PROVE  n = j
  <2>1. Up(k, n) = Up(k, j)
    BY <1>2, <1>4 DEF Alike, Distinct
  <2> QED BY <1>1, <2>1 DEF Up
<1> QED BY <1>3, <1>4 DEF Sectioned, Distinct

\* and when it gets one.
LEMMA LongerIsSectioned ==
  ASSUME NEW m \in Seq(ManifestLines), NEW k \in DOMAIN m, NEW r, Longer(m, k, r), Sectioned(m), Distinct(m)
  PROVE  Sectioned(r) /\ Distinct(r)
<1>1. DOMAIN r = 1 .. Len(m) + 1 /\ DOMAIN m = 1 .. Len(m) /\ Len(m) \in Nat /\ k \in 1 .. Len(m)
  BY DEF Longer
<1>2. \A i \in DOMAIN r : i # k => Alike(r[i], m[Down(k, i)]) /\ Down(k, i) \in DOMAIN m
  BY <1>1 DEF Longer, Down
<1>3. ASSUME NEW n \in DOMAIN r, r[n].kind = "section", r[n].section \in Sections PROVE \E last \in DOMAIN r : Closes(r, n, last)
  <2>1. n # k /\ m[Down(k, n)].kind = "section" /\ m[Down(k, n)].section \in Sections /\ Down(k, n) \in DOMAIN m
    BY <1>2, <1>3 DEF Alike, Longer
  <2>2. PICK last \in DOMAIN m : Closes(m, Down(k, n), last)
    BY <2>1 DEF Sectioned
  <2>3. Up(k, last) \in DOMAIN r /\ n < Up(k, last) /\ Up(k, last) # k /\ Down(k, Up(k, last)) = last
    BY <1>1, <2>1, <2>2 DEF Closes, Up, Down
  <2>4. r[Up(k, last)].kind = "close"
    BY <1>2, <2>2, <2>3 DEF Closes, Alike
  <2>5. ASSUME NEW i \in n + 1 .. Up(k, last) - 1 PROVE r[i].kind = "entry" /\ \E p \in Packages : r[i].keys = {p}
    <3>1. CASE i = k
      BY <3>1 DEF Longer
    <3>2. CASE i # k
      <4>1. i \in DOMAIN r /\ Down(k, i) \in Down(k, n) + 1 .. last - 1
        <5>1. /\ n \in Int /\ k \in Int /\ last \in Int /\ i \in Int /\ Up(k, last) \in Int
              /\ 1 <= n /\ n < i /\ i < Up(k, last) /\ Up(k, last) <= Len(m) + 1
          BY <1>1, <2>3
        <5>2. Down(k, n) \in Int /\ Down(k, i) \in Int /\ Down(k, n) < Down(k, i) /\ Down(k, i) < Down(k, Up(k, last))
          BY <2>1, <2>3, <3>2, <5>1, DownGrows
        <5>3. i \in DOMAIN r
          BY <1>1, <5>1
        <5>4. Down(k, i) < last /\ last \in Int
          BY <1>1, <2>3, <5>2
        <5>5. Down(k, i) \in Down(k, n) + 1 .. last - 1
          BY ONLY <5>2, <5>4
        <5> QED BY <5>3, <5>5
      <4>2. m[Down(k, i)].kind = "entry" /\ \E p \in Packages : m[Down(k, i)].keys = {p}
        BY <2>2, <4>1 DEF Closes
      <4> QED BY <1>2, <3>2, <4>1, <4>2 DEF Alike
    <3> QED BY <3>1, <3>2
  <2> QED BY <2>3, <2>4, <2>5 DEF Closes
<1>4. ASSUME NEW n \in DOMAIN r, NEW j \in DOMAIN r, r[n].kind = "section", r[j].kind = "section",
             r[n].section \in Sections, r[n].section = r[j].section
      PROVE  n = j
  <2>1. n # k /\ j # k
    BY <1>4 DEF Longer
  <2>2. Down(k, n) = Down(k, j)
    BY <1>2, <1>4, <2>1 DEF Alike, Distinct
  <2> QED BY <1>1, <2>1, <2>2 DEF Down
<1> QED BY <1>3, <1>4 DEF Sectioned, Distinct

\* What the section holds stays but for the line that went, which one section held.
LEMMA HeldElsewhere ==
  ASSUME NEW m \in Seq(ManifestLines), Distinct(m), NEW s, NEW p, NEW t, NEW q,
         NEW n \in DOMAIN m, NEW l \in DOMAIN m, NEW i \in DOMAIN m,
         HeldAt(m, s, p, n, i), HeldAt(m, t, q, l, i)
  PROVE  s = t /\ p = q
<1>1. n \in Int /\ l \in Int /\ i \in Int
  OBVIOUS
<1>2. ~(n < l) /\ ~(l < n)
  BY <1>1 DEF HeldAt
<1>3. n = l
  BY <1>1, <1>2
<1>4. {p} = {q}
  BY DEF HeldAt
<1> QED BY <1>3, <1>4 DEF HeldAt

LEMMA HeldAfterRemoval ==
  ASSUME NEW m \in Seq(ManifestLines), NEW k \in DOMAIN m, NEW r, Shorter(m, k, r), Distinct(m),
         NEW s, NEW p, NEW l \in DOMAIN m, HeldAt(m, s, p, l, k),
         NEW t, NEW q, Held(m, t, q), t # s \/ q # p
  PROVE  Held(r, t, q)
<1>1. DOMAIN r = 1 .. Len(m) - 1 /\ DOMAIN m = 1 .. Len(m) /\ Len(m) \in Nat /\ k \in 1 .. Len(m)
  BY DEF Shorter
<1>2. \A i \in DOMAIN r : Alike(r[i], m[Up(k, i)])
  BY <1>1 DEF Shorter
<1>3. PICK n \in DOMAIN m, i \in DOMAIN m : HeldAt(m, t, q, n, i)
  BY DEF Held
<1>4. i # k
  BY <1>3, HeldElsewhere
<1>5. n # k
  BY <1>3 DEF HeldAt
<1>6. n < i
  BY <1>3 DEF HeldAt
<1>7. /\ Down(k, n) \in DOMAIN r /\ Up(k, Down(k, n)) = n
      /\ Down(k, i) \in DOMAIN r /\ Up(k, Down(k, i)) = i
  BY <1>1, <1>4, <1>5, <1>6 DEF Up, Down
<1>8. n \in Int /\ i \in Int /\ k \in Int
  BY <1>1
<1>9. Down(k, n) < Down(k, i)
  BY <1>4, <1>5, <1>6, <1>8, DownGrows
<1>10. ASSUME NEW j \in DOMAIN r, Down(k, n) < j, j < Down(k, i) PROVE r[j].kind = "entry"
  <2>1. Down(k, n) \in Int /\ Down(k, i) \in Int /\ j \in Int
    BY <1>1, <1>7
  <2>2. n < Up(k, j) /\ Up(k, j) < i
    BY <1>7, <1>8, <1>10, <2>1, UpGrows
  <2>3. Up(k, j) \in DOMAIN m
    BY <1>1 DEF Up
  <2> QED BY <1>2, <1>3, <2>2, <2>3 DEF HeldAt, Alike
<1>11. HeldAt(r, t, q, Down(k, n), Down(k, i))
  BY <1>2, <1>3, <1>7, <1>9, <1>10 DEF HeldAt, Alike
<1> QED BY <1>7, <1>11 DEF Held

LEMMA HeldAfterInsertion ==
  ASSUME NEW m \in Seq(ManifestLines), NEW k \in DOMAIN m, NEW r, Longer(m, k, r), NEW t, NEW q, Held(m, t, q)
  PROVE  Held(r, t, q)
<1>1. DOMAIN r = 1 .. Len(m) + 1 /\ DOMAIN m = 1 .. Len(m) /\ Len(m) \in Nat /\ k \in 1 .. Len(m)
  BY DEF Longer
<1>2. \A i \in DOMAIN r : i # k => Alike(r[i], m[Down(k, i)])
  BY <1>1 DEF Longer
<1>3. PICK n \in DOMAIN m, i \in DOMAIN m : HeldAt(m, t, q, n, i)
  BY DEF Held
<1>4. n < i /\ n \in Int /\ i \in Int /\ k \in Int
  BY <1>1, <1>3 DEF HeldAt
<1>5. /\ Up(k, n) \in DOMAIN r /\ Down(k, Up(k, n)) = n /\ Up(k, n) # k
      /\ Up(k, i) \in DOMAIN r /\ Down(k, Up(k, i)) = i /\ Up(k, i) # k
  <2>1. Up(k, n) \in DOMAIN r /\ Up(k, i) \in DOMAIN r
    BY <1>1 DEF Up
  <2> QED BY <1>4, <2>1, DownOfUp
<1>6. Up(k, n) < Up(k, i)
  BY <1>4, UpGrows
<1>7. ASSUME NEW j \in DOMAIN r, Up(k, n) < j, j < Up(k, i) PROVE r[j].kind = "entry"
  <2>1. CASE j = k
    BY <2>1 DEF Longer
  <2>2. CASE j # k
    <3>1. Up(k, n) \in Int /\ Up(k, i) \in Int /\ j \in Int
      BY <1>1, <1>5
    <3>2. Down(k, Up(k, n)) < Down(k, j) /\ Down(k, j) < Down(k, Up(k, i))
      BY <1>4, <1>5, <1>7, <2>2, <3>1, DownGrows
    <3>3. n < Down(k, j) /\ Down(k, j) < i
      BY <1>5, <3>2
    <3>4. Down(k, j) \in DOMAIN m
      BY <1>1, <2>2 DEF Down
    <3> QED BY <1>2, <1>3, <2>2, <3>3, <3>4 DEF HeldAt, Alike
  <2> QED BY <2>1, <2>2
<1>8. HeldAt(r, t, q, Up(k, n), Up(k, i))
  BY <1>2, <1>3, <1>5, <1>6, <1>7 DEF HeldAt, Alike
<1> QED BY <1>5, <1>8 DEF Held

--------------------------------------------------------------------------------
(* Which sections go over several lines does not change. *)

LEMMA ShorterIsMultiline ==
  ASSUME NEW m \in Seq(ManifestLines), NEW k \in DOMAIN m, NEW r, Shorter(m, k, r), Multiline(m)
  PROVE  Multiline(r)
<1>1. \A i \in DOMAIN r : Alike(r[i], m[Up(k, i)]) /\ Up(k, i) \in DOMAIN m
  BY DEF Shorter, Up
<1> QED BY <1>1 DEF Multiline, Alike

LEMMA LongerIsMultiline ==
  ASSUME NEW m \in Seq(ManifestLines), NEW k \in DOMAIN m, NEW r, Longer(m, k, r)
  PROVE  Multiline(r) <=> Multiline(m)
<1>1. DOMAIN r = 1 .. Len(m) + 1 /\ DOMAIN m = 1 .. Len(m) /\ Len(m) \in Nat /\ k \in 1 .. Len(m)
  BY DEF Longer
<1>2. \A i \in DOMAIN r : i # k => Alike(r[i], m[Down(k, i)]) /\ Down(k, i) \in DOMAIN m
  BY <1>1 DEF Longer, Down
<1>3. r[k].kind # "inline"
  BY DEF Longer
<1>4. ASSUME Multiline(m) PROVE Multiline(r)
  BY <1>2, <1>3, <1>4 DEF Multiline, Alike
<1>5. ASSUME Multiline(r), NEW i \in DOMAIN m, m[i].kind = "inline" PROVE m[i].section \notin Sections
  <2>1. i \in Int /\ k \in Int /\ Up(k, i) \in DOMAIN r
    BY <1>1 DEF Up
  <2>2. Up(k, i) # k /\ Down(k, Up(k, i)) = i
    BY <2>1, DownOfUp
  <2> QED BY <1>2, <1>5, <2>1, <2>2 DEF Multiline, Alike
<1> QED BY <1>4, <1>5 DEF Multiline

\* What the index reads of a manifest over several lines is what its sections hold.
LEMMA KeysAreHeld ==
  ASSUME NEW m \in Seq(ManifestLines), WellFormed(m), Multiline(m), NEW s \in Sections, NEW p \in Keys(m, s)
  PROVE  Held(m, s, p)
<1>1. PICK n \in DOMAIN m : /\ IsHeader(m[n], s)
                            /\ p \in IF m[n].kind = "inline" THEN m[n].keys ELSE UNION {m[i].keys : i \in BlockOf(m, n)}
  BY DEF Keys
<1>2. m[n].kind = "section" /\ m[n].section = s
  BY <1>1 DEF IsHeader, Multiline
<1>3. PICK i \in BlockOf(m, n) : p \in m[i].keys
  BY <1>1, <1>2
<1>4. PICK last \in DOMAIN m : Closes(m, n, last)
  BY <1>2 DEF WellFormed, Sectioned
<1>5. DOMAIN m = 1 .. Len(m) /\ Len(m) \in Nat /\ n \in Int /\ last \in Int /\ n < last /\ m[last].kind = "close"
  BY <1>4 DEF Closes
<1>6. closing_brace(m, n) \in Int /\ closing_brace(m, n) <= last
  <2> DEFINE places == {x \in n .. Len(m) : m[x].kind = "close"}
  <2>1. last \in places /\ places \subseteq Nat
    BY <1>5
  <2>2. closing_brace(m, n) = First(places, Len(m) + 1)
    BY DEF closing_brace
  <2> HIDE DEF places
  <2>3. First(places, Len(m) + 1) \in places /\ First(places, Len(m) + 1) <= last
    BY <2>1, FirstOfPlaces
  <2> QED BY <2>1, <2>2, <2>3
<1>8. i \in DOMAIN m /\ i \in Int /\ n < i /\ i < last
  BY <1>3, <1>5, <1>6 DEF BlockOf
<1>9. \A j \in DOMAIN m : n < j /\ j < last => m[j].kind = "entry" /\ \E q \in Packages : m[j].keys = {q}
  <2>1. \A j \in DOMAIN m : n < j /\ j < last => j \in n + 1 .. last - 1
    BY <1>5
  <2> QED BY <1>4, <2>1 DEF Closes
<1>10. m[i].kind = "entry" /\ m[i].keys = {p}
  BY <1>3, <1>8, <1>9
<1>11. HeldAt(m, s, p, n, i)
  BY <1>2, <1>5, <1>8, <1>9, <1>10 DEF HeldAt
<1> QED BY <1>8, <1>11 DEF Held

--------------------------------------------------------------------------------
(* The two edits of a manifest. *)

\* Without the entry at k every line still has its comma exactly if no brace follows.
LEMMA CommasAfterRemoval ==
  ASSUME NEW m \in Seq(ManifestLines), Parses(m), NEW n \in DOMAIN m, m[n].kind = "section",
         NEW k \in DOMAIN m, n < k, k < Len(m), m[k].kind = "entry",
         \A j \in DOMAIN m : n < j /\ j < k => m[j].kind = "entry"
  PROVE  Shorter(m, k, without_entry(m, n, k)) /\ Parses(without_entry(m, n, k))
<1> DEFINE drops == ~m[k].comma /\ k > n + 1
           m2 == IF drops THEN [m EXCEPT ![k - 1].comma = FALSE] ELSE m
           r == RemoveAt(m2, k)
<1>1. Len(m) \in Nat /\ DOMAIN m = 1 .. Len(m) /\ k \in Int /\ n \in Int /\ 1 <= n /\ n < k /\ k < Len(m)
  OBVIOUS
<1>2. without_entry(m, n, k) = r
  BY DEF without_entry
<1>3. /\ m2 \in Seq(ManifestLines) /\ Len(m2) = Len(m)
      /\ \A i \in DOMAIN m : /\ Alike(m2[i], m[i])
                             /\ m2[i].comma = IF drops /\ i = k - 1 THEN FALSE ELSE m[i].comma
  <2>1. CASE drops
    <3>1. m2 = [m EXCEPT ![k - 1].comma = FALSE] /\ k - 1 \in DOMAIN m
      BY <1>1, <2>1
    <3>2. \A i \in DOMAIN m : m[i] \in ManifestLines
      OBVIOUS
    <3>3. [m[k - 1] EXCEPT !.comma = FALSE] \in ManifestLines
      BY <3>1, <3>2 DEF ManifestLines
    <3>4. m2 \in Seq(ManifestLines) /\ Len(m2) = Len(m)
      BY <3>1, <3>3
    <3>5. \A i \in DOMAIN m : m2[i] = IF i = k - 1 THEN [m[i] EXCEPT !.comma = FALSE] ELSE m[i]
      BY <3>1
    <3>6. \A i \in DOMAIN m : Alike(m2[i], m[i]) /\ (i = k - 1 => m2[i].comma = FALSE)
      BY <3>2, <3>5 DEF Alike, ManifestLines
    <3> QED BY <2>1, <3>4, <3>5, <3>6
  <2>2. CASE ~drops
    <3>1. m2 = m
      BY <2>2
    <3> HIDE DEF m2
    <3>2. \A i \in DOMAIN m : Alike(m2[i], m[i])
      BY <3>1 DEF Alike
    <3> QED BY <2>2, <3>1, <3>2
  <2> QED BY <2>1, <2>2
<1> HIDE DEF m2, drops
<1>4. /\ r \in Seq(ManifestLines) /\ Len(r) = Len(m) - 1
      /\ \A i \in 1 .. Len(m) - 1 : (i < k => r[i] = m2[i]) /\ (i >= k => r[i] = m2[i + 1])
  <2>1. k \in DOMAIN m2
    BY <1>1, <1>3
  <2>2. /\ r \in Seq(ManifestLines) /\ Len(r) = Len(m) - 1
        /\ \A i \in 1 .. Len(m) - 1 : r[i] = IF i < k THEN m2[i] ELSE m2[i + 1]
    <3>1. m2 \in Seq(ManifestLines) /\ Len(m2) = Len(m)
      BY <1>3
    <3>2. /\ r \in Seq(ManifestLines) /\ Len(r) = Len(m2) - 1
          /\ \A i \in 1 .. Len(m2) - 1 : r[i] = IF i < k THEN m2[i] ELSE m2[i + 1]
      BY <2>1, <3>1, WithoutLine
    <3> QED BY <3>1, <3>2
  <2> HIDE DEF r
  <2> QED BY <1>1, <2>2
<1> HIDE DEF r
<1>5. Shorter(m, k, r)
  <2>1. \A i \in 1 .. Len(m) - 1 : Up(k, i) \in DOMAIN m /\ r[i] = m2[Up(k, i)]
    BY <1>1, <1>4 DEF Up
  <2> QED BY <1>3, <1>4, <2>1 DEF Shorter
<1>6. \A i \in 1 .. Len(m) - 1 : m[i].kind # "section" => (m[i].comma <=> m[i + 1].kind # "close")
  BY DEF Parses
<1>7. ASSUME NEW i \in 1 .. Len(r) - 1, r[i].kind # "section"
      PROVE  r[i].comma <=> r[i + 1].kind # "close"
  <2>1. i \in 1 .. Len(m) - 1 /\ i + 1 \in 1 .. Len(m) - 1
    BY <1>1, <1>4
  <2>2. CASE i >= k
    <3> DEFINE x == i + 1
    <3>1. x \in 1 .. Len(m) - 1 /\ x \in DOMAIN m /\ x + 1 \in DOMAIN m /\ x > k
      BY <1>1, <2>1, <2>2
    <3>2. r[i] = m2[x] /\ r[i + 1] = m2[x + 1]
      BY <1>4, <2>1, <2>2, <3>1
    <3> HIDE DEF x
    <3>3. x # k - 1
      BY <1>1, <3>1
    <3>4. m2[x].comma = m[x].comma /\ m2[x].kind = m[x].kind /\ m2[x + 1].kind = m[x + 1].kind
      BY <1>3, <3>1, <3>3 DEF Alike
    <3> QED BY <1>6, <1>7, <3>1, <3>2, <3>4
  <2>3. CASE i + 1 < k
    <3>1. r[i] = m2[i] /\ r[i + 1] = m2[i + 1]
      <4>1. i < k
        BY <2>1, <2>3
      <4> QED BY <1>4, <2>1, <2>3, <4>1
    <3>2. i \in DOMAIN m /\ i + 1 \in DOMAIN m /\ i # k - 1
      BY <1>1, <2>1, <2>3
    <3>3. m2[i].comma = m[i].comma /\ m2[i].kind = m[i].kind /\ m2[i + 1].kind = m[i + 1].kind
      BY <1>3, <3>2 DEF Alike
    <3> QED BY <1>6, <1>7, <2>1, <3>1, <3>3
  <2>4. CASE i + 1 = k
    <3>1. i < k /\ i \in DOMAIN m /\ k + 1 \in DOMAIN m /\ k \in 1 .. Len(m) - 1 /\ i = k - 1
      <4>1. i \in Int /\ i < k /\ i = k - 1 /\ 1 <= i
        BY <1>1, <2>1, <2>4
      <4>2. k + 1 \in 1 .. Len(m) /\ k \in 1 .. Len(m) - 1 /\ i \in 1 .. Len(m)
        BY ONLY <1>1, <4>1
      <4> QED BY <1>1, <4>1, <4>2
    <3>2. r[i] = m2[i] /\ r[k] = m2[k + 1]
      <4>1. k >= k
        BY <1>1
      <4>2. r[k] = m2[k + 1]
        BY <1>4, <3>1, <4>1
      <4> QED BY <1>4, <2>1, <3>1, <4>2
    <3>3. m2[i].kind = m[i].kind /\ m2[k + 1].kind = m[k + 1].kind
      BY <1>3, <3>1 DEF Alike
    <3>4. m[i].kind # "section"
      BY <1>7, <3>2, <3>3
    <3>5. k > n + 1
      BY <1>1, <2>1, <2>4, <3>4
    <3>6. m[i].comma <=> m[k].kind # "close"
      BY <1>6, <2>1, <2>4, <3>4
    <3>7. m[k].comma <=> m[k + 1].kind # "close"
      BY <1>6, <3>1
    <3>8. m2[i].comma = IF drops THEN FALSE ELSE m[i].comma
      BY <1>3, <3>1
    <3>9. drops <=> ~m[k].comma
      BY <3>5 DEF drops
    <3>10. m2[i].comma <=> m[k + 1].kind # "close"
      BY <3>6, <3>7, <3>8, <3>9
    <3> QED BY <2>4, <3>2, <3>3, <3>10
  <2> QED BY <1>1, <2>1, <2>2, <2>3, <2>4
<1>8. Parses(r)
  BY <1>7 DEF Parses
<1> QED BY <1>2, <1>5, <1>8

\* An entry of a section is found and taken out, and every other one stays.
LEMMA RemovalWorks ==
  ASSUME NEW m \in Seq(ManifestLines), WellFormed(m), Multiline(m), NEW s \in Sections, NEW p, Held(m, s, p)
  PROVE  LET amended == remove_manifest_key(m, s, p)
         IN /\ amended.ok /\ WellFormed(amended.manifest) /\ Multiline(amended.manifest)
            /\ \A t, q : Held(m, t, q) /\ (t # s \/ q # p) => Held(amended.manifest, t, q)
<1>1. PICK n \in DOMAIN m, i \in DOMAIN m : HeldAt(m, s, p, n, i)
  BY DEF Held
<1>2. Len(m) \in Nat /\ DOMAIN m = 1 .. Len(m) /\ n \in Int /\ i \in Int /\ n < i
  BY <1>1 DEF HeldAt
<1>3. section_start(m, s) = n
  <2> DEFINE places == {x \in DOMAIN m : IsHeader(m[x], s)}
  <2>1. n \in places /\ places \subseteq Nat
    BY <1>1, <1>2 DEF HeldAt, IsHeader
  <2>2. \A x \in places : m[x].kind = "section" /\ m[x].section = s
    BY DEF Multiline, IsHeader
  <2>3. \A x \in places : x = n
    BY <1>1, <2>2 DEF WellFormed, Distinct, HeldAt
  <2>4. section_start(m, s) = First(places, Len(m) + 1)
    BY DEF section_start
  <2> HIDE DEF places
  <2>5. First(places, Len(m) + 1) \in places
    BY <2>1, FirstOfPlaces
  <2> QED BY <2>3, <2>4, <2>5
<1>4. PICK last \in DOMAIN m : Closes(m, n, last)
  BY <1>1 DEF WellFormed, Sectioned, HeldAt
<1>5. n < last /\ last \in Int /\ m[last].kind = "close" /\ \A x \in DOMAIN m : n < x /\ x < last => m[x].kind = "entry"
  <2>1. \A x \in DOMAIN m : n < x /\ x < last => x \in n + 1 .. last - 1
    BY <1>2
  <2> QED BY <1>2, <1>4, <2>1 DEF Closes
<1>6. closing_brace(m, n) = last
  <2> DEFINE places == {x \in n .. Len(m) : m[x].kind = "close"}
  <2>1. last \in places /\ places \subseteq Nat
    BY <1>2, <1>5
  <2>2. \A x \in places : x \in DOMAIN m /\ ~(x < last)
    BY <1>1, <1>2, <1>5 DEF HeldAt
  <2>3. closing_brace(m, n) = First(places, Len(m) + 1)
    BY DEF closing_brace
  <2> HIDE DEF places
  <2>4. First(places, Len(m) + 1) \in places /\ First(places, Len(m) + 1) <= last
    BY <2>1, FirstOfPlaces
  <2> QED BY <1>5, <2>1, <2>2, <2>3, <2>4
<1>7. i < last
  BY <1>1, <1>2, <1>5 DEF HeldAt
<1> DEFINE places == {x \in n + 1 .. last - 1 : m[x].kind = "entry" /\ m[x].keys = {p}}
           key == First(places, last)
<1>8. key \in places
  <2>1. i \in places /\ places \subseteq Nat
    BY <1>1, <1>2, <1>5, <1>7 DEF HeldAt
  <2> HIDE DEF places
  <2> QED BY <2>1, FirstOfPlaces
<1> HIDE DEF key
<1>9. key \in DOMAIN m /\ n < key /\ key < last /\ key < Len(m) /\ m[key].kind = "entry" /\ m[key].keys = {p}
  BY <1>2, <1>5, <1>8
<1>10. \A x \in DOMAIN m : n < x /\ x < key => m[x].kind = "entry"
  BY <1>2, <1>5, <1>9
<1>11. HeldAt(m, s, p, n, key)
  BY <1>1, <1>9, <1>10 DEF HeldAt
<1> DEFINE r == without_entry(m, n, key)
<1>12. Shorter(m, key, r) /\ Parses(r)
  BY <1>1, <1>9, <1>10, CommasAfterRemoval DEF HeldAt, WellFormed
<1>13. remove_manifest_key(m, s, p) = Kept(r)
  <2>1. ~(n > Len(m) \/ key >= last)
    BY <1>2, <1>5, <1>9
  <2> QED BY <1>3, <1>6, <2>1 DEF remove_manifest_key, key
<1> HIDE DEF r
<1>14. Sectioned(r) /\ Distinct(r) /\ Multiline(r)
  BY <1>9, <1>12, ShorterIsSectioned, ShorterIsMultiline DEF WellFormed
<1>15. \A t, q : Held(m, t, q) /\ (t # s \/ q # p) => Held(r, t, q)
  BY <1>9, <1>11, <1>12, HeldAfterRemoval DEF WellFormed
<1>16. Kept(r).ok /\ Kept(r).manifest = r
  BY <1>12 DEF Kept
<1> QED BY <1>12, <1>13, <1>14, <1>15, <1>16 DEF WellFormed

\* A package that is declared is a line more, and takes no other line away.
LEMMA InsertionWorks ==
  ASSUME NEW m \in Seq(ManifestLines), NEW s, NEW p \in Packages, insert_manifest_key(m, s, p).ok
  PROVE  LET amended == insert_manifest_key(m, s, p).manifest
         IN \E k \in DOMAIN m : Longer(m, k, amended) /\ Parses(amended)
<1> DEFINE start == section_start(m, s)
           end == closing_brace(m, start + 1)
           at == insertion_point(m, start, end, p)
           m2 == [m EXCEPT ![end - 1].comma = TRUE]
           r == IF at = end THEN InsertAt(m2, end, Entry(p, FALSE)) ELSE InsertAt(m, at, Entry(p, TRUE))
<1>1. ~(start > Len(m) \/ m[start].kind = "inline" \/ end > Len(m) \/ end = start + 1)
  BY DEF insert_manifest_key, Refused
<1>2. insert_manifest_key(m, s, p) = Kept(r)
  BY <1>1 DEF insert_manifest_key
<1>3. insert_manifest_key(m, s, p).manifest = r /\ Parses(r)
  <2> HIDE DEF r
  <2>1. Kept(r).ok
    BY <1>2
  <2>2. Parses(r) /\ Kept(r).manifest = r
    BY <2>1 DEF Kept, Refused
  <2> QED BY <1>2, <2>2
<1>4. Len(m) \in Nat /\ DOMAIN m = 1 .. Len(m)
  OBVIOUS
<1>5. start \in 1 .. Len(m)
  <2> DEFINE places == {x \in DOMAIN m : IsHeader(m[x], s)}
  <2>1. start = First(places, Len(m) + 1) /\ places \subseteq Nat
    BY <1>4 DEF section_start
  <2>2. places # {}
    BY <1>1, <1>4, <2>1 DEF First
  <2>3. start \in places
    <3> HIDE DEF places, start
    <3> QED BY <2>1, <2>2, FirstOfPlaces
  <2> QED BY <1>4, <2>3
<1> HIDE DEF start
<1>6. end \in start + 1 .. Len(m)
  <2> DEFINE places == {x \in start + 1 .. Len(m) : m[x].kind = "close"}
  <2>1. end = First(places, Len(m) + 1) /\ places \subseteq Nat
    BY <1>5 DEF closing_brace
  <2>2. places # {}
    BY <1>1, <1>4, <2>1 DEF First
  <2>3. end \in places
    <3> HIDE DEF places, end
    <3> QED BY <2>1, <2>2, FirstOfPlaces
  <2> QED BY <2>3
<1> HIDE DEF end
<1>7. at \in start + 1 .. end
  <2> DEFINE places == {x \in start + 1 .. end - 1 : \E k \in m[x].keys : k > p}
  <2>1. at = First(places, end) /\ places \subseteq Nat
    BY <1>5, <1>6 DEF insertion_point
  <2>2. places # {} => at \in places
    <3> HIDE DEF places, at
    <3> QED BY <2>1, FirstOfPlaces
  <2>3. places = {} => at = end
    BY <2>1 DEF First
  <2> QED BY <1>1, <1>4, <1>5, <1>6, <2>2, <2>3
<1> HIDE DEF at
<1>8. \A comma \in BOOLEAN : Entry(p, comma) \in ManifestLines
  BY DEF Entry, ManifestLines
<1>9. /\ m2 \in Seq(ManifestLines) /\ Len(m2) = Len(m)
      /\ \A x \in DOMAIN m : Alike(m2[x], m[x])
  <2>1. end - 1 \in DOMAIN m /\ \A x \in DOMAIN m : m[x] \in ManifestLines
    BY <1>4, <1>5, <1>6
  <2>2. [m[end - 1] EXCEPT !.comma = TRUE] \in ManifestLines
    BY <2>1 DEF ManifestLines
  <2>3. m2 \in Seq(ManifestLines) /\ Len(m2) = Len(m)
    BY <2>1, <2>2
  <2>4. \A x \in DOMAIN m : m2[x] = IF x = end - 1 THEN [m[x] EXCEPT !.comma = TRUE] ELSE m[x]
    BY <2>1
  <2> QED BY <2>1, <2>3, <2>4 DEF Alike, ManifestLines
<1> HIDE DEF m2
<1>10. ASSUME NEW b \in Seq(ManifestLines), Len(b) = Len(m), \A x \in DOMAIN m : Alike(b[x], m[x]),
              NEW k \in DOMAIN m, NEW comma \in BOOLEAN
       PROVE  Longer(m, k, InsertAt(b, k, Entry(p, comma)))
  <2> DEFINE e == Entry(p, comma)
             c == InsertAt(b, k, e)
  <2>1. e \in ManifestLines /\ e.kind = "entry" /\ e.keys = {p}
    BY <1>8 DEF Entry
  <2>2. k \in DOMAIN b
    BY <1>4, <1>10
  <2> HIDE DEF e
  <2>8. /\ c \in Seq(ManifestLines) /\ Len(c) = Len(b) + 1
        /\ \A x \in 1 .. Len(b) + 1 : c[x] = IF x < k THEN b[x] ELSE IF x = k THEN e ELSE b[x - 1]
    BY <2>1, <2>2, WithLine
  <2>3. /\ c \in Seq(ManifestLines) /\ Len(c) = Len(m) + 1
        /\ \A x \in 1 .. Len(m) + 1 : c[x] = IF x < k THEN b[x] ELSE IF x = k THEN e ELSE b[x - 1]
    BY <1>10, <2>8
  <2> HIDE DEF c
  <2>4. c[k] = e
    BY <1>4, <2>3
  <2>5. \A x \in 1 .. Len(m) + 1 : x # k => c[x] = b[Down(k, x)] /\ Down(k, x) \in DOMAIN m
    BY <1>4, <2>3 DEF Down
  <2>6. \A x \in 1 .. Len(m) + 1 : x # k => Alike(c[x], m[Down(k, x)])
    BY <1>10, <2>5
  <2>7. Longer(m, k, c)
    BY <2>1, <2>3, <2>4, <2>6 DEF Longer
  <2> QED BY <2>7 DEF c, e
<1>11. CASE at = end
  <2>1. end \in DOMAIN m
    BY <1>4, <1>5, <1>6
  <2>2. Longer(m, end, InsertAt(m2, end, Entry(p, FALSE)))
    BY <1>9, <1>10, <2>1
  <2>3. Longer(m, end, r)
    BY <1>11, <2>2
  <2> QED BY <1>3, <2>1, <2>3
<1>12. CASE at # end
  <2>1. at \in DOMAIN m
    BY <1>4, <1>5, <1>6, <1>7
  <2>2. Longer(m, at, InsertAt(m, at, Entry(p, TRUE)))
    BY <1>10, <2>1 DEF Alike
  <2>3. Longer(m, at, r)
    BY <1>12, <2>2
  <2> QED BY <1>3, <2>1, <2>3
<1> QED BY <1>11, <1>12

\* Whatever is removed, what is left is lines.
LEMMA RemovalTypes ==
  ASSUME NEW m \in Seq(ManifestLines), NEW s, NEW p, remove_manifest_key(m, s, p).ok
  PROVE  remove_manifest_key(m, s, p).manifest \in Seq(ManifestLines)
<1> DEFINE start == section_start(m, s)
           end == closing_brace(m, start)
           places == {i \in start + 1 .. end - 1 : m[i].kind = "entry" /\ m[i].keys = {p}}
           key == First(places, end)
           m2 == [m EXCEPT ![key - 1].comma = FALSE]
           r == without_entry(m, start, key)
<1>1. start \in Nat /\ start >= 1
  <2>1. Len(m) \in Nat /\ {x \in DOMAIN m : IsHeader(m[x], s)} \subseteq 1 .. Len(m)
    OBVIOUS
  <2>2. start \in 1 .. Len(m) + 1
    BY <2>1, FirstOrBeyond DEF section_start
  <2> HIDE DEF start
  <2> QED BY <2>1, <2>2
<1>2. ~(start > Len(m) \/ key >= end) /\ remove_manifest_key(m, s, p) = Kept(r)
  BY DEF remove_manifest_key, Refused
<1> HIDE DEF start
<1>3. end \in Nat /\ end <= Len(m) + 1
  <2>1. Len(m) \in Nat /\ {x \in start .. Len(m) : m[x].kind = "close"} \subseteq 1 .. Len(m)
    BY <1>1
  <2>2. end \in 1 .. Len(m) + 1
    BY <2>1, FirstOrBeyond DEF closing_brace
  <2> HIDE DEF end
  <2> QED BY <2>1, <2>2
<1> HIDE DEF end
<1>4. key \in places
  <2>1. places \subseteq Nat
    BY <1>1
  <2>2. places # {}
    BY <1>2, <1>3 DEF First
  <2> HIDE DEF places
  <2> QED BY <2>1, <2>2, FirstOfPlaces
<1>5. key \in DOMAIN m /\ key - 1 \in DOMAIN m
  BY <1>1, <1>3, <1>4
<1> HIDE DEF key
<1>6. m2 \in Seq(ManifestLines) /\ Len(m2) = Len(m)
  <2>1. m[key - 1] \in ManifestLines
    BY <1>5
  <2>2. [m[key - 1] EXCEPT !.comma = FALSE] \in ManifestLines
    BY <2>1 DEF ManifestLines
  <2> QED BY <1>5, <2>2
<1>7. key \in DOMAIN m2
  BY <1>5, <1>6
<1> HIDE DEF m2
<1>8. RemoveAt(m, key) \in Seq(ManifestLines) /\ RemoveAt(m2, key) \in Seq(ManifestLines)
  BY <1>5, <1>6, <1>7, WithoutLine
<1>9. r \in Seq(ManifestLines)
  BY <1>8 DEF without_entry, m2
<1> HIDE DEF r
<1>10. Kept(r).ok
  BY <1>2
<1>11. Kept(r).manifest = r
  BY <1>10 DEF Kept, Refused
<1> QED BY <1>2, <1>9, <1>11

--------------------------------------------------------------------------------
(* The inductive invariant. *)

Reports ==
  [fix : {"declare", "remove"}, section : Sections \cup {"dependencies"}, package : Packages,
   status : {"planned", "fixed", "skipped", "write failed"}]

FixTypes ==
  /\ manifest \in Seq(ManifestLines) /\ base \in Seq(ManifestLines) /\ copy \in Seq(ManifestLines)
  /\ unlisted \subseteq Packages /\ unused \subseteq Sections \X Packages
  /\ reported \subseteq Reports

\* The removals start from the manifest that the insertions left,
ReadAfresh == unlisted # {} => base = manifest /\ copy = manifest

\* and what is still to be removed is an entry of a section of the copy.
StillRemovable ==
  Multiline(base) =>
    /\ WellFormed(manifest) /\ Multiline(manifest)
    /\ WellFormed(copy) /\ Multiline(copy)
    /\ \A u \in unused : Held(copy, u[1], u[2])

ManifestInv == FixTypes /\ ReadAfresh /\ StillRemovable /\ RemovalsSucceed

--------------------------------------------------------------------------------
(* The invariant holds at first and after each step. *)

LEMMA FirstManifest ==
  ASSUME ManifestInit
  PROVE  ManifestInv
<1>1. manifest \in Seq(ManifestLines) /\ (Multiline(manifest) => WellFormed(manifest))
  BY ManifestAssumption DEF ManifestInit
<1>2. FixTypes
  BY <1>1 DEF ManifestInit, FixTypes
<1>3. StillRemovable
  <2> SUFFICES ASSUME Multiline(manifest), NEW u \in unused PROVE Held(manifest, u[1], u[2])
    BY <1>1 DEF ManifestInit, StillRemovable
  <2>1. u[1] \in Sections /\ u[2] \in Keys(manifest, u[1])
    BY DEF ManifestInit
  <2> QED BY <1>1, <2>1, KeysAreHeld
<1> QED BY <1>2, <1>3 DEF ManifestInit, ManifestInv, ReadAfresh, RemovalsSucceed

\* One more package is declared in the file, or none,
LEMMA DeclarationKeeps ==
  ASSUME ManifestInv, fix_unlisted_dependency
  PROVE  ManifestInv'
<1>1. PICK p \in unlisted :
        LET amended == insert_manifest_key(manifest, "dependencies", p)
        IN /\ unlisted' = unlisted \ {p}
           /\ \/ /\ Report("declare", "dependencies", p, "skipped")
                 /\ UNCHANGED manifest
              \/ /\ amended.ok
                 /\ manifest' = IF applied THEN amended.manifest ELSE manifest
                 /\ Report("declare", "dependencies", p, fixed_or_planned)
  BY DEF fix_unlisted_dependency
<1>2. base' = manifest' /\ copy' = manifest' /\ unused' = unused
  BY DEF fix_unlisted_dependency
<1>3. base = manifest /\ copy = manifest /\ manifest \in Seq(ManifestLines) /\ p \in Packages /\ unlisted' \subseteq Packages
  BY <1>1 DEF ManifestInv, ReadAfresh, FixTypes
<1>4. \/ manifest' = manifest
      \/ \E k \in DOMAIN manifest : Longer(manifest, k, manifest') /\ Parses(manifest')
  BY <1>1, <1>3, InsertionWorks
<1>5. manifest' \in Seq(ManifestLines)
  BY <1>3, <1>4 DEF Longer
<1>6. PICK status \in {"skipped", "planned", "fixed"} :
        reported' = reported \cup {[fix |-> "declare", section |-> "dependencies", package |-> p, status |-> status]}
  BY <1>1 DEF Report, fixed_or_planned
<1>7. FixTypes'
  <2>1. [fix |-> "declare", section |-> "dependencies", package |-> p, status |-> status] \in Reports
    BY <1>3 DEF Reports
  <2> QED BY <1>1, <1>2, <1>3, <1>5, <1>6, <2>1 DEF ManifestInv, FixTypes
<1>8. Multiline(manifest') <=> Multiline(manifest)
  BY <1>3, <1>4, LongerIsMultiline
<1>9. ASSUME Multiline(base') PROVE WellFormed(manifest') /\ \A u \in unused : Held(manifest', u[1], u[2])
  <2>1. Multiline(manifest)
    BY <1>2, <1>8, <1>9
  <2>2. WellFormed(manifest) /\ \A u \in unused : Held(manifest, u[1], u[2])
    BY <1>3, <2>1 DEF ManifestInv, StillRemovable
  <2>3. CASE manifest' = manifest
    BY <2>2, <2>3
  <2>4. ASSUME NEW k \in DOMAIN manifest, Longer(manifest, k, manifest'), Parses(manifest')
        PROVE  WellFormed(manifest') /\ \A u \in unused : Held(manifest', u[1], u[2])
    <3>1. Sectioned(manifest') /\ Distinct(manifest')
      BY <1>3, <2>2, <2>4, LongerIsSectioned DEF WellFormed
    <3>2. \A u \in unused : Held(manifest', u[1], u[2])
      BY <1>3, <2>2, <2>4, HeldAfterInsertion
    <3> QED BY <2>4, <3>1, <3>2 DEF WellFormed
  <2> QED BY <1>4, <2>3, <2>4
<1>10. StillRemovable'
  BY <1>2, <1>9 DEF StillRemovable
<1>11. RemovalsSucceed'
  <2>1. Multiline(base') => Multiline(base)
    BY <1>2, <1>3, <1>8
  <2> QED BY <1>6, <2>1 DEF ManifestInv, RemovalsSucceed
<1>12. ReadAfresh'
  BY <1>2 DEF ReadAfresh
<1> QED BY <1>7, <1>10, <1>11, <1>12 DEF ManifestInv

\* one entry leaves the copy,
LEMMA RemovalStepKeeps ==
  ASSUME ManifestInv, fix_unused_dependency
  PROVE  ManifestInv'
<1>1. PICK s \in Sections, p \in Packages :
        LET amended == remove_manifest_key(copy, s, p)
        IN /\ <<s, p>> \in unused
           /\ unused' = unused \ {<<s, p>>}
           /\ copy' = IF applied /\ amended.ok THEN amended.manifest ELSE copy
           /\ Report("remove", s, p, IF amended.ok THEN fixed_or_planned ELSE "skipped")
  BY DEF fix_unused_dependency
<1> DEFINE amended == remove_manifest_key(copy, s, p)
<1>2. unlisted = {} /\ unlisted' = {} /\ manifest' = manifest /\ base' = base
  BY DEF fix_unused_dependency
<1>3. /\ copy \in Seq(ManifestLines) /\ manifest \in Seq(ManifestLines) /\ base \in Seq(ManifestLines)
      /\ unused \subseteq Sections \X Packages /\ reported \subseteq Reports
  BY DEF ManifestInv, FixTypes
<1>4. amended.ok => amended.manifest \in Seq(ManifestLines)
  BY <1>3, RemovalTypes
<1>5. PICK status \in {"skipped", "planned", "fixed"} :
        /\ reported' = reported \cup {[fix |-> "remove", section |-> s, package |-> p, status |-> status]}
        /\ amended.ok => status # "skipped"
  <2> HIDE DEF amended
  <2>1. Report("remove", s, p, IF amended.ok THEN fixed_or_planned ELSE "skipped")
    BY <1>1 DEF amended
  <2> QED BY <2>1 DEF Report, fixed_or_planned
<1>6. FixTypes'
  <2>1. [fix |-> "remove", section |-> s, package |-> p, status |-> status] \in Reports
    BY <1>1 DEF Reports
  <2>2. copy' \in Seq(ManifestLines)
    BY <1>1, <1>3, <1>4
  <2> QED BY <1>1, <1>2, <1>3, <1>5, <2>1, <2>2 DEF FixTypes
<1>7. ASSUME Multiline(base)
      PROVE  /\ amended.ok /\ WellFormed(copy') /\ Multiline(copy')
             /\ \A u \in unused' : Held(copy', u[1], u[2])
  <2>1. WellFormed(copy) /\ Multiline(copy) /\ \A u \in unused : Held(copy, u[1], u[2])
    BY <1>7 DEF ManifestInv, StillRemovable
  <2>2. Held(copy, s, p)
    <3>1. Held(copy, <<s, p>>[1], <<s, p>>[2])
      BY <1>1, <2>1
    <3> QED BY <3>1
  <2>3. /\ amended.ok /\ WellFormed(amended.manifest) /\ Multiline(amended.manifest)
        /\ \A t, q : Held(copy, t, q) /\ (t # s \/ q # p) => Held(amended.manifest, t, q)
    BY <1>3, <2>1, <2>2, RemovalWorks
  <2>4. \A u \in unused' : u \in unused /\ (u[1] # s \/ u[2] # p)
    BY <1>1, <1>3
  <2> HIDE DEF amended
  <2>5. copy' = IF applied THEN amended.manifest ELSE copy
    BY <1>1, <2>3 DEF amended
  <2>6. \A u \in unused' : Held(copy', u[1], u[2])
    BY <2>1, <2>3, <2>4, <2>5
  <2> QED BY <2>1, <2>3, <2>5, <2>6
<1>8. StillRemovable'
  BY <1>2, <1>7 DEF ManifestInv, StillRemovable
<1>9. RemovalsSucceed'
  BY <1>2, <1>5, <1>7 DEF ManifestInv, RemovalsSucceed
<1> QED BY <1>2, <1>6, <1>8, <1>9 DEF ManifestInv, ReadAfresh

\* and the file becomes the copy, or the copy the file.
LEMMA WriteKeeps ==
  ASSUME ManifestInv, write_manifest
  PROVE  ManifestInv'
<1>1. /\ unlisted = {} /\ unused = {} /\ unlisted' = {} /\ unused' = {} /\ base' = base /\ copy' = manifest'
      /\ manifest' \in {manifest, copy}
  BY DEF write_manifest
<1> DEFINE failed(r) == [r EXCEPT !.status = IF r.fix = "remove" /\ @ = "fixed" THEN "write failed" ELSE @]
<1>2. reported' = reported \/ reported' = {failed(r) : r \in reported}
  BY DEF write_manifest
<1>3. ASSUME NEW r \in Reports
      PROVE  /\ failed(r) \in Reports /\ failed(r).fix = r.fix
             /\ failed(r).status = "skipped" => r.status = "skipped"
  BY DEF Reports
<1> HIDE DEF failed
<1>4. reported \subseteq Reports
  BY DEF ManifestInv, FixTypes
<1>5. FixTypes'
  <2>1. reported' \subseteq Reports
    BY <1>2, <1>3, <1>4
  <2> QED BY <1>1, <2>1 DEF ManifestInv, FixTypes
<1>6. StillRemovable'
  BY <1>1 DEF ManifestInv, StillRemovable
<1>7. RemovalsSucceed'
  BY <1>1, <1>2, <1>3, <1>4 DEF ManifestInv, RemovalsSucceed
<1> QED BY <1>1, <1>5, <1>6, <1>7 DEF ManifestInv, ReadAfresh

\* No removal from a manifest whose sections go over several lines is skipped,
\* whatever is declared before it and whatever else is removed: the comma of
\* the entry that becomes the last one goes with the entry (RemovalsSucceed).
THEOREM RemovalsNeverFail == ManifestSpec => []RemovalsSucceed
<1>1. ManifestInit => ManifestInv
  BY FirstManifest
<1>2. ManifestInv /\ [ManifestNext]_manifestVars => ManifestInv'
  <2> SUFFICES ASSUME ManifestInv, [ManifestNext]_manifestVars PROVE ManifestInv'
    OBVIOUS
  <2>1. CASE fix_unlisted_dependency BY <2>1, DeclarationKeeps
  <2>2. CASE fix_unused_dependency BY <2>2, RemovalStepKeeps
  <2>3. CASE write_manifest BY <2>3, WriteKeeps
  <2>4. CASE UNCHANGED manifestVars
    BY <2>4 DEF manifestVars, ManifestInv, FixTypes, ReadAfresh, StillRemovable, RemovalsSucceed
  <2> QED BY <2>1, <2>2, <2>3, <2>4 DEF ManifestNext
<1>3. ManifestInv => RemovalsSucceed
  BY DEF ManifestInv
<1> QED BY <1>1, <1>2, <1>3, PTL DEF ManifestSpec

================================================================================
