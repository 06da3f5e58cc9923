--------------------------------- MODULE Findings ---------------------------------
(***************************************************************************)
(* An index run turns the tree into findings, and `ovecc fix` edits the    *)
(* tree by them: all analyses, then tests count less, then suppressions,   *)
(* then one finding for each id, which is the primary key of the table.    *)
(***************************************************************************)
EXTENDS Rules, Sequences

CONSTANTS
  Trees,        \* the trees to begin with
  Statements,   \* what an edit may add
  MaxEdits      \* bound of the model

\* What the parser hands over.
Parsed(s) ==
  /\ s.line \in Nat /\ s.column \in Nat
  /\ s.form = "pattern" => s.name \in PatternKinds
  /\ IsFiniteSet(s.names) /\ AllNames \notin s.names
IsTree(t) ==
  /\ t = [files |-> t.files, statements |-> t.statements, suppressed |-> t.suppressed,
          broken |-> t.broken]
  /\ IsFiniteSet(t.files) /\ IsFiniteSet(t.statements)
  /\ \A s \in t.statements : Parsed(s) /\ s.file \in t.files
  /\ \A p \in t.suppressed : p = <<p[1], p[2]>>

ASSUME FindingsAssumption ==
  /\ \A t \in Trees : IsTree(t)
  /\ \A s \in Statements : Parsed(s)

VARIABLES
  tree,
  findings,     \* those of the last run
  indexed,      \* history: the tree of that run
  edited,       \* history: an edit came after it
  edits

vars == <<tree, findings, indexed, edited, edits>>

raw_findings(t) ==
  boundary_rules(t) \cup banned_import_rules(t) \cup unresolved_import_rule(t) \cup security_rules(t)
  \cup complexity_findings(t) \cup deadcode_findings(t) \cup smell_findings(t)

SecurityRules == {"secret", "eval", "command-exec", "weak-hash"}
HealthRules == {"complexity", "long-function", "long-parameter-list"}
TestPatterns(t) == {Site(s) : s \in {p \in Of(t, "pattern") : p.mark}}

FilesOf(f) == {p[1] : p \in f.evidence}
Lowered(f) == [f EXCEPT !.severity = Severities.low]

\* A security finding in a test, a fixture or a workflow is low, and so is one
\* on a line that the parser saw to be test code.
downrank_test_security(t, fs) ==
  LET in_tests(f) == FilesOf(f) \cap TestFiles # {} \/ f.evidence \cap TestPatterns(t) # {}
  IN {IF f.id.rule \in SecurityRules /\ in_tests(f) THEN Lowered(f) ELSE f : f \in fs}

downrank_test_complexity(fs) ==
  {IF f.id.rule \in HealthRules /\ FilesOf(f) \cap TestFiles # {} THEN Lowered(f) ELSE f : f \in fs}

stale_suppression_finding(p) ==
  FindingRecord(FindingId("stale-suppression", p[1], p[2], {}), Severities.low, {p}, 0)

Suppressed(t) == {p \in t.suppressed : p[1] \notin t.broken}

used_suppressions(t, fs) == {p \in Suppressed(t) : \E f \in fs : p \in f.evidence}

\* Any suppressed line of its evidence silences a finding.
apply_suppressions(t, fs) ==
  {f \in fs : f.evidence \cap Suppressed(t) = {}}
  \cup {stale_suppression_finding(p) : p \in Suppressed(t) \ used_suppressions(t, fs)}

\* The id is the primary key of the table.
finalize_findings(fs) == dedup_by_id(fs)

run_analysis(t) ==
  finalize_findings(apply_suppressions(t,
    downrank_test_complexity(downrank_test_security(t, raw_findings(t)))))

--------------------------------------------------------------------------------

Init ==
  /\ tree \in Trees
  /\ findings = {} /\ indexed = tree /\ edited = FALSE /\ edits = 0

Index ==
  /\ findings' = run_analysis(tree)
  /\ indexed' = tree /\ edited' = FALSE
  /\ UNCHANGED <<tree, edits>>

Edit ==
  /\ edits < MaxEdits
  /\ \E s \in Statements :
       /\ s.file \in tree.files
       /\ \/ tree' = [tree EXCEPT !.statements = @ \cup {s}]
          \/ tree' = [tree EXCEPT !.statements = @ \ {s}]
  /\ edits' = edits + 1 /\ edited' = TRUE
  /\ UNCHANGED <<findings, indexed>>

Found(rule) == {f.id : f \in {g \in findings : g.id.rule = rule}}

\* Each fix looks at its line first, and only there.
fix_unused_export ==
  /\ \E id \in Found("unused-export") :
       \E s \in Of(tree, "export") :
         /\ s.file = id.file /\ s.line = id.line /\ {s.name} = id.names
         /\ tree' = [tree EXCEPT !.statements = @ \ {s}]
  /\ UNCHANGED <<findings, indexed, edited, edits>>

fix_unused_file ==
  /\ \E id \in Found("unused-file") :
       /\ id.file \in tree.files
       /\ tree' = [tree EXCEPT !.files = @ \ {id.file}, !.broken = @ \ {id.file},
                               !.statements = {s \in @ : s.file # id.file},
                               !.suppressed = {p \in @ : p[1] # id.file}]
  /\ UNCHANGED <<findings, indexed, edited, edits>>

fix_stale_suppression ==
  /\ \E id \in Found("stale-suppression") :
       /\ <<id.file, id.line>> \in tree.suppressed
       /\ tree' = [tree EXCEPT !.suppressed = @ \ {<<id.file, id.line>>}]
  /\ UNCHANGED <<findings, indexed, edited, edits>>

Next == Index \/ Edit \/ fix_unused_export \/ fix_unused_file \/ fix_stale_suppression

Spec == Init /\ [][Next]_vars

--------------------------------------------------------------------------------
(* Properties. *)

Fresh == indexed = tree /\ findings # {}

Silent(t, p) == p \in Suppressed(t)

\* Which file takes from which.
Links(statements) == {<<s.file, s.to>> : s \in statements}

Live(t) == ChainEnds(Chains(t.files, Links(Internal(t))), entry_points(t))

\* A root takes the export of name from a file, or all of it; from there it is
\* passed on by a chain of re-exports, each in a file that an entry point leads to.
Roots(t, name) ==
  entry_points(t)
  \cup {s.to : s \in {u \in Internal(t) :
                       /\ u.file \in Live(t)
                       /\ NamesOf(t, u) = {} \/ (u.form = "import" /\ name \in NamesOf(t, u))}}
Passing(t, name) ==
  {s \in Internal(t) : s.form = "forward" /\ s.file \in Live(t) /\ name \in NamesOf(t, s)}
Consumed(t, name) == ChainEnds(Chains(t.files, Links(Passing(t, name))), Roots(t, name))

\* No file takes another one in parts and as a whole, or imports what it
\* re-exports: one edge for both would not say what is used.
Unmixed(t) ==
  \A s, u \in Imports(t) : s.file = u.file =>
    /\ s.to = u.to => (s.names = {} <=> u.names = {})
    /\ s.form = "import" /\ u.form = "forward" => s.names \cap u.names = {}

\* Exactly the exports of reachable files that no chain leads to are unused, an
\* unused file is one that no chain of imports leads to, and a file that does not
\* parse never makes an export of another one unused.
DeadCodeExact ==
  Fresh /\ Unmixed(tree) =>
    /\ \A name \in {s.name : s \in Of(tree, "export")} :
         LET live == Live(tree)
             consumed == Consumed(tree, name)
             declared == {s \in Of(tree, "export") : s.name = name}
             in_signature(s) == s.mark /\ name \in SignatureTypes(tree, s.file)
         IN \A s \in {u \in declared : ~ Silent(tree, Site(u))} :
              FindingId("unused-export", s.file, s.line, {name}) \in Ids(findings)
                <=> /\ s.file \in live \ Entry /\ s.file \notin consumed /\ name # DefaultName
                    /\ \E u \in declared : Site(u) = Site(s) /\ ~ in_signature(u)
    /\ \A id \in Ids(findings) : id.rule = "unused-file" => id.file \notin Live(tree)
    /\ {d.id : d \in flag_unused_exports(tree)}
         \subseteq {d.id : d \in flag_unused_exports([tree EXCEPT !.broken = {}])}

\* A file provides what it declares and what it re-exports from one that provides it.
Hops(t, name) == {s \in Of(t, "forward") \cap Internal(t) : s.names = {} \/ name \in s.names}
Declaring(t, name) == {s.file : s \in {u \in Of(t, "export") : u.name = name}}
Provides(t, name) ==
  {p[1] : p \in {q \in Chains(t.files, Links(Hops(t, name))) : q[Len(q)] \in Declaring(t, name)}}
Satisfied(t, s) ==
  s.to \in t.files /\ \A n \in s.names : s.to \in Provides(t, n)

\* A fix by the findings of this tree leaves every import of a reachable file as
\* it was, through re-exports too, whatever was fixed before it.
FixKeepsImports ==
  [][tree'.statements # tree.statements /\ ~ edited /\ edits' = edits /\ Unmixed(indexed) =>
       \A s \in Of(tree, "import") :
         s.file \in bfs_reachable(tree) /\ Satisfied(tree, s) => Satisfied(tree', s)]_vars

\* Every finding is reported, unless a line of it is suppressed; no id is reported
\* twice; a suppression is stale if it silences nothing, and without the stale
\* ones the report is the same.
ReportIsComplete ==
  Fresh =>
    /\ \A f \in raw_findings(tree) :
         f.evidence \cap Suppressed(tree) = {} =>
           \E g \in findings : g.id.rule = f.id.rule /\ f.evidence \subseteq g.evidence
    /\ Keyed(findings)
    /\ LET stale == {f \in findings : f.id.rule = "stale-suppression"}
           lines == {<<f.id.file, f.id.line>> : f \in stale}
       IN /\ lines = {p \in Suppressed(tree) : \A f \in raw_findings(tree) : p \notin f.evidence}
          /\ run_analysis([tree EXCEPT !.suppressed = @ \ lines]) = findings \ stale

\* A clump is all the functions that take its names; no two clumps have the same
\* names, and three names that enough functions take are in one.
ClumpsExact ==
  Fresh =>
    LET sites == collect_clump_sites(tree)
        reported == clumps(tree)
        takers(f, names) == {s \in sites : Family[s.file] = f /\ names \subseteq ClumpNames(s)}
    IN /\ \A c, d \in reported : c.family = d.family /\ c.names = d.names => c = d
       /\ \A c \in reported : c.members = takers(c.family, c.names) /\ Cardinality(c.members) >= MinFunctions
       /\ \A f \in Families(sites), s \in sites : \A names \in SUBSET ClumpNames(s) :
            Cardinality(names) = 3 /\ Cardinality(takers(f, names)) >= MinFunctions
              => \E c \in reported : c.family = f /\ names \subseteq c.names

================================================================================
