------------------------- MODULE ArchitectureReview_proofs -------------------------
(***************************************************************************)
(* The two gates of a change.  `architecture check`: the gate is sound,    *)
(* the baseline only shrinks and a freeze settles, for all contracts,      *)
(* graphs, templates and any number of edits, index runs, checks and       *)
(* stops.  `review`: what a change introduced is charged, for all edits,   *)
(* commits, index runs and answers of git.                                 *)
(***************************************************************************)
EXTENDS ArchitectureCheck, Review, Closure_proofs

--------------------------------------------------------------------------------
(* An entry of the baseline has one owner. *)

\* The component, or the slice, that an entry speaks of.
SourceOf(a, e) ==
  IF e[1] = "slice-isolation" THEN a.slice_of[e[2]]
  ELSE IF e[1] = "behavioral-coupling" THEN Min({a.component_of[e[2]], a.component_of[e[3]]})
  ELSE a.component_of[e[2]]

Sourced(a, v) == v[1] # "coverage-floor" => source_of(v) = SourceOf(a, baseline_entry(v))

LEMMA InternalSourced ==
  ASSUME NEW a, NEW d, NEW v \in classify_internal(a, d)
  PROVE  Sourced(a, v)
<1>1. CASE v \in classify_slice(a, d)
  BY <1>1 DEF classify_slice, Verdict, Sourced, SourceOf, source_of, baseline_entry, rule_of
<1>2. CASE v \notin classify_slice(a, d)
  <2> DEFINE source == a.component_of[d.from]
             target == a.component_of[d.to]
             spec == a.contract.components[source]
             interfaces == declared_interfaces(a.contract)
             prohibited == prohibition(a.contract, source, target)
             rules == IF prohibited # {} THEN prohibited
                      ELSE {"interface-bypass" : n \in {m \in {target} \cap DOMAIN interfaces : d.to \notin interfaces[m]}}
                           \cup (IF target \in DOMAIN spec.depends_on
                                 THEN IF spec.depends_on[target] THEN {"deprecated-use"} ELSE {}
                                 ELSE IF Permits(spec, target) THEN {} ELSE {"divergence"})
  <2>1. v \in {Verdict(r, source, target, d.from, d.specifier) : r \in rules}
    BY <1>2 DEF classify_internal
  <2>2. PICK r \in rules : v = Verdict(r, source, target, d.from, d.specifier)
    BY <2>1
  <2>3. prohibited \subseteq {"restricted-access", "forbidden-dependency"}
    BY DEF prohibition
  <2>4. r \in {"restricted-access", "forbidden-dependency", "interface-bypass", "deprecated-use", "divergence"}
    BY <2>3
  <2> QED BY <2>2, <2>4 DEF Verdict, Sourced, SourceOf, source_of, baseline_entry, rule_of
<1> QED BY <1>1, <1>2

LEMMA ExternalSourced ==
  ASSUME NEW a, NEW d, NEW v \in classify_external(a, d) \cup classify_external_capability(a, d)
  PROVE  Sourced(a, v)
<1>1. CASE v \in classify_external(a, d)
  <2>1. PICK p : v = Verdict("external-deny", a.component_of[d.from], p, d.from, d.specifier)
    BY <1>1 DEF classify_external
  <2> QED BY <2>1 DEF Verdict, Sourced, SourceOf, source_of, baseline_entry, rule_of
<1>2. CASE v \in classify_external_capability(a, d)
  <2>1. PICK k : v = Verdict("capability", a.component_of[d.from], k, d.from, d.specifier)
    BY <1>2 DEF classify_external_capability
  <2> QED BY <2>1 DEF Verdict, Sourced, SourceOf, source_of, baseline_entry, rule_of
<1> QED BY <1>1, <1>2

LEMMA RequiredSourced ==
  ASSUME NEW a, NEW v \in classify_required(a)
  PROVE  Sourced(a, v)
BY DEF classify_required, Verdict, Sourced, SourceOf, source_of, baseline_entry, rule_of

LEMMA FactsSourced ==
  ASSUME NEW a, NEW v \in classify_capability_facts(a)
  PROVE  Sourced(a, v)
BY DEF classify_capability_facts, Verdict, Sourced, SourceOf, source_of, baseline_entry, rule_of

LEMMA BudgetsSourced ==
  ASSUME NEW a, NEW v \in classify_budgets(a)
  PROVE  Sourced(a, v)
BY DEF classify_budgets, Verdict, Sourced, SourceOf, source_of, baseline_entry, rule_of

LEMMA CouplingSourced ==
  ASSUME NEW a, NEW verdicts, NEW v \in classify_coupling(a, verdicts)
  PROVE  Sourced(a, v)
<1>1. PICK p \in Unexplained(a, verdicts) :
        v = <<"behavioral-coupling", Min(TiedComponents(a, p)), Max(TiedComponents(a, p)), p.left, p.right>>
  BY DEF classify_coupling, Verdict
<1>2. SourceOf(a, baseline_entry(v)) = Min({a.component_of[p.left], a.component_of[p.right]})
  BY <1>1 DEF SourceOf, baseline_entry, rule_of
<1> QED BY <1>1, <1>2 DEF TiedComponents, Sourced, source_of

LEMMA AllSourced ==
  ASSUME NEW a, NEW v \in classify_edges(a)
  PROVE  Sourced(a, v)
<1>1. CASE v \in internal_verdicts(a)
  BY <1>1, InternalSourced DEF internal_verdicts
<1>2. CASE v \in external_verdicts(a)
  BY <1>2, ExternalSourced DEF external_verdicts
<1>3. CASE v \in classify_coverage(a)
  BY <1>3 DEF classify_coverage, Verdict, Sourced
<1> QED BY <1>1, <1>2, <1>3, RequiredSourced, FactsSourced, BudgetsSourced, CouplingSourced
        DEF classify_edges

LEMMA OneOwner ==
  ASSUME NEW a, NEW v \in classify_edges(a), NEW w \in classify_edges(a),
         rule_of(v) # "coverage-floor", baseline_entry(v) = baseline_entry(w)
  PROVE  Owner(v) = Owner(w)
<1>1. rule_of(w) = rule_of(v)
  BY DEF baseline_entry, rule_of
<1>2. source_of(v) = source_of(w)
  BY <1>1, AllSourced DEF Sourced, rule_of
<1> QED BY <1>1, <1>2 DEF Owner

--------------------------------------------------------------------------------
(* What a check leaves in the baseline. *)

AllOf(debt) == UNION {debt[n] : n \in DOMAIN debt}

LEMMA GroupKeepsAll ==
  ASSUME NEW debt
  PROVE  Entries(Group(debt)) = AllOf(debt)
<1> DEFINE names == {baseline_file_name[n] : n \in {k \in DOMAIN debt : debt[k] # {}}}
<1>1. /\ DOMAIN Group(debt) = names
      /\ \A f \in names : Group(debt)[f] = UNION {debt[n] : n \in {k \in DOMAIN debt : baseline_file_name[k] = f}}
  BY DEF Group
<1>2. ASSUME NEW e \in Entries(Group(debt)) PROVE e \in AllOf(debt)
  <2>1. PICK f \in names : e \in Group(debt)[f]
    BY <1>1 DEF Entries, Range
  <2> QED BY <1>1, <2>1 DEF AllOf
<1>3. ASSUME NEW e \in AllOf(debt) PROVE e \in Entries(Group(debt))
  <2>1. PICK n \in DOMAIN debt : e \in debt[n]
    BY DEF AllOf
  <2>2. baseline_file_name[n] \in names /\ e \in Group(debt)[baseline_file_name[n]]
    BY <1>1, <2>1
  <2> QED BY <1>1, <2>2 DEF Entries, Range
<1> QED BY <1>2, <1>3

LEMMA EntriesAreDebt ==
  ASSUME NEW data
  PROVE  AllOf(violation_entries(data)) = Debt(data)
<1> DEFINE debt == IF data.contract.mode = "off" THEN {}
                   ELSE {v \in classify_edges(data) : rule_of(v) # "coverage-floor"}
<1>1. /\ DOMAIN violation_entries(data) = {Owner(v) : v \in debt}
      /\ \A n \in {Owner(v) : v \in debt} :
           violation_entries(data)[n] = {baseline_entry(v) : v \in {w \in debt : Owner(w) = n}}
  BY DEF violation_entries
<1>2. AllOf(violation_entries(data)) = {baseline_entry(v) : v \in debt}
  BY <1>1 DEF AllOf
<1>3. \A v : baseline_entry(v) = Violation(v)
  BY DEF baseline_entry, Violation, rule_of
<1>4. Debt(data) = {Violation(v) : v \in debt}
  BY DEF Debt
<1> QED BY <1>2, <1>3, <1>4

\* The files of no two owners hold one entry.
LEMMA EntriesApart ==
  ASSUME NEW data, NEW m \in DOMAIN violation_entries(data), NEW n \in DOMAIN violation_entries(data),
         NEW e \in violation_entries(data)[m], e \in violation_entries(data)[n]
  PROVE  m = n
<1> DEFINE debt == IF data.contract.mode = "off" THEN {}
                   ELSE {v \in classify_edges(data) : rule_of(v) # "coverage-floor"}
<1>1. /\ DOMAIN violation_entries(data) = {Owner(v) : v \in debt}
      /\ \A k \in {Owner(v) : v \in debt} :
           violation_entries(data)[k] = {baseline_entry(v) : v \in {w \in debt : Owner(w) = k}}
  BY DEF violation_entries
<1>2. PICK v \in debt : Owner(v) = m /\ e = baseline_entry(v)
  BY <1>1
<1>3. PICK w \in debt : Owner(w) = n /\ e = baseline_entry(w)
  BY <1>1
<1>4. /\ v \in classify_edges(data) /\ w \in classify_edges(data)
      /\ rule_of(v) # "coverage-floor"
  OBVIOUS
<1> HIDE DEF debt
<1> QED BY <1>2, <1>3, <1>4, OneOwner

LEMMA RatchetKeeps ==
  ASSUME NEW debt, NEW stored
  PROVE  AllOf(ratchet(debt, stored)) = AllOf(debt) \cap stored
<1>1. /\ DOMAIN ratchet(debt, stored) = {k \in DOMAIN debt : debt[k] \cap stored # {}}
      /\ \A n \in DOMAIN ratchet(debt, stored) : ratchet(debt, stored)[n] = debt[n] \cap stored
  BY DEF ratchet
<1> QED BY <1>1 DEF AllOf

\* When a ratchet counts as many entries as are stored, all of them are still violations.
LEMMA CountTells ==
  ASSUME NEW data, NEW stored, IsFiniteSet(stored),
         EntryCount(ratchet(violation_entries(data), stored)) = Cardinality(stored)
  PROVE  stored \subseteq AllOf(violation_entries(data))
<1> DEFINE debt == violation_entries(data)
           kept == ratchet(debt, stored)
           second == [p \in Owned(kept) |-> p[2]]
<1>1. \A p \in Owned(kept) :
        /\ p = <<p[1], p[2]>> /\ p[1] \in DOMAIN debt
        /\ p[2] \in debt[p[1]] /\ p[2] \in stored
  BY DEF Owned, ratchet
<1>2. second \in Injection(Owned(kept), stored)
  <2>1. second \in [Owned(kept) -> stored]
    BY <1>1
  <2>2. ASSUME NEW p \in Owned(kept), NEW q \in Owned(kept), second[p] = second[q]
        PROVE  p = q
    <3>1. p[2] = q[2]
      BY <2>2
    <3>2. p[1] = q[1]
      BY <1>1, <3>1, EntriesApart
    <3> QED BY <1>1, <3>1, <3>2
  <2> QED BY <2>1, <2>2 DEF Injection, IsInjective
<1>3. second \in Surjection(Owned(kept), stored)
  BY <1>2, FS_Injection DEF EntryCount
<1>4. \A e \in stored : \E p \in Owned(kept) : p[2] = e
  BY <1>3 DEF Surjection
<1> QED BY <1>1, <1>4 DEF AllOf

LEMMA RewrittenIsDebt ==
  ASSUME NEW data, NEW freeze \in BOOLEAN, IsFiniteSet(load_baseline)
  PROVE  LET left == Entries(Rewritten(freeze, data).files)
         IN /\ left \subseteq Debt(data)
            /\ freeze => left = Debt(data)
            /\ ~ freeze => left \subseteq load_baseline
<1> DEFINE debt == violation_entries(data)
           kept == ratchet(debt, load_baseline)
           writes == freeze \/ (load_baseline # {} /\ EntryCount(kept) # Cardinality(load_baseline))
<1>1. Rewritten(freeze, data).files = IF ~ writes THEN store ELSE Group(IF freeze THEN debt ELSE kept)
  BY DEF Rewritten
<1>2. CASE freeze
  BY <1>1, <1>2, GroupKeepsAll, EntriesAreDebt
<1>3. CASE ~ freeze /\ writes
  BY <1>1, <1>3, GroupKeepsAll, EntriesAreDebt, RatchetKeeps
<1>4. CASE ~ freeze /\ ~ writes
  <2>1. Entries(Rewritten(freeze, data).files) = load_baseline
    BY <1>1, <1>4 DEF load_baseline
  <2>2. load_baseline \subseteq Debt(data)
    BY <1>4, CountTells, EntriesAreDebt
  <2> QED BY <1>4, <2>1, <2>2
<1> QED BY <1>2, <1>3, <1>4

--------------------------------------------------------------------------------
(* The invariant. *)

\* A command only runs on a contract that it accepts.
InRepository ==
  /\ contract \in AllContracts /\ graph \in AllGraphs
  /\ command # Idle => Accepts(contract, graph)

\* Nothing is in the baseline, or will be, that no freeze has accepted.
Accepted ==
  /\ IsFiniteSet(Entries(store)) /\ Entries(store) \subseteq accepted
  /\ command # Idle =>
       IsFiniteSet(Entries(command.files)) /\ Entries(command.files) \subseteq accepted

\* A check leaves violations that are there now, a freeze all of them, and without
\* one nothing appears that was not found.
Leaves ==
  command # Idle =>
    /\ command.name = "check" => Entries(command.files) \subseteq Debt(Data)
    /\ command.name = "check" /\ command.freeze => Entries(command.files) = Debt(Data)
    /\ ~ command.freeze =>
         Entries(store) \subseteq command.stored /\ Entries(command.files) \subseteq command.stored

Inv == InRepository /\ Accepted /\ Leaves

LEMMA Initially == Init => Inv
<1> SUFFICES ASSUME Init PROVE Inv
  OBVIOUS
<1>1. Entries(store) = {}
  BY DEF Init, Entries, Range
<1>2. contract \in AllContracts /\ graph \in AllGraphs
  BY DEF Init, AllContracts, AllGraphs
<1> QED BY <1>1, <1>2, FS_EmptySet DEF Init, Inv, InRepository, Accepted, Leaves

LEMMA EntriesOfLess ==
  ASSUME NEW S, S \subseteq DOMAIN store
  PROVE  Entries(Restrict(store, S)) \subseteq Entries(store)
BY DEF Entries, Range, Restrict

LEMMA EntriesOfMore ==
  ASSUME NEW f, NEW lines
  PROVE  Entries(Put(f, lines)) \subseteq Entries(store) \cup lines
BY DEF Entries, Range, Put

\* The end of a command: the files are as they should be.
LEMMA AllWritten ==
  ASSUME Stale = {}, Unwritten = {}
  PROVE  Entries(store) = Entries(command.files)
<1>1. DOMAIN store = DOMAIN command.files
  BY DEF Stale, Unwritten
<1>2. \A f \in DOMAIN store : store[f] = command.files[f]
  BY <1>1 DEF Unwritten
<1> QED BY <1>1, <1>2 DEF Entries, Range

LEMMA BetweenCommands ==
  ASSUME Inv, command = Idle, UNCHANGED <<store, command, accepted>>,
         contract' \in AllContracts, graph' \in AllGraphs
  PROVE  Inv'
BY DEF Inv, InRepository, Accepted, Leaves, Idle

LEMMA CheckStep ==
  ASSUME Inv, NEW freeze \in BOOLEAN, run_architecture_check(freeze)
  PROVE  Inv'
<1> DEFINE left == Entries(Rewritten(freeze, Data).files)
<1>1. /\ command'.name = "check" /\ command'.freeze = freeze
      /\ command'.stored = load_baseline /\ command'.files = Rewritten(freeze, Data).files
      /\ accepted' = IF freeze THEN accepted \cup Debt(Data) ELSE accepted
      /\ UNCHANGED <<contract, graph, store>> /\ Loadable
  BY DEF run_architecture_check, Data
<1>2. /\ left \subseteq Debt(Data)
      /\ freeze => left = Debt(Data)
      /\ ~ freeze => left \subseteq load_baseline
  BY RewrittenIsDebt DEF Inv, Accepted, load_baseline
<1>3. IsFiniteSet(Debt(Data))
  BY <1>1, FiniteDebt DEF Inv, InRepository, Loadable, Data
<1>4. IsFiniteSet(left)
  BY <1>2, <1>3, FS_Subset
<1>5. Debt(Data)' = Debt(Data) /\ Entries(store)' = Entries(store) /\ Entries(command'.files) = left
  BY <1>1 DEF Debt, Data
<1>6. InRepository'
  BY <1>1 DEF Inv, InRepository, Loadable
<1>7. Accepted'
  BY <1>1, <1>2, <1>4, <1>5 DEF Inv, Accepted, load_baseline
<1>8. Leaves'
  BY <1>1, <1>2, <1>5 DEF Leaves, load_baseline
<1> QED BY <1>6, <1>7, <1>8 DEF Inv

LEMMA DiffStep == Inv /\ run_architecture_diff => Inv'
<1> SUFFICES ASSUME Inv, run_architecture_diff PROVE Inv'
  OBVIOUS
<1>1. /\ command'.name = "diff" /\ ~ command'.freeze
      /\ command'.stored = Entries(store) /\ command'.files = store
      /\ UNCHANGED <<contract, graph, store, accepted>> /\ Loadable
  BY DEF run_architecture_diff, load_baseline
<1> QED BY <1>1 DEF Inv, InRepository, Accepted, Leaves, Loadable

\* A step of a command on the store.
LEMMA StoreStep ==
  ASSUME Inv, command # Idle, UNCHANGED <<contract, graph, accepted>>, command' \in {command, Idle},
         Entries(store') \subseteq Entries(store) \cup Entries(command.files)
  PROVE  Inv'
<1>1. IsFiniteSet(Entries(store) \cup Entries(command.files))
  BY FS_Union DEF Inv, Accepted
<1>2. IsFiniteSet(Entries(store'))
  BY <1>1, FS_Subset
<1>3. Debt(Data)' = Debt(Data)
  BY DEF Debt, Data
<1>4. InRepository'
  BY DEF Inv, InRepository
<1>5. Accepted'
  BY <1>2 DEF Inv, Accepted
<1>6. Leaves'
  BY <1>3 DEF Inv, Leaves
<1> QED BY <1>4, <1>5, <1>6 DEF Inv

LEMMA RemoveStep == Inv /\ remove_file => Inv'
<1> SUFFICES ASSUME Inv, remove_file PROVE Inv'
  OBVIOUS
<1>1. Entries(store') \subseteq Entries(store)
  BY EntriesOfLess DEF remove_file
<1> QED BY <1>1, StoreStep DEF remove_file

LEMMA WriteStep == Inv /\ write_file => Inv'
<1> SUFFICES ASSUME Inv, write_file PROVE Inv'
  OBVIOUS
<1>1. PICK f \in DOMAIN command.files : store' = Put(f, command.files[f])
  BY DEF write_file, Unwritten
<1>2. command.files[f] \subseteq Entries(command.files)
  BY DEF Entries, Range
<1>3. Entries(store') \subseteq Entries(store) \cup Entries(command.files)
  BY <1>1, <1>2, EntriesOfMore
<1> QED BY <1>3, StoreStep DEF write_file

LEMMA StopStep == Inv /\ Stop => Inv'
<1> SUFFICES ASSUME Inv, Stop PROVE Inv'
  OBVIOUS
<1>1. Entries(store') \subseteq Entries(store) \cup Entries(command.files)
  <2>1. CASE store' = store
    BY <2>1
  <2>2. CASE \E f \in DOMAIN command.files : store' = Put(f, {})
    BY <2>2, EntriesOfMore
  <2> QED BY <2>1, <2>2 DEF Stop
<1> QED BY <1>1, StoreStep DEF Stop

LEMMA ReportStep == Inv /\ render_report => Inv'
<1> SUFFICES ASSUME Inv, render_report PROVE Inv'
  OBVIOUS
<1>1. Entries(store) = Entries(command.files)
  BY AllWritten DEF render_report
<1>2. Entries(store) \subseteq accepted'
  BY <1>1 DEF Inv, Accepted, Leaves, render_report
<1> QED BY <1>2 DEF Inv, InRepository, Accepted, Leaves, render_report, Idle

LEMMA Inductive == Inv /\ [Next]_vars => Inv'
<1> SUFFICES ASSUME Inv, [Next]_vars PROVE Inv'
  OBVIOUS
<1>1. CASE EditContract
  BY <1>1, BetweenCommands DEF EditContract, Inv, InRepository, AllContracts
<1>2. CASE Reindex
  BY <1>2, BetweenCommands DEF Reindex, Inv, InRepository, AllGraphs
<1>3. ASSUME NEW force \in BOOLEAN, run_architecture_init(force) PROVE Inv'
  BY <1>3, BetweenCommands DEF run_architecture_init, Inv, InRepository, AllContracts
<1>4. ASSUME NEW force \in BOOLEAN, run_architecture_init_template(force) PROVE Inv'
  BY <1>4, BetweenCommands DEF run_architecture_init_template, Inv, InRepository, AllContracts
<1>5. CASE UNCHANGED vars
  <2>1. Debt(Data)' = Debt(Data)
    BY <1>5 DEF vars, Debt, Data
  <2> QED BY <1>5, <2>1 DEF vars, Inv, InRepository, Accepted, Leaves
<1> QED BY <1>1, <1>2, <1>3, <1>4, <1>5, CheckStep, DiffStep, RemoveStep, WriteStep, ReportStep, StopStep
        DEF Next

THEOREM Invariance == Spec => []Inv
BY Initially, Inductive, PTL DEF Spec

--------------------------------------------------------------------------------
(* The theorems. *)

\* A verdict that is not accepted is behind a finding of its severity.
LEMMA Reported ==
  ASSUME NEW a, NEW baseline, NEW v \in classify_edges(a),
         a.contract.mode \in {"new-violations", "strict"},
         a.contract.mode = "new-violations" => v \in prune_baselined(classify_edges(a), baseline)
  PROVE  \E f \in contract_findings(a, baseline) : f[1] = severity_of(rule_of(v), a.contract)
<1> DEFINE verdicts == IF a.contract.mode = "new-violations"
                       THEN prune_baselined(classify_edges(a), baseline) ELSE classify_edges(a)
           reported == verdicts \cup absence_findings(a) \cup unassigned_finding(a)
           f == Finding(severity_of(rule_of(v), a.contract), v, Evidence(v, reported))
<1>1. v \in reported
  OBVIOUS
<1>2. f \in contract_findings(a, baseline)
  <2>1. contract_findings(a, baseline) =
          {Finding(severity_of(rule_of(w), a.contract), w, Evidence(w, reported)) : w \in reported}
    BY DEF contract_findings, pair_findings, contract_rules
  <2> HIDE DEF reported
  <2> QED BY <1>1, <2>1
<1>3. f[1] = severity_of(rule_of(v), a.contract)
  BY DEF Finding
<1> QED BY <1>2, <1>3

LEMMA PassedIsAccepted ==
  ASSUME NEW a, NEW baseline, NEW v \in classify_edges(a),
         a.contract.mode \in {"new-violations", "strict"}, NEW fail_on \in {"medium", "high"},
         findings_exit(contract_findings(a, baseline), fail_on) = 0,
         Rank(severity_of(rule_of(v), a.contract)) >= Rank(fail_on)
  PROVE  a.contract.mode = "new-violations" /\ Violation(v) \in baseline
<1>1. ~ \E f \in contract_findings(a, baseline) : Rank(f[1]) >= Rank(fail_on)
  <2>1. Rank(fail_on) = IF fail_on = "medium" THEN 2 ELSE 3
    BY DEF Rank
  <2>2. CASE fail_on = "medium"
    BY <2>1, <2>2 DEF findings_exit
  <2>3. CASE fail_on = "high"
    BY <2>1, <2>3 DEF findings_exit
  <2> QED BY <2>2, <2>3
<1>2. /\ a.contract.mode = "new-violations"
      /\ v \notin prune_baselined(classify_edges(a), baseline)
  BY <1>1, Reported
<1>3. baseline_entry(v) \in baseline
  BY <1>2 DEF prune_baselined
<1> QED BY <1>2, <1>3 DEF baseline_entry, Violation, rule_of

\* A check that passes has let through nothing that a freeze has not accepted, and nothing
\* at all in strict mode (`architecture check`, its exit code and its baseline).
THEOREM GateIsSound == Spec => GateSound
<1> DEFINE Passed == (Reports("check") /\ Mode \in {"new-violations", "strict"}) =>
                       \A fail_on \in {"medium", "high"}, v \in classify_edges(Data) :
                         ExitCode(fail_on) = 0 /\ Rank(severity_of(rule_of(v), contract)) >= Rank(fail_on) =>
                           Mode = "new-violations" /\ Violation(v) \in accepted
<1>1. Inv => Passed
  <2> SUFFICES ASSUME Inv, command.name = "check", Mode \in {"new-violations", "strict"},
                      NEW fail_on \in {"medium", "high"}, NEW v \in classify_edges(Data),
                      ExitCode(fail_on) = 0,
                      Rank(severity_of(rule_of(v), contract)) >= Rank(fail_on)
               PROVE  Mode = "new-violations" /\ Violation(v) \in accepted
    BY DEF Reports
  <2>1. Data.contract = contract
    BY DEF Data, load_architecture_data
  <2>2. findings_exit(contract_findings(Data, load_baseline), fail_on) = 0
    BY DEF ExitCode, build_report
  <2>3. Mode = "new-violations" /\ Violation(v) \in load_baseline
    BY <2>1, <2>2, PassedIsAccepted DEF Mode
  <2> QED BY <2>3 DEF load_baseline, Inv, Accepted
<1>2. Inv /\ [Next]_vars => [Passed]_vars
  BY <1>1
<1> QED BY <1>2, Invariance, PTL DEF Spec, GateSound

\* Outside of a freeze the baseline never holds an entry that the command did not find,
\* and outside of a command it stays as it is (`ratchet`, `save_baseline`, stops).
THEOREM BaselineShrinks == Spec => BaselineOnlyShrinks
<1> DEFINE Shrinks == /\ command = Idle => UNCHANGED store
                      /\ command # Idle /\ ~ command.freeze => Entries(store') \subseteq command.stored
<1>1. Inv /\ [Next]_vars => [Shrinks]_vars
  <2> SUFFICES ASSUME Inv, Next PROVE Shrinks
    OBVIOUS
  <2>1. ASSUME command = Idle PROVE UNCHANGED store
    BY <2>1 DEF Next, EditContract, Reindex, run_architecture_init, run_architecture_init_template,
                run_architecture_check, run_architecture_diff, remove_file, write_file, render_report, Stop
  <2>2. ASSUME command # Idle, ~ command.freeze PROVE Entries(store') \subseteq command.stored
    <3>1. Entries(store) \cup Entries(command.files) \subseteq command.stored
      BY <2>2 DEF Inv, Leaves
    <3>2. CASE remove_file
      BY <3>1, <3>2, EntriesOfLess DEF remove_file
    <3>3. CASE write_file
      <4>1. PICK f \in DOMAIN command.files : store' = Put(f, command.files[f])
        BY <3>3 DEF write_file, Unwritten
      <4>2. command.files[f] \subseteq Entries(command.files)
        BY DEF Entries, Range
      <4> QED BY <3>1, <4>1, <4>2, EntriesOfMore
    <3>4. CASE Stop
      <4>1. CASE store' = store
        BY <3>1, <4>1
      <4>2. CASE \E f \in DOMAIN command.files : store' = Put(f, {})
        BY <3>1, <4>2, EntriesOfMore
      <4> QED BY <3>4, <4>1, <4>2 DEF Stop
    <3>5. CASE render_report
      BY <3>1, <3>5 DEF render_report
    <3> QED BY <2>2, <3>2, <3>3, <3>4, <3>5
            DEF Next, EditContract, Reindex, run_architecture_init, run_architecture_init_template,
                run_architecture_check, run_architecture_diff
  <2> QED BY <2>1, <2>2
<1> QED BY <1>1, Invariance, PTL DEF Spec, BaselineOnlyShrinks

\* A freeze leaves no finding that could have been accepted (`check --freeze`).
THEOREM FreezesSettle == Spec => FreezeSettles
<1> DEFINE Settles == (Reports("check") /\ command.freeze /\ Mode = "new-violations") =>
                        \A f \in build_report.findings : f[2] \in {"coverage-floor", "absence", "unassigned"}
<1>1. Inv => Settles
  <2> SUFFICES ASSUME Inv, command.name = "check", render_report, command.freeze,
                      Mode = "new-violations", NEW f \in build_report.findings
               PROVE  f[2] \in {"coverage-floor", "absence", "unassigned"}
    BY DEF Reports
  <2>1. Data.contract.mode = "new-violations"
    BY DEF Data, load_architecture_data, Mode
  <2>2. load_baseline = Debt(Data)
    BY AllWritten DEF load_baseline, render_report, Inv, Leaves
  <2>3. \A v \in prune_baselined(classify_edges(Data), load_baseline) : rule_of(v) = "coverage-floor"
    <3>1. Debt(Data) = {Violation(v) : v \in {w \in classify_edges(Data) : rule_of(w) # "coverage-floor"}}
      BY <2>1 DEF Debt
    <3> QED BY <2>2, <3>1 DEF prune_baselined, Violation, baseline_entry, rule_of
  <2>4. PICK v : /\ f[2] = rule_of(v)
                 /\ \/ v \in prune_baselined(classify_edges(Data), load_baseline)
                    \/ v \in absence_findings(Data) \/ v \in unassigned_finding(Data)
    BY <2>1 DEF build_report, contract_findings, pair_findings, contract_rules, Finding
  <2>5. CASE v \in absence_findings(Data)
    BY <2>4, <2>5 DEF absence_findings, Verdict, rule_of
  <2>6. CASE v \in unassigned_finding(Data)
    BY <2>4, <2>6 DEF unassigned_finding, Verdict, rule_of
  <2> QED BY <2>3, <2>4, <2>5, <2>6
<1>2. Inv /\ [Next]_vars => [Settles]_vars
  BY <1>1
<1> QED BY <1>2, Invariance, PTL DEF Spec, FreezeSettles

--------------------------------------------------------------------------------
(* The readings of one contract agree. *)

\* The rules that classify_internal applies to an import of `to` between two components.
RulesBetween(components, source, target, to) ==
  LET spec == components[source]
      interface == components[target].interface
      prohibited == IF components[target].consumed_by # Anyone /\ source \notin components[target].consumed_by
                    THEN {"restricted-access"}
                    ELSE IF target \in spec.cannot_depend_on THEN {"forbidden-dependency"} ELSE {}
  IN IF prohibited # {} THEN prohibited
     ELSE (IF interface # {} /\ to \notin interface THEN {"interface-bypass"} ELSE {})
          \cup (IF target \in DOMAIN spec.depends_on
                THEN IF spec.depends_on[target] THEN {"deprecated-use"} ELSE {}
                ELSE IF target \in spec.must_depend_on THEN {} ELSE {"divergence"})

LEMMA RulesOfImport ==
  ASSUME NEW a, NEW d, Crosses(a, d), a.component_of[d.to] \in DOMAIN a.contract.components
  PROVE  {rule_of(v) : v \in classify_internal(a, d)} =
           RulesBetween(a.contract.components, a.component_of[d.from], a.component_of[d.to], d.to)
<1> DEFINE source == a.component_of[d.from]
           target == a.component_of[d.to]
           spec == a.contract.components[source]
           interface == a.contract.components[target].interface
           interfaces == declared_interfaces(a.contract)
           prohibited == prohibition(a.contract, source, target)
           rules == IF prohibited # {} THEN prohibited
                    ELSE {"interface-bypass" : n \in {m \in {target} \cap DOMAIN interfaces : d.to \notin interfaces[m]}}
                         \cup (IF target \in DOMAIN spec.depends_on
                               THEN IF spec.depends_on[target] THEN {"deprecated-use"} ELSE {}
                               ELSE IF Permits(spec, target) THEN {} ELSE {"divergence"})
<1>1. classify_internal(a, d) = {Verdict(r, source, target, d.from, d.specifier) : r \in rules}
  <2>1. d.from \in DOMAIN a.component_of /\ d.to \in DOMAIN a.component_of
    BY DEF Crosses
  <2> QED BY <2>1, Zenon DEF classify_internal
<1>2. {rule_of(v) : v \in classify_internal(a, d)} = rules
  <2> HIDE DEF rules
  <2>1. \A r : rule_of(Verdict(r, source, target, d.from, d.specifier)) = r
    BY DEF rule_of, Verdict
  <2> QED BY <1>1, <2>1
<1>3. {"interface-bypass" : n \in {m \in {target} \cap DOMAIN interfaces : d.to \notin interfaces[m]}} =
        IF interface # {} /\ d.to \notin interface THEN {"interface-bypass"} ELSE {}
  <2>1. target \in DOMAIN interfaces <=> interface # {}
    BY DEF declared_interfaces
  <2>2. target \in DOMAIN interfaces => interfaces[target] = interface
    BY DEF declared_interfaces
  <2> QED BY <2>1, <2>2
<1>4. prohibited = IF a.contract.components[target].consumed_by # Anyone
                         /\ source \notin a.contract.components[target].consumed_by
                    THEN {"restricted-access"}
                    ELSE IF target \in spec.cannot_depend_on THEN {"forbidden-dependency"} ELSE {}
  BY DEF prohibition
<1>5. target \notin DOMAIN spec.depends_on => (Permits(spec, target) <=> target \in spec.must_depend_on)
  BY DEF Permits
<1> HIDE DEF source, target, prohibited, interfaces
<1>6. rules = RulesBetween(a.contract.components, source, target, d.to)
  BY <1>3, <1>4, <1>5, Zenon DEF RulesBetween
<1> QED BY <1>2, <1>6 DEF source, target

\* A valid contract does not prohibit what it declares.
LEMMA DeclaredIsOpen ==
  ASSUME NEW c, validate(c), NEW n \in DOMAIN c.components,
         NEW t \in DOMAIN c.components[n].depends_on
  PROVE  /\ t \in DOMAIN c.components /\ t # n
         /\ prohibition(c, n, t) = {}
<1>1. /\ t \in DOMAIN c.components /\ t # n
      /\ t \notin c.components[n].cannot_depend_on
  BY DEF validate, validate_dependencies
<1>2. c.components[t].consumed_by = Anyone \/ n \in c.components[t].consumed_by
  BY <1>1 DEF validate, validate_access
<1> QED BY <1>1, <1>2 DEF prohibition

\* One component at most has the best claim to a file: its own.
LEMMA Assigned1 ==
  ASSUME NEW c, NEW g, Accepts(c, g)
  PROVE  LET data == load_architecture_data(c, g)
         IN /\ data.contract = c /\ data.graph = g
            /\ DOMAIN data.component_of \subseteq g.files
            /\ \A f \in DOMAIN data.component_of : data.component_of[f] \in DOMAIN c.components
<1>1. \A f : Claimants(c, f) \subseteq DOMAIN c.components
  BY DEF Claimants, Best, Claims
<1> DEFINE owner == assign_components(c, g.files)
<1>2. DOMAIN owner = {f \in g.files : Claimants(c, f) # {}}
  BY DEF assign_components
<1>3. \A f \in DOMAIN owner : owner[f] \in Claimants(c, f)
  BY <1>2 DEF assign_components
<1>4. /\ load_architecture_data(c, g).contract = c /\ load_architecture_data(c, g).graph = g
      /\ load_architecture_data(c, g).component_of = owner
  BY DEF load_architecture_data
<1> HIDE DEF owner
<1> QED BY <1>1, <1>2, <1>3, <1>4

LEMMA ViewOfFile ==
  ASSUME NEW c, NEW g, NEW f \in g.files, NEW v \in contract_view(c, {f}).components
  PROVE  LET data == load_architecture_data(c, g)
         IN /\ f \in DOMAIN data.component_of
            /\ v = ComponentView(c, data.component_of[f])
<1> DEFINE one == assign_components(c, {f})
           owner == assign_components(c, g.files)
<1>1. /\ DOMAIN one = {h \in {f} : Claimants(c, h) # {}}
      /\ DOMAIN owner = {h \in g.files : Claimants(c, h) # {}}
      /\ \A h \in DOMAIN one : one[h] = CHOOSE n \in Claimants(c, h) : TRUE
      /\ \A h \in DOMAIN owner : owner[h] = CHOOSE n \in Claimants(c, h) : TRUE
  BY DEF assign_components
<1>2. PICK n \in Range(one) : v = ComponentView(c, n)
  BY DEF contract_view
<1>3. load_architecture_data(c, g).component_of = owner
  BY DEF load_architecture_data
<1> HIDE DEF one, owner
<1>4. f \in DOMAIN one /\ n = one[f]
  BY <1>1, <1>2 DEF Range
<1> QED BY <1>1, <1>2, <1>3, <1>4

Bypass(components, target, to) ==
  IF components[target].interface # {} /\ to \notin components[target].interface
  THEN {"interface-bypass"} ELSE {}
ClosedTo(components, source, target) ==
  components[target].consumed_by # Anyone /\ source \notin components[target].consumed_by

LEMMA RulesCase ==
  ASSUME NEW C, NEW n, NEW t, NEW to
  PROVE  LET spec == C[n]
             rules == RulesBetween(C, n, t, to)
             free == ~ ClosedTo(C, n, t) /\ t \notin spec.cannot_depend_on
         IN /\ ClosedTo(C, n, t) => rules = {"restricted-access"}
            /\ ~ ClosedTo(C, n, t) /\ t \in spec.cannot_depend_on => rules = {"forbidden-dependency"}
            /\ free /\ t \in DOMAIN spec.depends_on =>
                 rules = Bypass(C, t, to) \cup (IF spec.depends_on[t] THEN {"deprecated-use"} ELSE {})
            /\ free /\ t \notin DOMAIN spec.depends_on /\ t \in spec.must_depend_on => rules = Bypass(C, t, to)
            /\ free /\ t \notin DOMAIN spec.depends_on /\ t \notin spec.must_depend_on =>
                 rules = Bypass(C, t, to) \cup {"divergence"}
<1>1. CASE ClosedTo(C, n, t)
  BY <1>1 DEF RulesBetween, ClosedTo
<1>2. CASE ~ ClosedTo(C, n, t) /\ t \in C[n].cannot_depend_on
  BY <1>2 DEF RulesBetween, ClosedTo
<1>3. CASE ~ ClosedTo(C, n, t) /\ t \notin C[n].cannot_depend_on
  <2>1. CASE t \in DOMAIN C[n].depends_on
    BY <1>3, <2>1, Zenon DEF RulesBetween, ClosedTo, Bypass
  <2>2. CASE t \notin DOMAIN C[n].depends_on
    <3>1. RulesBetween(C, n, t, to) =
            Bypass(C, t, to) \cup (IF t \in C[n].must_depend_on THEN {} ELSE {"divergence"})
      BY <1>3, <2>2, Zenon DEF RulesBetween, ClosedTo, Bypass
    <3> QED BY <1>3, <2>2, <3>1
  <2> QED BY <1>3, <2>1, <2>2
<1> QED BY <1>1, <1>2, <1>3

LEMMA BypassOnly ==
  ASSUME NEW C, NEW t, NEW to
  PROVE  /\ Bypass(C, t, to) \subseteq {"interface-bypass"}
         /\ C[t].interface # {} /\ to \notin C[t].interface => Bypass(C, t, to) = {"interface-bypass"}
         /\ C[t].interface = {} \/ to \in C[t].interface => Bypass(C, t, to) = {}
BY DEF Bypass

LEMMA OpenPair ==
  ASSUME NEW c, NEW n, NEW t
  PROVE  prohibition(c, n, t) = {} <=> ~ ClosedTo(c.components, n, t) /\ t \notin c.components[n].cannot_depend_on
BY DEF prohibition, ClosedTo

LEMMA DeclaredRules ==
  ASSUME NEW c, validate(c), NEW n \in DOMAIN c.components,
         NEW t \in DOMAIN c.components[n].depends_on, NEW to
  PROVE  RulesBetween(c.components, n, t, to) =
           Bypass(c.components, t, to) \cup (IF c.components[n].depends_on[t] THEN {"deprecated-use"} ELSE {})
BY DeclaredIsOpen, OpenPair, RulesCase

\* What a view says of an import of h, a file of t, matches the rules that speak of it.
Matches(view, t, h, rules) ==
  LET open == {a \in view.may_import : a.component = t /\ (a.via = {} \/ h \in a.via)}
  IN /\ \A a \in open : rules = IF a.deprecated THEN {"deprecated-use"} ELSE {}
     /\ (open = {} /\ t \notin view.must_import) => rules \ {"deprecated-use"} # {}
     /\ t \in view.must_not_import =>
          rules \cap {"restricted-access", "forbidden-dependency"} # {}

\* `show` and the check: what the view of a component opens is what the check lets pass.
LEMMA ShowMatches ==
  ASSUME NEW c, validate(c), NEW n \in DOMAIN c.components, NEW t, NEW h,
         NEW view, view = ComponentView(c, n),
         NEW rules, rules = RulesBetween(c.components, n, t, h)
  PROVE  Matches(view, t, h, rules)
<1> DEFINE spec == c.components[n]
           via == c.components[t].interface
           open == {a \in view.may_import : a.component = t /\ (a.via = {} \/ h \in a.via)}
<1>1. /\ view.must_import = spec.must_depend_on /\ view.must_not_import = spec.cannot_depend_on
      /\ view.may_import = {AllowedImport(c, spec, u) : u \in DOMAIN spec.depends_on}
  BY DEF ComponentView
<1>2. ASSUME NEW a \in open PROVE rules = IF a.deprecated THEN {"deprecated-use"} ELSE {}
  <2>1. t \in DOMAIN spec.depends_on /\ a.deprecated = spec.depends_on[t] /\ a.via = via
    BY <1>1 DEF AllowedImport
  <2>2. rules = Bypass(c.components, t, h) \cup (IF spec.depends_on[t] THEN {"deprecated-use"} ELSE {})
    BY <2>1, DeclaredRules
  <2>3. Bypass(c.components, t, h) = {}
    BY <2>1, BypassOnly
  <2>4. rules = IF spec.depends_on[t] THEN {"deprecated-use"} ELSE {}
    BY <2>2, <2>3
  <2> QED BY <2>1, <2>4
<1>3. ASSUME open = {}, t \notin view.must_import PROVE rules \ {"deprecated-use"} # {}
  <2>1. CASE t \in DOMAIN spec.depends_on
    <3>1. AllowedImport(c, spec, t) \in view.may_import
      BY <1>1, <2>1
    <3>2. via # {} /\ h \notin via
      BY <1>3, <3>1 DEF AllowedImport
    <3>3. Bypass(c.components, t, h) = {"interface-bypass"}
      BY <3>2, BypassOnly
    <3>4. rules = Bypass(c.components, t, h) \cup (IF spec.depends_on[t] THEN {"deprecated-use"} ELSE {})
      BY <2>1, DeclaredRules
    <3> QED BY <3>3, <3>4
  <2>2. CASE t \notin DOMAIN spec.depends_on
    <3>1. CASE ClosedTo(c.components, n, t)
      BY <3>1, RulesCase
    <3>2. CASE ~ ClosedTo(c.components, n, t) /\ t \in spec.cannot_depend_on
      BY <3>2, RulesCase
    <3>3. CASE ~ ClosedTo(c.components, n, t) /\ t \notin spec.cannot_depend_on
      <4>1. "divergence" \in rules
        BY <1>1, <1>3, <2>2, <3>3, RulesCase
      <4> QED BY <4>1
    <3> QED BY <3>1, <3>2, <3>3
  <2> QED BY <2>1, <2>2
<1>4. ASSUME t \in view.must_not_import
      PROVE  rules \cap {"restricted-access", "forbidden-dependency"} # {}
  <2>1. rules = {"restricted-access"} \/ rules = {"forbidden-dependency"}
    BY <1>1, <1>4, RulesCase
  <2> QED BY <2>1
<1> QED BY <1>2, <1>3, <1>4, Zenon DEF Matches

\* One rule at most speaks of an import besides the interface, and it is silent just
\* where the contract permits the dependency.
LEMMA OneVerdict ==
  ASSUME NEW c, NEW n, NEW t, NEW to,
         NEW rules, rules = RulesBetween(c.components, n, t, to) \ {"interface-bypass"}
  PROVE  /\ Cardinality(rules) <= 1
         /\ rules \subseteq {"deprecated-use"} <=>
              prohibition(c, n, t) = {} /\ Permits(c.components[n], t)
<1> DEFINE C == c.components
           spec == C[n]
<1>1. Bypass(C, t, to) \subseteq {"interface-bypass"}
  BY BypassOnly
<1>2. Cardinality({}) = 0 /\ \A x : Cardinality({x}) = 1
  BY FS_EmptySet, FS_Singleton
<1>3. CASE ClosedTo(C, n, t)
  <2>1. rules = {"restricted-access"}
    BY <1>3, RulesCase
  <2>2. Cardinality(rules) = 1 /\ ~ rules \subseteq {"deprecated-use"}
    BY <1>2, <2>1
  <2>3. prohibition(c, n, t) # {}
    BY <1>3, OpenPair
  <2> QED BY <2>2, <2>3
<1>4. CASE ~ ClosedTo(C, n, t) /\ t \in spec.cannot_depend_on
  <2>1. rules = {"forbidden-dependency"}
    BY <1>4, RulesCase
  <2>2. Cardinality(rules) = 1 /\ ~ rules \subseteq {"deprecated-use"}
    BY <1>2, <2>1
  <2>3. prohibition(c, n, t) # {}
    BY <1>4, OpenPair
  <2> QED BY <2>2, <2>3
<1>5. CASE ~ ClosedTo(C, n, t) /\ t \notin spec.cannot_depend_on
  <2>1. prohibition(c, n, t) = {}
    BY <1>5, OpenPair
  <2>2. CASE t \in DOMAIN spec.depends_on
    <3>1. rules = {"deprecated-use"} \/ rules = {}
      BY <1>1, <1>5, <2>2, RulesCase
    <3> QED BY <1>2, <2>1, <2>2, <3>1 DEF Permits
  <2>3. CASE t \notin DOMAIN spec.depends_on /\ t \in spec.must_depend_on
    <3>1. rules = {}
      BY <1>1, <1>5, <2>3, RulesCase
    <3> QED BY <1>2, <2>1, <2>3, <3>1 DEF Permits
  <2>4. CASE t \notin DOMAIN spec.depends_on /\ t \notin spec.must_depend_on
    <3>1. rules = {"divergence"}
      BY <1>1, <1>5, <2>4, RulesCase
    <3>2. Cardinality(rules) = 1 /\ ~ rules \subseteq {"deprecated-use"}
      BY <1>2, <3>1
    <3>3. ~ Permits(spec, t)
      BY <2>4 DEF Permits
    <3> QED BY <3>2, <3>3
  <2> QED BY <2>2, <2>3, <2>4
<1> QED BY <1>3, <1>4, <1>5

LEMMA ShowHolds ==
  ASSUME Loadable PROVE ShowAgrees(load_architecture_data(contract, graph))
<1> DEFINE data == load_architecture_data(contract, graph)
           owner == data.component_of
<1>1. /\ data.contract = contract /\ validate(contract)
      /\ \A h \in DOMAIN owner : owner[h] \in DOMAIN contract.components
  BY Assigned1 DEF Loadable, Accepts
<1>2. ASSUME NEW f \in graph.files, NEW v \in contract_view(contract, {f}).components
      PROVE  f \in DOMAIN owner /\ v = ComponentView(contract, owner[f]) /\ v.name = owner[f]
  <2>1. f \in DOMAIN owner /\ v = ComponentView(contract, owner[f])
    BY ViewOfFile
  <2>2. \A n : ComponentView(contract, n).name = n
    BY DEF ComponentView
  <2> HIDE DEF data
  <2> QED BY <2>1, <2>2
<1> HIDE DEF data
<1>3. ASSUME NEW f \in graph.files, NEW v \in contract_view(contract, {f}).components,
             NEW h \in DOMAIN owner, owner[h] # v.name
      PROVE  {rule_of(w) : w \in classify_internal(data,
                [from |-> f, to |-> h, specifier |-> <<>>, external |-> FALSE])}
             = RulesBetween(contract.components, owner[f], owner[h], h)
  <2> DEFINE d == [from |-> f, to |-> h, specifier |-> <<>>, external |-> FALSE]
  <2>1. d.from = f /\ d.to = h /\ d.external = FALSE
    OBVIOUS
  <2> HIDE DEF d
  <2>2. Crosses(data, d)
    BY <1>2, <1>3, <2>1 DEF Crosses
  <2>3. {rule_of(w) : w \in classify_internal(data, d)} = RulesBetween(contract.components, owner[f], owner[h], h)
    BY <1>1, <1>3, <2>1, <2>2, RulesOfImport
  <2> QED BY <2>3 DEF d
<1>4. ASSUME NEW f \in graph.files, NEW v \in contract_view(contract, {f}).components,
             NEW h \in DOMAIN owner, owner[h] # v.name
      PROVE  Matches(v, owner[h], h, {rule_of(w) : w \in classify_internal(data,
                [from |-> f, to |-> h, specifier |-> <<>>, external |-> FALSE])})
  <2> DEFINE n == owner[f]
             t == owner[h]
             rules == {rule_of(w) : w \in classify_internal(data,
                         [from |-> f, to |-> h, specifier |-> <<>>, external |-> FALSE])}
  <2>1. v = ComponentView(contract, n) /\ n \in DOMAIN contract.components
    BY <1>1, <1>2
  <2>2. validate(contract) /\ rules = RulesBetween(contract.components, n, t, h)
    BY <1>1, <1>3, <1>4
  <2> HIDE DEF n, t, rules
  <2> HIDE DEF owner
  <2>3. Matches(v, t, h, rules)
    BY <2>1, <2>2, ShowMatches
  <2> QED BY <2>3 DEF n, t, rules, owner
<1>5. ShowAgrees(data)
  BY <1>4, Zenon DEF ShowAgrees, Matches
<1> QED BY <1>5 DEF data

\* Both readings of the graph, for absences and for `diff`, find a declared dependency
\* implemented by the same imports.
LEMMA AbsencesAgree ==
  ASSUME NEW c, NEW g \in AllGraphs, Accepts(c, g)
  PROVE  LET data == load_architecture_data(c, g)
         IN {<<e.source, e.target>> : e \in {x \in declared_edges(data) : x.occurrences = 0}}
              = {pair_of(v) : v \in absence_findings(data)}
<1> DEFINE data == load_architecture_data(c, g)
           owner == data.component_of
           Declared == UNION {{n} \X DOMAIN c.components[n].depends_on : n \in DOMAIN c.components}
           Imported(m, n) == {d \in g.dependencies :
                               /\ d.from \in DOMAIN owner /\ d.to \in DOMAIN owner
                               /\ owner[d.from] = m /\ owner[d.to] = n}
<1>1. /\ data.contract = c /\ data.graph = g /\ validate(c) /\ DOMAIN owner \subseteq g.files
      /\ \A f \in DOMAIN owner : owner[f] \in DOMAIN c.components
  BY Assigned1 DEF Accepts
<1>2. IsFiniteSet(g.dependencies) /\ \A d \in g.dependencies : d.external => d.to \notin g.files
  BY IndexedGraphs
<1> HIDE DEF data
<1>3. ASSUME NEW m, NEW n PROVE Cardinality(Imported(m, n)) = 0 <=> Imported(m, n) = {}
  <2>1. IsFiniteSet(Imported(m, n))
    BY <1>2, FS_Subset
  <2> QED BY <2>1, FS_EmptySet
<1>4. declared_edges(data) =
        {[source |-> p[1], target |-> p[2], occurrences |-> Cardinality(Imported(p[1], p[2]))] : p \in Declared}
  BY <1>1, Zenon DEF declared_edges
<1>5. {pair_of(v) : v \in absence_findings(data)} = Declared \ Observed(data)
  <2>1. absence_findings(data) = {Verdict("absence", p[1], p[2], NoTarget, p[2]) : p \in Declared \ Observed(data)}
    BY <1>1, Zenon DEF absence_findings
  <2>2. \A p \in Declared : pair_of(Verdict("absence", p[1], p[2], NoTarget, p[2])) = p
    BY DEF pair_of, Verdict
  <2> HIDE DEF Declared
  <2> QED BY <2>1, <2>2
<1>6. ASSUME NEW p \in Declared PROVE p \in Observed(data) <=> Imported(p[1], p[2]) # {}
  <2>1. /\ p[1] \in DOMAIN c.components /\ p[2] \in DOMAIN c.components[p[1]].depends_on
        /\ p = <<p[1], p[2]>>
    OBVIOUS
  <2>2. p[1] # p[2] /\ prohibition(c, p[1], p[2]) = {} /\ Permits(c.components[p[1]], p[2])
    BY <1>1, <2>1, DeclaredIsOpen DEF Permits
  <2>3. p \in Observed(data) <=>
          \E d \in g.dependencies : Crosses(data, d) /\ p = <<owner[d.from], owner[d.to]>>
    BY <1>1, <2>2 DEF Observed
  <2>4. \A d \in g.dependencies :
          (Crosses(data, d) /\ p = <<owner[d.from], owner[d.to]>>) <=> d \in Imported(p[1], p[2])
    BY <1>1, <1>2, <2>1, <2>2 DEF Crosses
  <2> QED BY <2>3, <2>4
<1> HIDE DEF Declared, Imported
<1>7. {<<e.source, e.target>> : e \in {x \in declared_edges(data) : x.occurrences = 0}}
        = {p \in Declared : Imported(p[1], p[2]) = {}}
  <2> DEFINE Row(p) == [source |-> p[1], target |-> p[2], occurrences |-> Cardinality(Imported(p[1], p[2]))]
  <2>1. \A p \in Declared : p = <<p[1], p[2]>>
    BY DEF Declared
  <2>2. \A p : /\ Row(p).source = p[1] /\ Row(p).target = p[2]
               /\ Row(p).occurrences = 0 <=> Imported(p[1], p[2]) = {}
    BY <1>3
  <2>3. declared_edges(data) = {Row(p) : p \in Declared}
    BY <1>4
  <2> HIDE DEF Row
  <2>4. {x \in declared_edges(data) : x.occurrences = 0}
          = {Row(p) : p \in {q \in Declared : Imported(q[1], q[2]) = {}}}
    BY <2>2, <2>3
  <2>5. \A p \in Declared : <<Row(p).source, Row(p).target>> = p
    BY <2>1, <2>2
  <2> QED BY <2>4, <2>5
<1> QED BY <1>5, <1>6, <1>7 DEF data

\* In every state the readings of the contract agree, for all contracts and graphs
\* (`classify_internal`, `absence_findings`, `declared_edges` and `contract_view`).
THEOREM ReadingsAgree == Spec => []VerdictsAgree
<1>1. ASSUME InRepository, Loadable PROVE VerdictsAgree
  <2> DEFINE data == load_architecture_data(contract, graph)
             Absent == {pair_of(v) : v \in absence_findings(data)}
  <2>1. /\ data.contract = contract /\ data.graph = graph
        /\ \A f \in DOMAIN data.component_of : data.component_of[f] \in DOMAIN contract.components
    BY <1>1, Assigned1 DEF Loadable
  <2>2. validate(contract)
    BY <1>1 DEF Loadable, Accepts
  <2>3. ShowAgrees(data)
    BY <1>1, ShowHolds
  <2>4. {<<e.source, e.target>> : e \in {x \in declared_edges(data) : x.occurrences = 0}} = Absent
    BY <1>1, AbsencesAgree DEF InRepository, Loadable
  <2> HIDE DEF data
  <2>5. ASSUME NEW d \in graph.dependencies, Crosses(data, d)
        PROVE  LET rules == {rule_of(v) : v \in classify_internal(data, d)} \ {"interface-bypass"}
                   pair == <<data.component_of[d.from], data.component_of[d.to]>>
               IN /\ Cardinality(rules) <= 1
                  /\ (pair \in Observed(data)) = (rules \subseteq {"deprecated-use"})
                  /\ pair \notin Absent
                  /\ pair[2] \in DOMAIN contract.components[pair[1]].depends_on => pair \in Observed(data)
    <3> DEFINE n == data.component_of[d.from]
               t == data.component_of[d.to]
               rules == {rule_of(v) : v \in classify_internal(data, d)} \ {"interface-bypass"}
    <3>1. rules = RulesBetween(contract.components, n, t, d.to) \ {"interface-bypass"}
      BY <2>1, <2>5, RulesOfImport DEF Crosses
    <3>2. n \in DOMAIN contract.components
      BY <2>1, <2>5 DEF Crosses
    <3>3. <<n, t>> \in Observed(data) <=> prohibition(contract, n, t) = {} /\ Permits(contract.components[n], t)
      BY <2>1, <2>5 DEF Observed
    <3>4. t \in DOMAIN contract.components[n].depends_on =>
            prohibition(contract, n, t) = {} /\ Permits(contract.components[n], t)
      BY <2>2, <3>2, DeclaredIsOpen DEF Permits
    <3>5. \A p \in Absent : p \notin Observed(data) /\ p[2] \in DOMAIN contract.components[p[1]].depends_on
      BY <2>1 DEF absence_findings, pair_of, Verdict
    <3>6. Cardinality(rules) <= 1 /\ (rules \subseteq {"deprecated-use"} <=> <<n, t>> \in Observed(data))
      BY <3>1, <3>3, OneVerdict
    <3>7. <<n, t>> \notin Absent
      BY <3>3, <3>4, <3>5
    <3> HIDE DEF n, t, rules
    <3>8. /\ Cardinality(rules) <= 1
          /\ (<<n, t>> \in Observed(data)) = (rules \subseteq {"deprecated-use"})
          /\ <<n, t>> \notin Absent
          /\ t \in DOMAIN contract.components[n].depends_on => <<n, t>> \in Observed(data)
      BY <3>3, <3>4, <3>6, <3>7
    <3> QED BY <3>8 DEF n, t, rules
  <2> HIDE DEF Absent
  <2> QED BY <2>3, <2>4, <2>5, Zenon DEF VerdictsAgree, data, Absent
<1>2. Inv => VerdictsAgree
  BY <1>1 DEF Inv, VerdictsAgree
<1> QED BY <1>2, Invariance, PTL

--------------------------------------------------------------------------------
(* What is suggested is what a check finds. *)

IsShare(p) == p \in Nat \X (Nat \ {0})

LEMMA HigherIsTransitive ==
  ASSUME NEW p, NEW q, NEW r, IsShare(p), IsShare(q), IsShare(r), Higher(p, q), Higher(q, r)
  PROVE  Higher(p, r)
<1>1. /\ p[1] \in Nat /\ q[1] \in Nat /\ r[1] \in Nat
      /\ p[2] \in Nat \ {0} /\ q[2] \in Nat \ {0} /\ r[2] \in Nat \ {0}
  BY DEF IsShare
<1>2. \A a, b, c, d, e, f \in Nat : a * d > b * c /\ b * f > e * d /\ c > 0 /\ d > 0 /\ f > 0 => a * f > e * c
  <2> TAKE a, b, c, d, e, f \in Nat
  <2> HAVE a * d > b * c /\ b * f > e * d /\ c > 0 /\ d > 0 /\ f > 0
  <2>1. \A x, y, k \in Nat : x > y /\ k > 0 => x * k > y * k
    OBVIOUS
  <2>2. \A x, y, k \in Nat : x * k > y * k => x > y
    OBVIOUS
  <2>3. (a * d) * f > (b * c) * f
    BY <2>1
  <2>4. (b * f) * c > (e * d) * c
    BY <2>1
  <2>5. /\ (a * d) * f = (a * f) * d /\ (b * c) * f = (b * f) * c /\ (e * d) * c = (e * c) * d
    OBVIOUS
  <2>6. (a * f) * d > (e * c) * d
    BY <2>3, <2>4, <2>5
  <2> QED BY <2>2, <2>6
<1> QED BY <1>1, <1>2 DEF Higher

LEMMA HigherIsStrict ==
  ASSUME NEW p, NEW q, IsShare(p), IsShare(q), Higher(p, q)
  PROVE  ~ Higher(q, p)
<1>1. p[1] * q[2] \in Nat /\ q[1] * p[2] \in Nat
  BY DEF IsShare
<1> QED BY <1>1 DEF Higher

\* What a fit counts.
Inside(edges, owner) == {d \in edges : d.from \in DOMAIN owner /\ d.to \in DOMAIN owner}
Allows(c, s, t) == s = t \/ t \in DOMAIN c.components[s].depends_on
Counts(x, c, owner, edges) ==
  LET internal == Inside(edges, owner)
      allowed == {d \in internal : Allows(c, owner[d.from], owner[d.to])}
  IN /\ \E f, g \in DOMAIN owner : owner[f] # owner[g]
     /\ x.allowed = Cardinality(allowed) /\ x.internal = Cardinality(internal)
     /\ IsShare(Score(x)) /\ IsFiniteSet(internal)

LEMMA FitCounts ==
  ASSUME NEW c, NEW prefix, NEW r, NEW files, IsFiniteSet(files), NEW edges, IsFiniteSet(edges),
         NEW x \in evaluate_fit(c, prefix, r, files, edges)
  PROVE  /\ x.root = r /\ ~ Contested(rebind(c, prefix, r), files)
         /\ Counts(x, rebind(c, prefix, r), assign_components(rebind(c, prefix, r), files), edges)
<1> DEFINE rebound == rebind(c, prefix, r)
           owner == assign_components(rebound, files)
           assigned == DOMAIN owner \cap JsTs
           matched == {owner[f] : f \in assigned}
           internal == {d \in edges : d.from \in DOMAIN owner /\ d.to \in DOMAIN owner}
           allowed == {d \in internal :
                         LET s == owner[d.from]
                             t == owner[d.to]
                         IN s = t \/ t \in DOMAIN rebound.components[s].depends_on}
           fit == [root |-> r, assigned |-> Cardinality(assigned), source |-> Cardinality(files \cap JsTs),
                   allowed |-> Cardinality(allowed), internal |-> Cardinality(internal), matched |-> matched]
<1>1. /\ ~ Contested(rebound, files) /\ ~ (Cardinality(assigned) < 2)
      /\ ~ (Cardinality(matched) < 2) /\ internal # {}
      /\ x = fit
  <2>1. evaluate_fit(c, prefix, r, files, edges) =
          IF \/ Contested(rebound, files) \/ Cardinality(assigned) < 2
             \/ Cardinality(matched) < 2 \/ internal = {}
          THEN {} ELSE {fit}
    BY DEF evaluate_fit
  <2> HIDE DEF rebound, owner, assigned, matched, internal, allowed, fit
  <2> QED BY <2>1
<1>2. DOMAIN owner \subseteq files
  BY DEF assign_components
<1> HIDE DEF rebound, owner
<1>3. /\ IsFiniteSet(assigned) /\ IsFiniteSet(internal) /\ IsFiniteSet(allowed) /\ IsFiniteSet(files \cap JsTs)
  BY <1>2, FS_Subset
<1>4. assigned \in SUBSET (files \cap JsTs)
  BY <1>2
<1>5. /\ Cardinality(assigned) \in Nat /\ Cardinality(internal) \in Nat /\ Cardinality(allowed) \in Nat
      /\ Cardinality(files \cap JsTs) \in Nat
  BY <1>3, FS_CardinalityType
<1>6. Cardinality(internal) > 0 /\ Cardinality(files \cap JsTs) > 0
  <2>1. Cardinality(internal) # 0
    BY <1>1, <1>3, FS_EmptySet
  <2>2. Cardinality(assigned) <= Cardinality(files \cap JsTs)
    BY <1>3, <1>4, FS_Subset
  <2> QED BY <1>1, <1>5, <2>1, <2>2
<1>7. \E f, g \in DOMAIN owner : owner[f] # owner[g]
  <2> SUFFICES ASSUME \A f, g \in DOMAIN owner : owner[f] = owner[g] PROVE FALSE
    OBVIOUS
  <2>1. matched = {} \/ \E m : matched = {m}
    OBVIOUS
  <2>2. Cardinality(matched) = 0 \/ Cardinality(matched) = 1
    <3> HIDE DEF matched
    <3> QED BY <2>1, FS_EmptySet, FS_Singleton
  <2> HIDE DEF matched
  <2> QED BY <1>1, <2>2
<1> HIDE DEF assigned, matched, internal, allowed
<1>8. /\ x.root = r /\ x.allowed = Cardinality(allowed) /\ x.internal = Cardinality(internal)
      /\ x.assigned = Cardinality(assigned) /\ x.source = Cardinality(files \cap JsTs)
  BY <1>1
<1>9. IsShare(Score(x))
  <2>1. \A a, b \in Nat : a * b \in Nat
    OBVIOUS
  <2>2. \A a, b \in Nat : a > 0 /\ b > 0 => a * b \in Nat \ {0}
    OBVIOUS
  <2> QED BY <1>5, <1>6, <1>8, <2>1, <2>2 DEF IsShare, Score
<1>10. allowed = {d \in Inside(edges, owner) : Allows(rebound, owner[d.from], owner[d.to])}
       /\ internal = Inside(edges, owner)
  BY DEF allowed, internal, Inside, Allows
<1>11. Counts(x, rebound, owner, edges)
  BY <1>3, <1>7, <1>8, <1>9, <1>10 DEF Counts
<1> QED BY <1>1, <1>8, <1>11 DEF rebound, owner

LEMMA CanonicalLength ==
  ASSUME NEW c, Globs(c) # {}, \A g \in Globs(c) : Path(g.dir)
  PROVE  Len(canonical_root(c)) \in Nat
<1> DEFINE dirs == {g.dir : g \in Globs(c)}
           lengths == {Len(d) : d \in dirs}
           shared == {n \in 0 .. Min(lengths) : \A d, e \in dirs : SubSeq(d, 1, n) = SubSeq(e, 1, n)}
           dir == CHOOSE d \in dirs : TRUE
<1>1. dir \in dirs /\ \A d \in dirs : Path(d) /\ Len(d) \in Nat
  BY DEF Path
<1>2. lengths \subseteq Nat /\ lengths # {}
  BY <1>1
<1>3. Min(lengths) \in lengths /\ \A n \in lengths : Min(lengths) <= n
  BY <1>2, LeastOfNumbers
<1>4. Min(lengths) \in Nat /\ Min(lengths) <= Len(dir)
  BY <1>1, <1>2, <1>3
<1> DEFINE up == {n + 1 : n \in shared}
<1>5. 0 \in shared
  <2>1. \A d \in dirs : SubSeq(d, 1, 0) = <<>>
    BY SubSeqEmpty
  <2> HIDE DEF dirs, lengths
  <2> QED BY <1>4, <2>1
<1>6. \A n \in shared : n \in 0 .. Min(lengths)
  OBVIOUS
<1>7. PICK L \in Nat : L = Min(lengths)
  BY <1>4
<1>8. Max(shared) \in Nat /\ Max(shared) <= Len(dir)
  <2> HIDE DEF dirs, lengths, dir, shared
  <2>0. \A n \in shared : n \in Nat /\ n <= L
    BY <1>6, <1>7
  <2>1. \A i \in up : i \in 1 .. L + 1
    BY <2>0
  <2>2. up \in SUBSET (1 .. L + 1) /\ up # {}
    BY <1>5, <2>1
  <2> HIDE DEF up
  <2>3. Max(up) \in up /\ \A i \in up : i <= Max(up)
    <3>1. L + 1 \in Nat
      OBVIOUS
    <3> QED BY <2>2, <3>1, LargestPlace
  <2>4. PICK m \in shared : Max(up) = m + 1
    BY <2>3 DEF up
  <2>5. \A n \in shared : n + 1 \in up
    BY DEF up
  <2>6. \A n \in shared : m >= n
    BY <2>0, <2>3, <2>4, <2>5
  <2>7. Max(shared) \in shared
    BY <2>6 DEF Max
  <2>8. Max(shared) \in Nat /\ Max(shared) <= L
    BY <2>0, <2>7
  <2>9. Len(dir) \in Nat /\ L <= Len(dir)
    BY <1>1, <1>4, <1>7
  <2> QED BY <2>8, <2>9
<1>9. Len(SubSeq(dir, 1, Max(shared))) = Max(shared)
  <2> HIDE DEF shared
  <2>1. dir \in Seq(Range(dir)) /\ Len(dir) \in Nat
    BY <1>1 DEF Path
  <2>2. \A i \in 1 .. Max(shared) : dir[i] \in Range(dir)
    BY <1>8, <2>1, ElementOfSeq
  <2> QED BY <1>8, <2>2, SubSeqProperties
<1>10. canonical_root(c) = SubSeq(dir, 1, Max(shared))
  BY DEF canonical_root
<1> QED BY <1>8, <1>9, <1>10

LEMMA RootsAreFinite ==
  ASSUME NEW files, IsFiniteSet(files), \A f \in files : Path(f.dir), NEW anchors
  PROVE  IsFiniteSet(candidate_roots(files, anchors))
<1> DEFINE Places(f) == {k \in 1 .. Len(f.dir) + 1 : segment(f, k) \in anchors}
           Under(f) == {SubSeq(f.dir, 1, i - 1) : i \in Places(f)}
<1>1. ASSUME NEW f \in files PROVE IsFiniteSet(Under(f))
  <2>1. Len(f.dir) + 1 \in Nat
    BY DEF Path
  <2>2. IsFiniteSet(1 .. Len(f.dir) + 1)
    BY <2>1, FS_Interval
  <2>3. IsFiniteSet(Places(f))
    BY <2>2, FS_Subset
  <2> DEFINE cut == [i \in Places(f) |-> SubSeq(f.dir, 1, i - 1)]
  <2>4. Under(f) = {cut[i] : i \in Places(f)} /\ DOMAIN cut = Places(f)
    OBVIOUS
  <2> HIDE DEF cut, Places
  <2>5. IsFiniteSet({cut[i] : i \in Places(f)})
    BY <2>3, <2>4, ImageIsFinite
  <2> QED BY <2>4, <2>5
<1> DEFINE under == [f \in files |-> Under(f)]
           all == {under[f] : f \in files}
<1>2. \A U \in all : IsFiniteSet(U)
  BY <1>1
<1>3. candidate_roots(files, anchors) = {<<>>} \cup UNION all
  BY DEF candidate_roots
<1>4. DOMAIN under = files
  OBVIOUS
<1> HIDE DEF under
<1>5. IsFiniteSet(all)
  BY <1>4, ImageIsFinite
<1> HIDE DEF all
<1>6. IsFiniteSet(UNION all)
  BY <1>2, <1>5, FS_UNION
<1>7. IsFiniteSet({<<>>})
  BY FS_Singleton
<1> QED BY <1>3, <1>6, <1>7, FS_Union

LEMMA FitsAreFinite ==
  ASSUME NEW template, NEW files, IsFiniteSet(files), \A f \in files : Path(f.dir), NEW edges
  PROVE  IsFiniteSet(Fits(template, files, edges))
<1> DEFINE prefix == canonical_root(template.contract)
           roots == candidate_roots(files, anchor_segments(template, prefix))
           fit == [r \in roots |-> evaluate_fit(template.contract, prefix, r, files, edges)]
           all == {fit[r] : r \in roots}
<1>1. IsFiniteSet(roots)
  BY RootsAreFinite
<1>2. Fits(template, files, edges) = UNION all
  BY DEF Fits
<1>3. \A r : IsFiniteSet(evaluate_fit(template.contract, prefix, r, files, edges))
  <2> HIDE DEF prefix
  <2> TAKE r
  <2>1. \/ evaluate_fit(template.contract, prefix, r, files, edges) = {}
        \/ \E x : evaluate_fit(template.contract, prefix, r, files, edges) = {x}
    BY Zenon DEF evaluate_fit
  <2>2. \A x : IsFiniteSet({x})
    BY FS_Singleton
  <2> QED BY <2>1, <2>2, FS_EmptySet
<1>4. \A U \in all : IsFiniteSet(U)
  BY <1>3
<1>5. IsFiniteSet(all)
  <2>1. DOMAIN fit = roots
    OBVIOUS
  <2> HIDE DEF fit, roots
  <2> QED BY <1>1, <2>1, ImageIsFinite
<1> HIDE DEF all
<1> QED BY <1>2, <1>4, <1>5, FS_UNION

\* A template that is bound elsewhere keeps everything but its directories.
IsRebound(bound, c, prefix, root) ==
  /\ DOMAIN bound = DOMAIN c /\ DOMAIN bound.components = DOMAIN c.components
  /\ \A n \in DOMAIN c.components :
       LET old == c.components[n]
           new == bound.components[n]
       IN /\ new.depends_on = old.depends_on /\ new.cannot_depend_on = {} /\ new.must_depend_on = {}
          /\ new.consumed_by = Anyone
          /\ new.max_cyclomatic = old.max_cyclomatic /\ new.min_coverage = old.min_coverage
          /\ new.paths # {}
          /\ \A p \in new.paths : \E g \in old.paths :
               /\ p.rest \in {"**", "below"}
               /\ p.dir = root \o SubSeq(g.dir, Len(prefix) + 1, Len(g.dir))

LEMMA Rebound ==
  ASSUME NEW t \in DOMAIN TEMPLATES, NEW prefix, NEW root
  PROVE  IsRebound(rebind(TEMPLATES[t].contract, prefix, root), TEMPLATES[t].contract, prefix, root)
<1> DEFINE c == TEMPLATES[t].contract
           bound == rebind(c, prefix, root)
           moved(g) == [g EXCEPT !.dir = root \o SubSeq(@, Len(prefix) + 1, Len(@))]
           spec(n) == [c.components[n] EXCEPT !.paths = {moved(g) : g \in c.components[n].paths}]
<1>1. /\ DOMAIN c = {"mode", "unassigned", "coupling", "components"}
      /\ \A n \in DOMAIN c.components :
           /\ DOMAIN c.components[n] = DOMAIN PlainComponent
           /\ c.components[n].cannot_depend_on = {} /\ c.components[n].must_depend_on = {}
           /\ c.components[n].consumed_by = Anyone
           /\ \A g \in c.components[n].paths : {"dir", "rest"} \subseteq DOMAIN g /\ g.rest \in {"**", "below"} /\ Path(g.dir)
      /\ \A n \in DOMAIN c.components : c.components[n].paths # {}
  BY TemplatesAreLayers DEF validate
<1>2. /\ DOMAIN bound = DOMAIN c
      /\ bound.components = [n \in DOMAIN c.components |-> spec(n)]
  <2>1. bound = [c EXCEPT !.components = [n \in DOMAIN c.components |-> spec(n)]]
    BY DEF rebind
  <2>2. "components" \in DOMAIN c
    BY <1>1
  <2> HIDE DEF c, spec, bound
  <2> QED BY <2>1, <2>2
<1>3. {"depends_on", "cannot_depend_on", "must_depend_on", "consumed_by", "max_cyclomatic", "min_coverage", "paths"}
        \subseteq DOMAIN PlainComponent
  BY DEF PlainComponent
<1>4. ASSUME NEW n \in DOMAIN c.components
      PROVE  /\ spec(n).depends_on = c.components[n].depends_on
             /\ spec(n).cannot_depend_on = c.components[n].cannot_depend_on
             /\ spec(n).must_depend_on = c.components[n].must_depend_on
             /\ spec(n).consumed_by = c.components[n].consumed_by
             /\ spec(n).max_cyclomatic = c.components[n].max_cyclomatic
             /\ spec(n).min_coverage = c.components[n].min_coverage
             /\ spec(n).paths = {moved(g) : g \in c.components[n].paths}
  <2> DEFINE old == c.components[n]
             paths == {moved(g) : g \in c.components[n].paths}
  <2>1. spec(n) = [old EXCEPT !.paths = paths]
    OBVIOUS
  <2>2. {"depends_on", "cannot_depend_on", "must_depend_on", "consumed_by", "max_cyclomatic", "min_coverage", "paths"}
          \subseteq DOMAIN old
    BY <1>1, <1>3
  <2> HIDE DEF c, paths, moved, old, spec
  <2>3. /\ spec(n).depends_on = old.depends_on
        /\ spec(n).cannot_depend_on = old.cannot_depend_on
        /\ spec(n).must_depend_on = old.must_depend_on
        /\ spec(n).consumed_by = old.consumed_by
        /\ spec(n).max_cyclomatic = old.max_cyclomatic
        /\ spec(n).min_coverage = old.min_coverage
        /\ spec(n).paths = paths
    BY <2>1, <2>2
  <2> QED BY <2>3 DEF old, paths
<1>5. ASSUME NEW n \in DOMAIN c.components, NEW g \in c.components[n].paths
      PROVE  /\ moved(g).rest \in {"**", "below"}
             /\ moved(g).dir = root \o SubSeq(g.dir, Len(prefix) + 1, Len(g.dir))
  <2>1. {"dir", "rest"} \subseteq DOMAIN g /\ g.rest \in {"**", "below"}
    BY <1>1
  <2> HIDE DEF c
  <2> QED BY <2>1
<1> HIDE DEF c, bound, moved, spec
<1>6. ASSUME NEW n \in DOMAIN c.components
      PROVE  LET old == c.components[n]
                 new == bound.components[n]
             IN /\ new.depends_on = old.depends_on /\ new.cannot_depend_on = {} /\ new.must_depend_on = {}
                /\ new.consumed_by = Anyone
                /\ new.max_cyclomatic = old.max_cyclomatic /\ new.min_coverage = old.min_coverage
                /\ new.paths # {}
                /\ \A p \in new.paths : \E g \in old.paths :
                     /\ p.rest \in {"**", "below"}
                     /\ p.dir = root \o SubSeq(g.dir, Len(prefix) + 1, Len(g.dir))
  <2>1. bound.components[n] = spec(n)
    BY <1>2
  <2>2. spec(n).paths # {} /\ \A p \in spec(n).paths : \E g \in c.components[n].paths :
           p.rest \in {"**", "below"} /\ p.dir = root \o SubSeq(g.dir, Len(prefix) + 1, Len(g.dir))
    <3>1. c.components[n].paths # {} /\ spec(n).paths = {moved(g) : g \in c.components[n].paths}
      BY <1>1, <1>4
    <3>2. \A p \in spec(n).paths : \E g \in c.components[n].paths : p = moved(g)
      BY <3>1
    <3>3. spec(n).paths # {}
      BY <3>1
    <3> QED BY <1>5, <3>2, <3>3
  <2> QED BY <1>1, <1>4, <2>1, <2>2
<1>7. IsRebound(bound, c, prefix, root)
  BY <1>2, <1>6 DEF IsRebound
<1> QED BY <1>7 DEF c, bound

LEMMA OwnersClaim ==
  ASSUME NEW c, NEW files, NEW f \in DOMAIN assign_components(c, files)
  PROVE  LET n == assign_components(c, files)[f]
         IN /\ f \in files /\ n \in DOMAIN c.components
            /\ \E g \in c.components[n].paths : is_match(g, f)
<1> DEFINE owner == assign_components(c, files)
<1>1. f \in files /\ Claimants(c, f) # {} /\ owner[f] = CHOOSE n \in Claimants(c, f) : TRUE
  BY DEF assign_components
<1> HIDE DEF owner
<1>2. owner[f] \in Claimants(c, f)
  BY <1>1
<1>3. PICK claim \in Best(Claims(c, f)) : owner[f] = claim[1]
  BY <1>2 DEF Claimants
<1>4. claim \in Claims(c, f)
  BY <1>3 DEF Best
<1>5. claim \in UNION {{n} \X c.components[n].paths : n \in DOMAIN c.components} /\ is_match(claim[2], f)
  BY <1>4 DEF Claims
<1>6. PICK n \in DOMAIN c.components : claim \in {n} \X c.components[n].paths
  BY <1>5
<1> QED BY <1>1, <1>3, <1>5, <1>6 DEF owner

\* Of two components that are there, one shows where the template begins.
LEMMA RootIsTried ==
  ASSUME NEW t \in DOMAIN TEMPLATES, Recognizable(TEMPLATES[t]),
         NEW files, IsFiniteSet(files), \A f \in files : Path(f.dir), NEW edges, IsFiniteSet(edges),
         NEW r, Path(r),
         NEW x \in evaluate_fit(TEMPLATES[t].contract, canonical_root(TEMPLATES[t].contract), r, files, edges)
  PROVE  r \in candidate_roots(files, anchor_segments(TEMPLATES[t], canonical_root(TEMPLATES[t].contract)))
<1> DEFINE c == TEMPLATES[t].contract
           prefix == canonical_root(c)
           anchors == anchor_segments(TEMPLATES[t], prefix)
           bound == rebind(c, prefix, r)
           owner == assign_components(bound, files)
           L == Len(prefix)
           Shows(n) == \A g \in c.components[n].paths : Len(g.dir) > L /\ g.dir[L + 1] \in anchors
<1>1. /\ \A n \in DOMAIN c.components : c.components[n].paths # {} /\ \A g \in c.components[n].paths : Path(g.dir)
      /\ DOMAIN c.components # {}
  BY TemplatesAreLayers DEF validate
<1>2. L \in Nat
  <2>1. Globs(c) # {} /\ \A g \in Globs(c) : Path(g.dir)
    <3> HIDE DEF c
    <3> QED BY <1>1 DEF Globs
  <2> QED BY <2>1, CanonicalLength
<1>3. \A m, n \in DOMAIN c.components : ~ Shows(m) /\ ~ Shows(n) => m = n
  BY DEF Recognizable
<1>4. PICK f, g \in DOMAIN owner : owner[f] # owner[g]
  <2>1. x \in evaluate_fit(c, prefix, r, files, edges)
    OBVIOUS
  <2> HIDE DEF c, prefix
  <2>2. Counts(x, bound, owner, edges)
    BY <2>1, FitCounts
  <2> QED BY <2>2 DEF Counts
<1>5. DOMAIN bound.components = DOMAIN c.components
  <2>1. IsRebound(bound, c, prefix, r)
    BY Rebound
  <2> QED BY <2>1 DEF IsRebound
<1>6. PICK h \in DOMAIN owner : owner[h] \in DOMAIN c.components /\ Shows(owner[h])
  <2>1. owner[f] \in DOMAIN c.components /\ owner[g] \in DOMAIN c.components
    BY <1>5, OwnersClaim
  <2> HIDE DEF owner, Shows, c
  <2> QED BY <1>3, <1>4, <2>1
<1>7. h \in files /\ \E p \in bound.components[owner[h]].paths : is_match(p, h)
  BY OwnersClaim
<1>8. PICK p \in bound.components[owner[h]].paths, glob \in c.components[owner[h]].paths :
        /\ is_match(p, h) /\ p.rest \in {"**", "below"}
        /\ p.dir = r \o SubSeq(glob.dir, L + 1, Len(glob.dir))
  <2>1. \A n \in DOMAIN c.components : \A p \in bound.components[n].paths : \E q \in c.components[n].paths :
          p.rest \in {"**", "below"} /\ p.dir = r \o SubSeq(q.dir, L + 1, Len(q.dir))
    <3>1. IsRebound(bound, c, prefix, r)
      BY Rebound
    <3> HIDE DEF bound, c, prefix
    <3> QED BY <3>1 DEF IsRebound
  <2> HIDE DEF bound, owner, c, Shows, L
  <2> QED BY <1>6, <1>7, <2>1
<1> DEFINE u == SubSeq(glob.dir, L + 1, Len(glob.dir))
           A == Range(r) \cup Range(glob.dir) \cup Range(h.dir)
<1>9. IsPrefix(r \o u, h.dir)
  BY <1>8 DEF is_match
<1>10. Len(glob.dir) > L /\ glob.dir[L + 1] \in anchors /\ glob.dir \in Seq(Range(glob.dir))
  <2>1. Path(glob.dir)
    BY <1>1, <1>6
  <2> QED BY <1>6, <2>1 DEF Path
<1>11. r \in Seq(A) /\ glob.dir \in Seq(A) /\ h.dir \in Seq(A)
  <2>1. r \in Seq(Range(r)) /\ h.dir \in Seq(Range(h.dir))
    BY <1>7 DEF Path
  <2> QED BY <1>10, <2>1, SequencesOverMore
<1> HIDE DEF c, prefix, anchors, bound, owner, L, Shows, A
<1>12. u \in Seq(A) /\ Len(u) > 0 /\ u[1] = glob.dir[L + 1]
  <2>1. Len(glob.dir) \in Nat /\ DOMAIN glob.dir = 1 .. Len(glob.dir)
    BY <1>11, LenProperties
  <2>2. \A i \in L + 1 .. Len(glob.dir) : glob.dir[i] \in A
    BY <1>2, <1>11, <2>1, ElementOfSeq
  <2>3. /\ u \in Seq(A) /\ Len(u) = IF L + 1 <= Len(glob.dir) THEN Len(glob.dir) - (L + 1) + 1 ELSE 0
        /\ \A i \in 1 .. Len(glob.dir) - (L + 1) + 1 : u[i] = glob.dir[L + 1 + i - 1]
    BY <1>2, <2>1, <2>2, SubSeqProperties
  <2>4. 1 \in 1 .. Len(glob.dir) - (L + 1) + 1 /\ L + 1 + 1 - 1 = L + 1 /\ L + 1 <= Len(glob.dir)
    BY <1>2, <1>10, <2>1
  <2> QED BY <1>2, <2>1, <2>3, <2>4
<1> HIDE DEF u
<1>13. /\ Len(r) + 1 \in DOMAIN h.dir /\ h.dir[Len(r) + 1] = u[1]
       /\ SubSeq(h.dir, 1, Len(r)) = r
  BY <1>9, <1>11, <1>12, PrefixPlace
<1>14. h.dir[Len(r) + 1] \in anchors /\ Len(r) + 1 - 1 = Len(r)
  <2>1. Len(r) \in Nat
    BY <1>11, LenProperties
  <2> QED BY <1>10, <1>12, <1>13, <2>1
<1>15. r \in {SubSeq(h.dir, 1, i - 1) : i \in {k \in 1 .. Len(h.dir) + 1 : segment(h, k) \in anchors}}
  <2>1. DOMAIN h.dir = 1 .. Len(h.dir) /\ Len(h.dir) \in Nat
    BY <1>11, LenProperties
  <2>2. Len(r) + 1 \in 1 .. Len(h.dir) + 1
    BY <1>13, <2>1
  <2>3. segment(h, Len(r) + 1) \in anchors
    BY <1>13, <1>14 DEF segment
  <2> QED BY <1>13, <1>14, <2>2, <2>3
<1>16. r \in candidate_roots(files, anchors)
  BY <1>7, <1>15 DEF candidate_roots
<1> QED BY <1>16 DEF anchors, prefix, c

LEMMA RootLength ==
  ASSUME NEW files, \A f \in files : Directory(f.dir), NEW anchors, NEW r \in candidate_roots(files, anchors)
  PROVE  string_length[r] \in Nat
<1>1. CASE r = <<>>
  BY <1>1, EmptyRoot
<1>2. CASE r # <<>>
  <2>1. PICK f \in files : \E i \in 1 .. Len(f.dir) + 1 : r = SubSeq(f.dir, 1, i - 1)
    BY <1>2 DEF candidate_roots
  <2>2. PICK i \in 1 .. Len(f.dir) + 1 : r = SubSeq(f.dir, 1, i - 1)
    BY <2>1
  <2>3. Len(f.dir) \in Nat
    BY <2>1 DEF Directory, Path
  <2>4. i - 1 \in 0 .. Len(f.dir)
    BY <2>3
  <2> QED BY <2>1, <2>2, <2>4 DEF Directory
<1> QED BY <1>1, <1>2

LEMMA FitOfRoot ==
  ASSUME NEW template, NEW files, IsFiniteSet(files), \A f \in files : Directory(f.dir),
         NEW edges, IsFiniteSet(edges), NEW x \in Fits(template, files, edges)
  PROVE  /\ x \in evaluate_fit(template.contract, canonical_root(template.contract), x.root, files, edges)
         /\ string_length[x.root] \in Nat /\ IsShare(Score(x))
<1> DEFINE c == template.contract
           prefix == canonical_root(c)
           anchors == anchor_segments(template, prefix)
<1>1. PICK r \in candidate_roots(files, anchors) : x \in evaluate_fit(c, prefix, r, files, edges)
  BY DEF Fits
<1>2. string_length[r] \in Nat
  BY RootLength
<1> HIDE DEF c, prefix
<1>3. x.root = r /\ IsShare(Score(x))
  <2>1. x.root = r /\ Counts(x, rebind(c, prefix, r), assign_components(rebind(c, prefix, r), files), edges)
    BY <1>1, FitCounts
  <2> QED BY <2>1 DEF Counts
<1> QED BY <1>1, <1>2, <1>3 DEF c, prefix

\* A suggestion is one of the fits, and no other is better.
LEMMA BestIsRecognized ==
  ASSUME NEW template, NEW files, IsFiniteSet(files), \A f \in files : Directory(f.dir),
         NEW edges, IsFiniteSet(edges)
  PROVE  /\ recognize(template, files, edges) \subseteq Fits(template, files, edges)
         /\ \A x \in Fits(template, files, edges) : \E y \in recognize(template, files, edges) :
              ~ Higher(Score(x), Score(y))
<1> DEFINE fits == Fits(template, files, edges)
           top == {x \in fits : \A y \in fits : ~ Higher(Score(y), Score(x))}
           closest == {x \in top : \A y \in top : string_length[x.root] <= string_length[y.root]}
           above == {p \in fits \X fits : Higher(Score(p[1]), Score(p[2]))}
<1>1. recognize(template, files, edges) = IF closest = {} THEN {} ELSE {CHOOSE x \in closest : TRUE}
  BY DEF recognize, AnyOf, BestFits
<1>2. IsFiniteSet(fits)
  BY FitsAreFinite DEF Directory
<1>3. \A x \in fits : IsShare(Score(x)) /\ string_length[x.root] \in Nat
  BY FitOfRoot
<1>4. \A x, y \in fits : <<x, y>> \in above <=> Higher(Score(x), Score(y))
  OBVIOUS
<1> HIDE DEF fits, above
<1>5. ASSUME fits # {} PROVE top # {}
  <2>1. \A x \in fits : <<x, x>> \notin above
    BY <1>3, <1>4, HigherIsStrict
  <2>2. \A x, y, z \in fits : <<x, y>> \in above /\ <<y, z>> \in above => <<x, z>> \in above
    <3> TAKE x, y, z \in fits
    <3> HAVE <<x, y>> \in above /\ <<y, z>> \in above
    <3>1. Higher(Score(x), Score(y)) /\ Higher(Score(y), Score(z))
      BY <1>4
    <3>2. Higher(Score(x), Score(z))
      BY <1>3, <3>1, HigherIsTransitive
    <3> QED BY <1>4, <3>2
  <2>3. PICK m \in fits : \A x \in fits : <<x, m>> \notin above
    BY <1>2, <1>5, <2>1, <2>2, MaximalElement
  <2> QED BY <1>4, <2>3
<1>6. ASSUME top # {} PROVE closest # {}
  <2> DEFINE depths == {string_length[x.root] : x \in top}
  <2>1. depths \subseteq Nat /\ depths # {}
    BY <1>3, <1>6
  <2>2. PICK n \in depths : \A k \in depths : n <= k
    BY <2>1, LeastNumber
  <2>3. PICK x \in top : n = string_length[x.root]
    BY <2>2
  <2> QED BY <2>2, <2>3
<1>7. closest \subseteq top /\ top \subseteq fits /\ \A x \in fits, y \in top : ~ Higher(Score(x), Score(y))
  OBVIOUS
<1> HIDE DEF closest, top
<1>8. recognize(template, files, edges) \subseteq closest /\ (closest # {} => recognize(template, files, edges) # {})
  BY <1>1
<1> QED BY <1>5, <1>6, <1>7, <1>8 DEF fits

CheckAgrees(x, bound, data, files, edges) ==
  LET divergent == {d \in edges : \E v \in classify_internal(data, d) : rule_of(v) = "divergence"}
  IN /\ validate(bound) /\ ~ Contested(bound, files)
     /\ Cardinality(divergent) = x.internal - x.allowed

\* What a check says of the template where the suggestion binds it.
LEMMA BoundIsChecked ==
  ASSUME NEW t \in DOMAIN TEMPLATES, NEW g \in AllGraphs,
         NEW edges, edges = {d \in g.dependencies : ~ d.external /\ d.to # NoTarget},
         NEW prefix, NEW r,
         NEW x \in evaluate_fit(TEMPLATES[t].contract, prefix, r, g.files, edges),
         NEW bound, bound = rebind(TEMPLATES[t].contract, prefix, r),
         NEW data, data = load_architecture_data([bound EXCEPT !.mode = "strict"], g)
  PROVE  CheckAgrees(x, bound, data, g.files, edges)
<1> DEFINE c == TEMPLATES[t].contract
           strict == [bound EXCEPT !.mode = "strict"]
           owner == assign_components(bound, g.files)
           internal == Inside(edges, owner)
           allowed == {d \in internal : Allows(bound, owner[d.from], owner[d.to])}
           divergent == {d \in edges : \E v \in classify_internal(data, d) : rule_of(v) = "divergence"}
<1>1. IsRebound(bound, c, prefix, r)
  BY Rebound
<1>2. validate(c) /\ DOMAIN c = {"mode", "unassigned", "coupling", "components"}
  BY TemplatesAreLayers
<1>3. IsFiniteSet(g.files) /\ IsFiniteSet(edges)
  BY IndexedGraphs, FS_Subset
<1>4. ~ Contested(bound, g.files) /\ Counts(x, bound, owner, edges)
  BY <1>3, FitCounts
<1> HIDE DEF c
<1>5. validate(bound)
  <2>1. \A n \in DOMAIN c.components : validate_dependencies(bound, n)
    BY <1>1, <1>2 DEF IsRebound, validate, validate_dependencies
  <2>2. \A n \in DOMAIN c.components : validate_budgets(bound.components[n])
    BY <1>1, <1>2 DEF IsRebound, validate, validate_budgets
  <2>3. validate_access(bound)
    BY <1>1 DEF IsRebound, validate_access
  <2> QED BY <1>1, <1>2, <2>1, <2>2, <2>3 DEF IsRebound, validate
<1>6. strict.components = bound.components
  BY <1>1, <1>2 DEF IsRebound
<1>7. data.component_of = owner /\ data.contract = strict
  <2>1. \A f : Claimants(strict, f) = Claimants(bound, f)
    BY <1>6 DEF Claimants, Best, Claims
  <2>2. assign_components(strict, g.files) = owner
    BY <2>1 DEF assign_components
  <2> QED BY <2>2 DEF load_architecture_data
<1>8. \A f \in DOMAIN owner : owner[f] \in DOMAIN bound.components
  BY OwnersClaim
<1> HIDE DEF owner, strict
<1>9. ASSUME NEW d \in edges
      PROVE  (\E v \in classify_internal(data, d) : rule_of(v) = "divergence") <=> d \in internal \ allowed
  <2>1. CASE d \notin internal
    <3>1. classify_internal(data, d) = {}
      BY <1>7, <2>1 DEF classify_internal, Inside
    <3> QED BY <2>1, <3>1
  <2>2. CASE d \in internal /\ owner[d.from] = owner[d.to]
    <3>1. classify_internal(data, d) = classify_slice(data, d)
      BY <1>7, <2>2 DEF classify_internal, Crosses, Inside
    <3>2. \A v \in classify_slice(data, d) : rule_of(v) = "slice-isolation"
      BY DEF classify_slice, Verdict, rule_of
    <3> QED BY <2>2, <3>1, <3>2 DEF Allows
  <2>3. CASE d \in internal /\ owner[d.from] # owner[d.to]
    <3> DEFINE n == owner[d.from]
               m == owner[d.to]
               rules == RulesBetween(bound.components, n, m, d.to)
    <3>1. n \in DOMAIN bound.components /\ m \in DOMAIN bound.components
      BY <1>8, <2>3 DEF Inside
    <3>2. Crosses(data, d)
      BY <1>7, <2>3 DEF Crosses, Inside
    <3>3. {rule_of(v) : v \in classify_internal(data, d)} = rules
      BY <1>6, <1>7, <3>1, <3>2, RulesOfImport
    <3>4. /\ ~ ClosedTo(bound.components, n, m) /\ m \notin bound.components[n].cannot_depend_on
          /\ m \notin bound.components[n].must_depend_on
      BY <1>1, <3>1 DEF IsRebound, ClosedTo
    <3>5. "divergence" \in rules <=> m \notin DOMAIN bound.components[n].depends_on
      <4>1. CASE m \in DOMAIN bound.components[n].depends_on
        <5>1. rules = Bypass(bound.components, m, d.to)
                        \cup (IF bound.components[n].depends_on[m] THEN {"deprecated-use"} ELSE {})
          BY <3>4, <4>1, RulesCase
        <5> QED BY <4>1, <5>1, BypassOnly
      <4>2. CASE m \notin DOMAIN bound.components[n].depends_on
        <5>1. rules = Bypass(bound.components, m, d.to) \cup {"divergence"}
          BY <3>4, <4>2, RulesCase
        <5> QED BY <4>2, <5>1
      <4> QED BY <4>1, <4>2
    <3> HIDE DEF rules
    <3>6. (\E v \in classify_internal(data, d) : rule_of(v) = "divergence") <=> "divergence" \in rules
      BY <3>3
    <3> QED BY <2>3, <3>5, <3>6 DEF Allows
  <2> QED BY <2>1, <2>2, <2>3
<1>10. divergent = internal \ allowed
  <2>1. internal \subseteq edges
    BY DEF Inside
  <2> HIDE DEF internal, allowed
  <2> QED BY <1>9, <2>1
<1>11. /\ IsFiniteSet(internal) /\ x.internal = Cardinality(internal) /\ x.allowed = Cardinality(allowed)
  BY <1>4 DEF Counts
<1>12. internal \cap allowed = allowed
  OBVIOUS
<1> HIDE DEF internal, allowed, divergent
<1>13. Cardinality(divergent) = x.internal - x.allowed
  <2>1. Cardinality(internal \ allowed) = Cardinality(internal) - Cardinality(internal \cap allowed)
    BY <1>11, FS_Difference
  <2>2. Cardinality(internal \ allowed) = Cardinality(internal) - Cardinality(allowed)
    BY <1>12, <2>1
  <2> QED BY <1>10, <1>11, <2>2
<1> QED BY <1>4, <1>5, <1>13 DEF divergent, CheckAgrees

Suggestion(t, x) == [template |-> t, fit |-> x]

\* Which suggestions there are, and that at most one is the best.
LEMMA SuggestionsAre ==
  ASSUME NEW g \in AllGraphs
  PROVE  LET edges == {d \in g.dependencies : ~ d.external /\ d.to # NoTarget}
             report == run_architecture_suggest(g)
         IN /\ report.suggestions =
                 UNION {{Suggestion(t, x) : x \in recognize(TEMPLATES[t], g.files, edges)} : t \in DOMAIN TEMPLATES}
            /\ report.best \subseteq report.suggestions /\ Cardinality(report.best) <= 1
<1> DEFINE edges == {d \in g.dependencies : ~ d.external /\ d.to # NoTarget}
           suggestions == UNION {{[template |-> t, fit |-> x] : x \in recognize(TEMPLATES[t], g.files, edges)} :
                                 t \in DOMAIN TEMPLATES}
           better(x, y) == \/ Higher(Score(x.fit), Score(y.fit))
                           \/ ~ Higher(Score(y.fit), Score(x.fit)) /\ x.template < y.template
           good == {x \in suggestions : ~ Higher(<<1, 2>>, Score(x.fit))}
           best == {x \in good : \A y \in suggestions \ {x} : better(x, y)}
<1>1. run_architecture_suggest(g) = [suggestions |-> suggestions, best |-> best]
  BY DEF run_architecture_suggest, Recommended
<1>2. suggestions = UNION {{Suggestion(t, x) : x \in recognize(TEMPLATES[t], g.files, edges)} : t \in DOMAIN TEMPLATES}
  BY DEF Suggestion
<1>3. IsFiniteSet(g.files) /\ (\A f \in g.files : Directory(f.dir)) /\ IsFiniteSet(edges)
  BY IndexedGraphs, FS_Subset
<1> HIDE DEF edges
<1>4. ASSUME NEW s \in suggestions PROVE IsShare(Score(s.fit)) /\ s.template \in Nat
  <2>1. PICK t \in DOMAIN TEMPLATES : \E x \in recognize(TEMPLATES[t], g.files, edges) : s = [template |-> t, fit |-> x]
    OBVIOUS
  <2>2. PICK x \in recognize(TEMPLATES[t], g.files, edges) : s = [template |-> t, fit |-> x]
    BY <2>1
  <2>3. x \in Fits(TEMPLATES[t], g.files, edges)
    BY <1>3, BestIsRecognized
  <2>4. IsShare(Score(x))
    BY <1>3, <2>3, FitOfRoot
  <2>5. t \in Nat
    BY TemplatesAreLayers
  <2> QED BY <2>2, <2>4, <2>5
<1> HIDE DEF suggestions
<1>5. ASSUME NEW x \in best, NEW y \in best PROVE x = y
  <2> SUFFICES ASSUME x # y PROVE FALSE
    OBVIOUS
  <2>1. x \in suggestions /\ y \in suggestions /\ better(x, y) /\ better(y, x)
    OBVIOUS
  <2>2. CASE Higher(Score(x.fit), Score(y.fit)) \/ Higher(Score(y.fit), Score(x.fit))
    BY <1>4, <2>1, <2>2, HigherIsStrict
  <2>3. CASE x.template < y.template /\ y.template < x.template
    BY <1>4, <2>1, <2>3
  <2> QED BY <2>1, <2>2, <2>3
<1>6. best \subseteq suggestions
  OBVIOUS
<1> HIDE DEF best
<1>7. Cardinality(best) <= 1
  <2>1. best = {} \/ \E x : best = {x}
    BY <1>5
  <2>2. Cardinality(best) = 0 \/ Cardinality(best) = 1
    BY <2>1, FS_EmptySet, FS_Singleton
  <2> QED BY <2>2
<1> QED BY <1>1, <1>2, <1>6, <1>7 DEF edges

LEMMA SuggestedIsChecked ==
  ASSUME graph \in AllGraphs
  PROVE  SuggestionHolds
<1> DEFINE edges == {d \in graph.dependencies : ~ d.external /\ d.to # NoTarget}
           report == run_architecture_suggest(graph)
           Roots == UNION {{SubSeq(f.dir, 1, n) : n \in 0 .. Len(f.dir)} : f \in graph.files}
           AllFits(t) == UNION {evaluate_fit(TEMPLATES[t].contract, canonical_root(TEMPLATES[t].contract),
                                             r, graph.files, edges) : r \in Roots}
           Checked(s) ==
             LET t == TEMPLATES[s.template].contract
                 bound == rebind(t, canonical_root(t), s.fit.root)
                 data == load_architecture_data([bound EXCEPT !.mode = "strict"], graph)
                 divergent == {d \in edges : \E v \in classify_internal(data, d) : rule_of(v) = "divergence"}
             IN /\ validate(bound) /\ ~ Contested(bound, graph.files)
                /\ Cardinality(divergent) = s.fit.internal - s.fit.allowed
<1>1. /\ report.suggestions =
           UNION {{Suggestion(t, x) : x \in recognize(TEMPLATES[t], graph.files, edges)} : t \in DOMAIN TEMPLATES}
      /\ report.best \subseteq report.suggestions /\ Cardinality(report.best) <= 1
  BY SuggestionsAre
<1>2. /\ IsFiniteSet(graph.files) /\ IsFiniteSet(edges)
      /\ \A f \in graph.files : Directory(f.dir) /\ Path(f.dir)
  BY IndexedGraphs, FS_Subset DEF Directory
<1>3. ASSUME NEW r \in Roots PROVE Path(r)
  <2>1. PICK f \in graph.files : \E n \in 0 .. Len(f.dir) : r = SubSeq(f.dir, 1, n)
    OBVIOUS
  <2>2. PICK n \in 0 .. Len(f.dir) : r = SubSeq(f.dir, 1, n)
    BY <2>1
  <2>3. f.dir \in Seq(Range(f.dir)) /\ DOMAIN f.dir = 1 .. Len(f.dir) /\ Len(f.dir) \in Nat
    BY <1>2 DEF Path
  <2>4. \A j \in 1 .. n : f.dir[j] \in Range(f.dir)
    BY <2>3, ElementOfSeq
  <2>5. SubSeq(f.dir, 1, n) \in Seq(Range(f.dir))
    BY <2>3, <2>4, SubSeqProperties
  <2> QED BY <2>2, <2>5, SequencesOverRange DEF Path
<1> HIDE DEF edges, report, Roots
<1>4. ASSUME NEW t \in DOMAIN TEMPLATES, Recognizable(TEMPLATES[t]), NEW x \in AllFits(t)
      PROVE  \E s \in report.suggestions : s.template = t /\ ~ Higher(Score(x), Score(s.fit))
  <2>1. PICK r \in Roots : x \in evaluate_fit(TEMPLATES[t].contract, canonical_root(TEMPLATES[t].contract),
                                              r, graph.files, edges)
    OBVIOUS
  <2>2. r \in candidate_roots(graph.files, anchor_segments(TEMPLATES[t], canonical_root(TEMPLATES[t].contract)))
    BY <1>2, <1>3, <1>4, <2>1, RootIsTried
  <2>3. x \in Fits(TEMPLATES[t], graph.files, edges)
    BY <2>1, <2>2 DEF Fits
  <2>4. PICK y \in recognize(TEMPLATES[t], graph.files, edges) : ~ Higher(Score(x), Score(y))
    BY <1>2, <2>3, BestIsRecognized
  <2>5. Suggestion(t, y) \in report.suggestions
    BY <1>1
  <2>6. Suggestion(t, y).template = t /\ Suggestion(t, y).fit = y
    BY DEF Suggestion
  <2> QED BY <2>4, <2>5, <2>6
<1>5. ASSUME NEW s \in report.suggestions PROVE Checked(s)
  <2>1. PICK t \in DOMAIN TEMPLATES : \E x \in recognize(TEMPLATES[t], graph.files, edges) : s = Suggestion(t, x)
    BY <1>1
  <2>2. PICK x \in recognize(TEMPLATES[t], graph.files, edges) : s = Suggestion(t, x)
    BY <2>1
  <2>3. s.template = t /\ s.fit = x
    BY <2>2 DEF Suggestion
  <2>4. x \in evaluate_fit(TEMPLATES[t].contract, canonical_root(TEMPLATES[t].contract), x.root, graph.files, edges)
    <3>1. x \in Fits(TEMPLATES[t], graph.files, edges)
      BY <1>2, BestIsRecognized
    <3> QED BY <1>2, <3>1, FitOfRoot
  <2> DEFINE c == TEMPLATES[t].contract
             prefix == canonical_root(c)
             bound == rebind(c, prefix, x.root)
             data == load_architecture_data([bound EXCEPT !.mode = "strict"], graph)
  <2>5. CheckAgrees(x, bound, data, graph.files, edges)
    <3>1. edges = {d \in graph.dependencies : ~ d.external /\ d.to # NoTarget}
      BY DEF edges
    <3>2. /\ bound = rebind(TEMPLATES[t].contract, prefix, x.root)
          /\ data = load_architecture_data([bound EXCEPT !.mode = "strict"], graph)
          /\ x \in evaluate_fit(TEMPLATES[t].contract, prefix, x.root, graph.files, edges)
      BY <2>4
    <3> HIDE DEF c, prefix, bound, data
    <3> QED BY <3>1, <3>2, BoundIsChecked
  <2> QED BY <2>3, <2>5 DEF CheckAgrees
<1> HIDE DEF Checked
<1>6. /\ report.best \subseteq report.suggestions /\ Cardinality(report.best) <= 1
      /\ \A t \in DOMAIN TEMPLATES : Recognizable(TEMPLATES[t]) =>
           \A x \in AllFits(t) :
             \E s \in report.suggestions : s.template = t /\ ~ Higher(Score(x), Score(s.fit))
      /\ \A s \in report.suggestions : Checked(s)
  BY <1>1, <1>4, <1>5, Zenon
<1> QED BY <1>6, Zenon DEF SuggestionHolds, edges, report, Roots, Checked

\* In every state: whatever is indexed, a template that fits is suggested where no root
\* is better, and a check of it there finds what the suggestion counts (`recognize`,
\* `evaluate_fit`, `rebind` and `classify_internal`).
THEOREM SuggestionsHold == Spec => []SuggestionHolds
<1>1. Inv => SuggestionHolds
  BY SuggestedIsChecked DEF Inv, InRepository
<1> QED BY <1>1, Invariance, PTL

--------------------------------------------------------------------------------
(* What a review charges.  Lines that git does not report are in both      *)
(* versions of a file, in the same order.                                  *)

\* The places K of a follow the places L of b, in order and with the same contents.
Paired(f, K, L, a, b) ==
  /\ f \in [K -> L]
  /\ \A i \in K : b[f[i]] = a[i]
  /\ \A i, j \in K : i < j <=> f[i] < f[j]
  /\ \A l \in L : \E i \in K : f[i] = l

\* Equal parts of two sequences match place by place.
LEMMA SamePlaces ==
  ASSUME NEW a, NEW b, NEW K, NEW L, IsFiniteSet(K), IsFiniteSet(L), K \subseteq Nat, L \subseteq Nat,
         At(a, K) = At(b, L)
  PROVE  \E f : Paired(f, K, L, a, b)
<1> DEFINE x == Sorted(K, <)
           y == Sorted(L, <)
<1>1. /\ x \in Seq(K) /\ Range(x) = K
      /\ \A i, j \in DOMAIN x : i < j <=> x[i] < x[j]
  BY NumbersInOrder
<1>2. /\ y \in Seq(L) /\ Range(y) = L
      /\ \A i, j \in DOMAIN y : i < j <=> y[i] < y[j]
  BY NumbersInOrder
<1>3. At(a, K) = [k \in DOMAIN x |-> a[x[k]]] /\ At(b, L) = [k \in DOMAIN y |-> b[y[k]]]
  BY DEF At
<1> HIDE DEF x, y
<1>4. DOMAIN x = DOMAIN y /\ \A k \in DOMAIN x : a[x[k]] = b[y[k]]
  BY <1>3
<1>5. \A i \in K : \E k \in DOMAIN x : x[k] = i
  BY <1>1 DEF Range
<1>6. \A k \in DOMAIN x : x[k] \in K /\ y[k] \in L /\ k \in Nat
  BY <1>1, <1>2, <1>4, ElementOfSeq, LenProperties
<1> DEFINE place == [i \in K |-> CHOOSE k \in DOMAIN x : x[k] = i]
           f == [i \in K |-> y[place[i]]]
<1>7. \A i \in K : place[i] \in DOMAIN x /\ x[place[i]] = i
  BY <1>5
<1>8. \A i \in K : f[i] = y[place[i]] /\ f[i] \in L
  BY <1>6, <1>7
<1> HIDE DEF place
<1>9. f \in [K -> L]
  BY <1>8
<1>10. \A i \in K : b[f[i]] = a[i]
  BY <1>4, <1>7, <1>8
<1>11. \A i, j \in K : i < j <=> f[i] < f[j]
  BY <1>1, <1>2, <1>4, <1>7, <1>8
<1>12. ASSUME NEW l \in L PROVE \E i \in K : f[i] = l
  <2>1. PICK k \in DOMAIN x : y[k] = l
    BY <1>2, <1>4 DEF Range
  <2>2. place[x[k]] \in DOMAIN x /\ x[place[x[k]]] = x[k] /\ x[k] \in K
    BY <1>6, <1>7
  <2>3. place[x[k]] = k
    <3>1. place[x[k]] \in Nat /\ k \in Nat
      BY <1>6, <2>2
    <3>2. x[k] \in Nat
      BY <2>2
    <3> QED BY <1>1, <2>2, <3>1, <3>2
  <2> QED BY <1>8, <2>1, <2>2, <2>3
<1> HIDE DEF f
<1> QED BY <1>9, <1>10, <1>11, <1>12 DEF Paired

\* A file is a sequence of lines, a tree has one for each module.
IsFile(s) == s \in Seq(Range(s))
IsTree(t) == DOMAIN t = Modules /\ \A m \in Modules : IsFile(t[m]) /\ Len(t[m]) <= MaxLines

LEMMA LinesOfFile ==
  ASSUME NEW t, IsTree(t), NEW m \in Modules
  PROVE  /\ Len(t[m]) \in Nat /\ DOMAIN t[m] = 1 .. Len(t[m])
         /\ IsFiniteSet(DOMAIN t[m]) /\ DOMAIN t[m] \subseteq Nat
         /\ \A K \in SUBSET DOMAIN t[m] : IsFiniteSet(K) /\ K \subseteq Nat
<1>1. t[m] \in Seq(Range(t[m]))
  BY DEF IsTree, IsFile
<1>2. Len(t[m]) \in Nat /\ DOMAIN t[m] = 1 .. Len(t[m])
  BY <1>1, LenProperties
<1>3. IsFiniteSet(DOMAIN t[m]) /\ DOMAIN t[m] \subseteq Nat
  BY <1>2, FS_Interval
<1> QED BY <1>2, <1>3, FS_Subset

\* The header of the function that a line is in, and the last line of a function.
Heads(t, m, h, i) ==
  /\ h \in Lines(t, m, "function") /\ h <= i
  /\ \A j \in Lines(t, m, "function") : j <= i => j <= h
EndOf(t, m, h) == Min({j \in Lines(t, m, "function") : j > h} \cup {Len(t[m]) + 1}) - 1

LEMMA EndsAtNext ==
  ASSUME NEW t, IsTree(t), NEW m \in Modules, NEW h \in Lines(t, m, "function")
  PROVE  /\ EndOf(t, m, h) \in Nat /\ h <= EndOf(t, m, h) /\ EndOf(t, m, h) <= Len(t[m])
         /\ \A i \in DOMAIN t[m] : Heads(t, m, h, i) <=> h <= i /\ i <= EndOf(t, m, h)
<1> DEFINE later == {j \in Lines(t, m, "function") : j > h} \cup {Len(t[m]) + 1}
           next == Min(later)
<1>1. /\ Len(t[m]) \in Nat /\ DOMAIN t[m] = 1 .. Len(t[m])
      /\ Lines(t, m, "function") \subseteq DOMAIN t[m]
  BY LinesOfFile DEF Lines
<1>2. h \in Nat /\ h <= Len(t[m])
  BY <1>1
<1>3. later \subseteq Nat /\ later # {} /\ \A j \in later : j > h
  BY <1>1, <1>2
<1>4. next \in later /\ \A n \in later : next <= n
  BY <1>3, LeastOfNumbers
<1>5. EndOf(t, m, h) = next - 1
  BY DEF EndOf
<1>6. next \in Nat /\ next > h /\ next <= Len(t[m]) + 1
  BY <1>1, <1>3, <1>4
<1>7. next \in Lines(t, m, "function") \/ next = Len(t[m]) + 1
  BY <1>4
<1>8. \A j \in Lines(t, m, "function") : j > h => next <= j
  BY <1>4
<1> HIDE DEF later, next
<1>9. ASSUME NEW i \in DOMAIN t[m]
      PROVE  Heads(t, m, h, i) <=> h <= i /\ i <= EndOf(t, m, h)
  <2>1. i \in Nat /\ i <= Len(t[m]) /\ \A j \in Lines(t, m, "function") : j \in Nat
    BY <1>1
  <2>2. ASSUME Heads(t, m, h, i) PROVE h <= i /\ i <= next - 1
    <3>1. h <= i /\ (next <= i /\ next \in Lines(t, m, "function") => next <= h)
      BY <2>2 DEF Heads
    <3> QED BY <1>1, <1>2, <1>6, <1>7, <2>1, <3>1
  <2>3. ASSUME h <= i, i <= next - 1 PROVE Heads(t, m, h, i)
    <3>1. ASSUME NEW j \in Lines(t, m, "function"), j <= i PROVE j <= h
      BY <1>2, <1>6, <1>8, <2>1, <2>3, <3>1
    <3> QED BY <2>3, <3>1 DEF Heads
  <2> QED BY <1>5, <2>2, <2>3
<1> QED BY <1>2, <1>5, <1>6, <1>9, <1>1

\* What encloses a line is the function whose header is the last one before it.
LEMMA EnclosedByHead ==
  ASSUME NEW t, IsTree(t), NEW m \in Modules, NEW i \in DOMAIN t[m]
  PROVE  /\ \A h : Heads(t, m, h, i) => Enclosing(symbol_spans(t, m), i) = {<<h, EndOf(t, m, h)>>}
         /\ (\A h : ~ Heads(t, m, h, i)) => Enclosing(symbol_spans(t, m), i) = {}
<1>1. symbol_spans(t, m) = {<<h, EndOf(t, m, h)>> : h \in Lines(t, m, "function")}
  BY DEF symbol_spans, EndOf
<1>2. \A s : s \in Enclosing(symbol_spans(t, m), i) <=>
        \E h \in Lines(t, m, "function") : s = <<h, EndOf(t, m, h)>> /\ h <= i /\ i <= EndOf(t, m, h)
  BY <1>1 DEF Enclosing
<1>3. \A s : s \in Enclosing(symbol_spans(t, m), i) <=>
        \E h \in Lines(t, m, "function") : s = <<h, EndOf(t, m, h)>> /\ Heads(t, m, h, i)
  BY <1>2, EndsAtNext
<1>4. \A g, h : Heads(t, m, g, i) /\ Heads(t, m, h, i) => g = h
  <2>1. \A j \in Lines(t, m, "function") : j \in Nat
    BY LinesOfFile DEF Lines
  <2> QED BY <2>1 DEF Heads
<1>5. \A h : Heads(t, m, h, i) => h \in Lines(t, m, "function")
  BY DEF Heads
<1> QED BY <1>3, <1>4, <1>5

\* Lines of u that are lines of t, headers of functions among them, all that t has.
Follows(f, K, t, u, m) ==
  /\ K \subseteq DOMAIN u[m] /\ f \in [K -> DOMAIN t[m]]
  /\ \A i \in K : t[m][f[i]] = u[m][i]
  /\ \A i, j \in K : i < j <=> f[i] < f[j]
  /\ Lines(u, m, "function") \subseteq K
  /\ \A g \in Lines(t, m, "function") : \E h \in K : f[h] = g

LEMMA KindsFollow ==
  ASSUME NEW t, NEW u, NEW m \in Modules, NEW f, NEW K, Follows(f, K, t, u, m), NEW i \in K, NEW kind
  PROVE  i \in Lines(u, m, kind) <=> f[i] \in Lines(t, m, kind)
BY DEF Follows, Lines, Kind

\* The header of the function that a line is in follows.
LEMMA HeadsFollow ==
  ASSUME NEW t, IsTree(t), NEW u, IsTree(u), NEW m \in Modules, NEW f, NEW K, Follows(f, K, t, u, m),
         NEW i \in K
  PROVE  /\ \A h : Heads(u, m, h, i) => h \in K /\ Heads(t, m, f[h], f[i])
         /\ (\A h : ~ Heads(u, m, h, i)) => \A g : ~ Heads(t, m, g, f[i])
<1>1. /\ \A j \in K : j \in Nat /\ f[j] \in Nat
      /\ \A j, l \in K : j < l <=> f[j] < f[l]
  BY LinesOfFile DEF Follows
<1>2. \A j, l \in K : j <= l <=> f[j] <= f[l]
  BY <1>1
<1>3. \A j \in Lines(u, m, "function") : j \in K /\ f[j] \in Lines(t, m, "function")
  BY KindsFollow DEF Follows
<1>4. ASSUME NEW g \in Lines(t, m, "function")
      PROVE  \E h \in K : f[h] = g /\ h \in Lines(u, m, "function")
  <2>1. PICK h \in K : f[h] = g
    BY DEF Follows
  <2>2. h \in Lines(u, m, "function")
    BY <2>1, KindsFollow
  <2> QED BY <2>1, <2>2
<1>5. ASSUME NEW h, Heads(u, m, h, i) PROVE h \in K /\ Heads(t, m, f[h], f[i])
  <2>1. h \in K /\ f[h] \in Lines(t, m, "function") /\ f[h] <= f[i]
    BY <1>2, <1>3, <1>5 DEF Heads
  <2>2. ASSUME NEW g \in Lines(t, m, "function"), g <= f[i] PROVE g <= f[h]
    <3>1. PICK j \in K : f[j] = g /\ j \in Lines(u, m, "function")
      BY <1>4
    <3>2. j <= h
      BY <1>2, <1>5, <2>2, <3>1 DEF Heads
    <3> QED BY <1>2, <2>1, <3>1, <3>2
  <2> QED BY <2>1, <2>2 DEF Heads
<1>6. ASSUME NEW g, Heads(t, m, g, f[i]) PROVE \E h : Heads(u, m, h, i)
  <2>1. PICK h \in K : f[h] = g /\ h \in Lines(u, m, "function")
    BY <1>4, <1>6 DEF Heads
  <2>2. h <= i
    BY <1>2, <1>6, <2>1 DEF Heads
  <2>3. ASSUME NEW j \in Lines(u, m, "function"), j <= i PROVE j <= h
    <3>1. j \in K /\ f[j] \in Lines(t, m, "function") /\ f[j] <= f[i]
      BY <1>2, <1>3, <2>3
    <3>2. f[j] <= f[h]
      BY <1>6, <2>1, <3>1 DEF Heads
    <3> QED BY <1>2, <3>1, <3>2
  <2> QED BY <2>1, <2>2, <2>3 DEF Heads
<1> QED BY <1>5, <1>6

LEMMA LocatorOfHead ==
  ASSUME NEW t, IsTree(t), NEW m \in Modules, NEW i \in DOMAIN t[m]
  PROVE  /\ \A h : Heads(t, m, h, i) => Locator(t, m, i) = t[m][h][2]
         /\ (\A h : ~ Heads(t, m, h, i)) => Locator(t, m, i) = 0
<1>1. ASSUME NEW h, Heads(t, m, h, i) PROVE Locator(t, m, i) = t[m][h][2]
  <2>1. Enclosing(symbol_spans(t, m), i) = {<<h, EndOf(t, m, h)>>}
    BY <1>1, EnclosedByHead
  <2> DEFINE around == Enclosing(symbol_spans(t, m), i)
             span == <<h, EndOf(t, m, h)>>
  <2>2. around # {} /\ (CHOOSE s \in around : TRUE) \in around
    BY <2>1
  <2>3. (CHOOSE s \in around : TRUE) = span
    BY <2>1, <2>2
  <2>4. span[1] = h
    OBVIOUS
  <2>5. Locator(t, m, i) = IF around = {} THEN 0 ELSE t[m][(CHOOSE s \in around : TRUE)[1]][2]
    BY DEF Locator
  <2> HIDE DEF around, span
  <2> QED BY <2>2, <2>3, <2>4, <2>5
<1>2. ASSUME \A h : ~ Heads(t, m, h, i) PROVE Locator(t, m, i) = 0
  BY <1>2, EnclosedByHead DEF Locator
<1> QED BY <1>1, <1>2

LEMMA LocatorFollows ==
  ASSUME NEW t, IsTree(t), NEW u, IsTree(u), NEW m \in Modules, NEW f, NEW K, Follows(f, K, t, u, m),
         NEW i \in K
  PROVE  Locator(t, m, f[i]) = Locator(u, m, i)
<1>1. i \in DOMAIN u[m] /\ f[i] \in DOMAIN t[m] /\ \A h \in K : t[m][f[h]] = u[m][h]
  BY DEF Follows
<1>2. CASE \E h : Heads(u, m, h, i)
  <2>1. PICK h : Heads(u, m, h, i)
    BY <1>2
  <2>2. h \in K /\ Heads(t, m, f[h], f[i])
    BY <2>1, HeadsFollow
  <2>3. Locator(u, m, i) = u[m][h][2] /\ Locator(t, m, f[i]) = t[m][f[h]][2]
    BY <1>1, <2>1, <2>2, LocatorOfHead
  <2> QED BY <1>1, <2>2, <2>3
<1>3. CASE ~ \E h : Heads(u, m, h, i)
  <2>1. \A h : ~ Heads(u, m, h, i)
    BY <1>3
  <2>2. \A h : ~ Heads(t, m, h, f[i])
    BY <2>1, HeadsFollow
  <2> QED BY <1>1, <2>1, <2>2, LocatorOfHead
<1> QED BY <1>2, <1>3

\* As many as follow are there.
LEMMA FollowersCount ==
  ASSUME NEW t, IsTree(t), NEW u, IsTree(u), NEW m \in Modules, NEW K \in SUBSET DOMAIN u[m],
         NEW f \in [K -> DOMAIN t[m]], \A i, j \in K : i < j <=> f[i] < f[j],
         NEW A \in SUBSET K, NEW B \in SUBSET DOMAIN t[m], \A i \in A : f[i] \in B
  PROVE  /\ IsFiniteSet(A) /\ IsFiniteSet(B)
         /\ Cardinality(A) \in Nat /\ Cardinality(B) \in Nat /\ Cardinality(A) <= Cardinality(B)
         /\ Cardinality(A) = Cardinality(B) => \A l \in B : \E i \in A : f[i] = l
<1>1. IsFiniteSet(A) /\ IsFiniteSet(B)
  BY LinesOfFile
<1> DEFINE g == [i \in A |-> f[i]]
<1>2. \A i, j \in A : f[i] = f[j] => i = j
  <2> SUFFICES ASSUME NEW i \in A, NEW j \in A, f[i] = f[j] PROVE i = j
    OBVIOUS
  <2>1. i \in Nat /\ j \in Nat /\ f[i] \in Nat
    BY LinesOfFile
  <2> QED BY <2>1
<1>3. g \in Injection(A, B)
  BY <1>2 DEF Injection, IsInjective
<1>4. /\ Cardinality(A) <= Cardinality(B)
      /\ Cardinality(A) = Cardinality(B) <=> g \in Surjection(A, B)
  <2> HIDE DEF g
  <2> QED BY <1>1, <1>3, FS_Injection
<1>5. g \in Surjection(A, B) => \A l \in B : \E i \in A : f[i] = l
  BY DEF Surjection
<1> HIDE DEF g
<1> QED BY <1>1, <1>4, <1>5, FS_CardinalityType

\* A function that is unchanged has the branches that it had.
LEMMA BranchesFollow ==
  ASSUME NEW t, IsTree(t), NEW u, IsTree(u), NEW m \in Modules, NEW f, NEW K, Follows(f, K, t, u, m),
         NEW h \in Lines(u, m, "function"), NEW s, s = <<h, EndOf(u, m, h)>>,
         \A i \in DOMAIN u[m] : s[1] <= i /\ i <= s[2] => i \in K
  PROVE  /\ h \in K /\ f[h] \in Lines(t, m, "function")
         /\ LET r == <<f[h], EndOf(t, m, f[h])>>
            IN /\ r \in symbol_spans(t, m) /\ t[m][f[h]] = u[m][h]
               /\ branches(u, m, s) \in Nat /\ branches(t, m, r) \in Nat
               /\ branches(u, m, s) <= branches(t, m, r)
<1> DEFINE r == <<f[h], EndOf(t, m, f[h])>>
           A == {i \in Lines(u, m, "branch") : s[1] <= i /\ i <= s[2]}
           B == {i \in Lines(t, m, "branch") : r[1] <= i /\ i <= r[2]}
<1>1. h \in K /\ f[h] \in Lines(t, m, "function") /\ t[m][f[h]] = u[m][h]
  BY KindsFollow DEF Follows
<1>2. r \in symbol_spans(t, m)
  BY <1>1 DEF symbol_spans, EndOf
<1>3. A \in SUBSET K /\ B \in SUBSET DOMAIN t[m]
  BY DEF Lines
<1>4. ASSUME NEW i \in A PROVE f[i] \in B
  <2>1. i \in K /\ f[i] \in Lines(t, m, "branch") /\ i \in DOMAIN u[m] /\ f[i] \in DOMAIN t[m]
    BY <1>3, KindsFollow DEF Follows
  <2>2. h <= i /\ i <= EndOf(u, m, h)
    OBVIOUS
  <2>3. Heads(u, m, h, i)
    BY <2>1, <2>2, EndsAtNext
  <2>4. Heads(t, m, f[h], f[i])
    BY <2>1, <2>3, HeadsFollow
  <2>5. f[h] <= f[i] /\ f[i] <= EndOf(t, m, f[h])
    BY <1>1, <2>1, <2>4, EndsAtNext
  <2> QED BY <2>1, <2>5
<1>5. branches(u, m, s) = Cardinality(A) /\ branches(t, m, r) = Cardinality(B)
  BY DEF branches
<1> HIDE DEF A, B
<1>6. /\ Cardinality(A) \in Nat /\ Cardinality(B) \in Nat /\ Cardinality(A) <= Cardinality(B)
  <2>1. K \in SUBSET DOMAIN u[m] /\ f \in [K -> DOMAIN t[m]] /\ \A i, j \in K : i < j <=> f[i] < f[j]
    BY DEF Follows
  <2> QED BY <1>3, <1>4, <2>1, FollowersCount
<1> QED BY <1>1, <1>2, <1>5, <1>6

\* The findings of a group differ in their lines, and are finitely many.
GroupOf(F, k) == {g \in F : finding_group_key(g) = k}
WellFound(F, k) ==
  /\ IsFiniteSet(GroupOf(F, k))
  /\ \A f \in GroupOf(F, k) : f = Found(f.kind, f.severity, f.path, f.line, f.locator) /\ f.line \in 0 .. MaxLines
RankIn(F, f) == Cardinality({g \in GroupOf(F, finding_group_key(f)) : hash[g.line] < hash[f.line]})

LEMMA RanksOfGroup ==
  ASSUME NEW F, NEW k, WellFound(F, k)
  PROVE  /\ Cardinality(GroupOf(F, k)) \in Nat
         /\ \A f \in GroupOf(F, k) : RankIn(F, f) \in Nat /\ RankIn(F, f) < Cardinality(GroupOf(F, k))
         /\ \A i \in 1 .. Cardinality(GroupOf(F, k)) : \E f \in GroupOf(F, k) : RankIn(F, f) = i - 1
<1> DEFINE G == GroupOf(F, k)
           lines == [g \in G |-> hash[g.line]]
<1>1. IsFiniteSet(G) /\ \A f \in G : f = Found(f.kind, f.severity, f.path, f.line, f.locator) /\ f.line \in 0 .. MaxLines
  BY DEF WellFound
<1>2. \A f \in G : <<f.kind, f.severity, f.path, f.locator>> = k
  BY DEF GroupOf, finding_group_key
<1>3. \A f, g \in G : f.line = g.line => f = g
  <2> SUFFICES ASSUME NEW f \in G, NEW g \in G, f.line = g.line PROVE f = g
    OBVIOUS
  <2>1. f.kind = g.kind /\ f.severity = g.severity /\ f.path = g.path /\ f.locator = g.locator
    BY <1>2
  <2> QED BY <1>1, <2>1 DEF Found
<1>4. lines \in [G -> Nat] /\ \A f, g \in G : lines[f] = lines[g] => f = g
  BY <1>1, <1>3, IdsDiffer
<1>5. \A f \in G : RankIn(F, f) = Cardinality(Lower(f, G, lines))
  <2> TAKE f \in G
  <2>1. finding_group_key(f) = k
    BY DEF GroupOf
  <2>2. {g \in G : hash[g.line] < hash[f.line]} = Lower(f, G, lines)
    BY DEF Lower
  <2> QED BY <2>1, <2>2 DEF RankIn
<1>6. Cardinality(G) \in Nat
  BY <1>1, FS_CardinalityType
<1> HIDE DEF G, lines
<1>7. \A f \in G : Cardinality(Lower(f, G, lines)) + 1 \in 1 .. Cardinality(G)
  BY <1>1, <1>4, PlacesAreTaken
<1>8. \A i \in 1 .. Cardinality(G) : \E f \in G : Cardinality(Lower(f, G, lines)) = i - 1
  BY <1>1, <1>4, PlacesAreTaken, ZenonT(60)
<1>9. \A f \in G : Cardinality(Lower(f, G, lines)) \in Nat
  <2> TAKE f \in G
  <2>1. Lower(f, G, lines) \in SUBSET G
    BY DEF Lower
  <2> QED BY <1>1, <2>1, FS_Subset, FS_CardinalityType
<1>10. \A f \in G : RankIn(F, f) \in Nat /\ RankIn(F, f) < Cardinality(G)
  BY <1>5, <1>6, <1>7, <1>9
<1>11. \A i \in 1 .. Cardinality(G) : \E f \in G : RankIn(F, f) = i - 1
  BY <1>5, <1>8
<1> QED BY <1>6, <1>10, <1>11 DEF G

\* What a snapshot has and another one has not.
LEMMA MinusOfRanks ==
  ASSUME NEW a, NEW b, NEW F, NEW E, a.findings = identities(F), b.findings = identities(E), NEW f
  PROVE  f \in snapshot_findings_minus(a, b) <=>
           /\ f \in F
           /\ \A g \in E : finding_group_key(g) = finding_group_key(f) => RankIn(E, g) # RankIn(F, f)
<1> DEFINE known(D, d) == [identity |-> <<finding_group_key(d), RankIn(D, d)>>, finding |-> d]
<1>1. identities(F) = {known(F, d) : d \in F} /\ identities(E) = {known(E, d) : d \in E}
  BY DEF identities, RankIn, GroupOf
<1> DEFINE head == {known(F, d) : d \in F}
           base == {known(E, d) : d \in E}
           ids == {z.identity : z \in base}
<1>2. snapshot_findings_minus(a, b) = {x.finding : x \in {y \in head : y.identity \notin ids}}
  BY <1>1 DEF snapshot_findings_minus
<1>21. \A D, d : known(D, d).finding = d /\ known(D, d).identity = <<finding_group_key(d), RankIn(D, d)>>
  OBVIOUS
<1>22. \A y : y \in head <=> \E d \in F : y = known(F, d)
  OBVIOUS
<1>23. \A i : i \in ids <=> \E g \in E : i = known(E, g).identity
  OBVIOUS
<1> HIDE DEF known, head, base, ids
<1>24. \A x : x \in snapshot_findings_minus(a, b) <=> \E d \in F : x = known(F, d).finding /\ known(F, d).identity \notin ids
  BY <1>2, <1>22
<1>3. f \in snapshot_findings_minus(a, b) <=>
        f \in F /\ ~ \E g \in E : <<finding_group_key(g), RankIn(E, g)>> = <<finding_group_key(f), RankIn(F, f)>>
  BY <1>21, <1>23, <1>24
<1>4. \A g \in E : <<finding_group_key(g), RankIn(E, g)>> = <<finding_group_key(f), RankIn(F, f)>>
                     <=> finding_group_key(g) = finding_group_key(f) /\ RankIn(E, g) = RankIn(F, f)
  OBVIOUS
<1> QED BY <1>3, <1>4

\* A group that has grown has a new finding, one that has not has none.
LEMMA GrownGroup ==
  ASSUME NEW a, NEW b, NEW F, NEW E, a.findings = identities(F), b.findings = identities(E),
         NEW k, WellFound(F, k), WellFound(E, k)
  PROVE  /\ Cardinality(GroupOf(F, k)) > Cardinality(GroupOf(E, k)) =>
              \E f \in GroupOf(F, k) : f \in snapshot_findings_minus(a, b)
         /\ Cardinality(GroupOf(F, k)) <= Cardinality(GroupOf(E, k)) =>
              \A f \in GroupOf(F, k) : f \notin snapshot_findings_minus(a, b)
<1> DEFINE m == Cardinality(GroupOf(E, k))
           n == Cardinality(GroupOf(F, k))
<1>1. n \in Nat /\ m \in Nat
  BY RanksOfGroup
<1>2. \A g \in E : finding_group_key(g) = k => RankIn(E, g) < m /\ RankIn(E, g) \in Nat
  BY RanksOfGroup DEF GroupOf
<1>3. \A i \in 1 .. m : \E g \in E : finding_group_key(g) = k /\ RankIn(E, g) = i - 1
  BY RanksOfGroup DEF GroupOf
<1>4. \A f \in GroupOf(F, k) : f \in F /\ finding_group_key(f) = k /\ RankIn(F, f) \in Nat /\ RankIn(F, f) < n
  BY RanksOfGroup DEF GroupOf
<1>5. ASSUME n > m PROVE \E f \in GroupOf(F, k) : f \in snapshot_findings_minus(a, b)
  <2>1. n \in 1 .. n
    BY <1>1, <1>5
  <2>2. PICK f \in GroupOf(F, k) : RankIn(F, f) = n - 1
    BY <2>1, RanksOfGroup
  <2>3. \A g \in E : finding_group_key(g) = k => RankIn(E, g) # RankIn(F, f)
    BY <1>1, <1>2, <1>5, <2>2
  <2> QED BY <1>4, <2>2, <2>3, MinusOfRanks
<1>6. ASSUME n <= m, NEW f \in GroupOf(F, k) PROVE f \notin snapshot_findings_minus(a, b)
  <2>1. RankIn(F, f) + 1 \in 1 .. m
    BY <1>1, <1>4, <1>6
  <2>2. PICK g \in E : finding_group_key(g) = k /\ RankIn(E, g) = (RankIn(F, f) + 1) - 1
    BY <1>3, <2>1
  <2>3. RankIn(E, g) = RankIn(F, f)
    BY <1>4, <2>2
  <2> QED BY <1>4, <2>2, <2>3, MinusOfRanks
<1> QED BY <1>5, <1>6

\* What the rules find.
LEMMA SpansAre ==
  ASSUME NEW t, NEW m
  PROVE  /\ symbol_spans(t, m) = {<<h, EndOf(t, m, h)>> : h \in Lines(t, m, "function")}
         /\ \A s \in symbol_spans(t, m) : s[1] \in Lines(t, m, "function") /\ s = <<s[1], EndOf(t, m, s[1])>>
<1>1. symbol_spans(t, m) = {<<h, EndOf(t, m, h)>> : h \in Lines(t, m, "function")}
  BY DEF symbol_spans, EndOf
<1> QED BY <1>1

LEMMA RulesFind ==
  ASSUME NEW t, NEW g
  PROVE  /\ g \in security_rules(t) <=>
              \E m \in Modules : \E i \in Lines(t, m, "secret") : g = Found("secret", high, m, i, Locator(t, m, i))
         /\ g \in complexity_findings(t) <=>
              \E m \in Modules : \E s \in symbol_spans(t, m) :
                /\ branches(t, m, s) > 1
                /\ g = Found("complexity", IF branches(t, m, s) > 2 THEN high ELSE medium, m, s[1], t[m][s[1]][2])
         /\ g \in unused_files(t) => \E m \in Modules : g = Found("unused_file", low, m, 0, 0)
<1>1. g \in security_rules(t) <=>
        \E m \in Modules : \E i \in Lines(t, m, "secret") : g = Found("secret", high, m, i, Locator(t, m, i))
  BY DEF security_rules
<1>2. g \in complexity_findings(t) <=>
        \E m \in Modules : \E s \in {r \in symbol_spans(t, m) : branches(t, m, r) > 1} :
          g = Found("complexity", IF branches(t, m, s) > 2 THEN high ELSE medium, m, s[1], t[m][s[1]][2])
  BY DEF complexity_findings
<1>3. g \in unused_files(t) => \E m \in Modules : g = Found("unused_file", low, m, 0, 0)
  BY DEF unused_files
<1> QED BY <1>1, <1>2, <1>3

LEMMA KindsOfFindings ==
  ASSUME NEW t, NEW cycles, NEW g \in Findings(t, cycles), g.kind # "circular_dependency"
  PROVE  g \in security_rules(t) \/ g \in complexity_findings(t) \/ g \in unused_files(t)
<1>1. g \notin circular_dependency_rule(t, cycles)
  BY DEF circular_dependency_rule, Found
<1> QED BY <1>1 DEF Findings

LEMMA FindingsAreInFiles ==
  ASSUME NEW t, IsTree(t), NEW cycles, NEW g \in Findings(t, cycles), g.kind # "circular_dependency"
  PROVE  /\ g = Found(g.kind, g.severity, g.path, g.line, g.locator)
         /\ g.path \in Modules /\ g.line \in 0 .. Len(t[g.path])
         /\ g.kind \in {"secret", "complexity", "unused_file"}
<1>1. \A m \in Modules : \A kind : \A i \in Lines(t, m, kind) : i \in 0 .. Len(t[m])
  BY LinesOfFile DEF Lines
<1>2. \A m \in Modules : Len(t[m]) \in Nat
  BY LinesOfFile
<1>3. CASE g \in security_rules(t)
  <2>1. PICK m \in Modules : \E i \in Lines(t, m, "secret") : g = Found("secret", high, m, i, Locator(t, m, i))
    BY <1>3, RulesFind
  <2> QED BY <1>1, <2>1 DEF Found
<1>4. CASE g \in complexity_findings(t)
  <2>1. PICK m \in Modules : \E s \in symbol_spans(t, m) :
          g = Found("complexity", IF branches(t, m, s) > 2 THEN high ELSE medium, m, s[1], t[m][s[1]][2])
    BY <1>4, RulesFind
  <2>2. \A s \in symbol_spans(t, m) : s[1] \in Lines(t, m, "function")
    BY SpansAre
  <2>3. \A s \in symbol_spans(t, m) : s[1] \in 0 .. Len(t[m])
    BY <1>1, <2>2
  <2> QED BY <2>1, <2>3 DEF Found
<1>5. CASE g \in unused_files(t)
  <2>1. PICK m \in Modules : g = Found("unused_file", low, m, 0, 0)
    BY <1>5, RulesFind
  <2> QED BY <1>2, <2>1 DEF Found
<1> QED BY <1>3, <1>4, <1>5, KindsOfFindings

LEMMA GroupsAreFinite ==
  ASSUME NEW t, IsTree(t), NEW cycles, NEW k, k[1] # "circular_dependency"
  PROVE  WellFound(Findings(t, cycles), k)
<1> DEFINE G == GroupOf(Findings(t, cycles), k)
           lines == [g \in G |-> g.line]
<1>1. ASSUME NEW g \in G
      PROVE  /\ <<g.kind, g.severity, g.path, g.locator>> = k
             /\ g = Found(g.kind, g.severity, g.path, g.line, g.locator)
             /\ k[3] \in Modules /\ g.line \in 0 .. Len(t[k[3]])
  <2>1. g \in Findings(t, cycles) /\ <<g.kind, g.severity, g.path, g.locator>> = k
    BY DEF GroupOf, finding_group_key
  <2>2. g.kind = k[1] /\ g.path = k[3]
    BY <2>1
  <2> QED BY <2>1, <2>2, FindingsAreInFiles
<1> HIDE DEF G
<1>2. \A f, g \in G : f.line = g.line => f = g
  <2> SUFFICES ASSUME NEW f \in G, NEW g \in G, f.line = g.line PROVE f = g
    OBVIOUS
  <2>1. f.kind = g.kind /\ f.severity = g.severity /\ f.path = g.path /\ f.locator = g.locator
    BY <1>1
  <2> QED BY <1>1, <2>1 DEF Found
<1>3. CASE k[3] \in Modules
  <2>1. IsFiniteSet(0 .. Len(t[k[3]])) /\ Len(t[k[3]]) \in Nat
    <3>1. Len(t[k[3]]) \in Nat
      BY <1>3, LinesOfFile
    <3> QED BY <3>1, FS_Interval
  <2>2. lines \in Injection(G, 0 .. Len(t[k[3]]))
    BY <1>1, <1>2 DEF Injection, IsInjective
  <2>3. IsFiniteSet(G)
    BY <2>1, <2>2, FS_Injection
  <2>4. \A g \in G : g.line \in 0 .. MaxLines
    <3>1. Len(t[k[3]]) <= MaxLines
      BY <1>3 DEF IsTree
    <3> QED BY <1>1, <2>1, <3>1, IdsDiffer
  <2> QED BY <1>1, <2>3, <2>4 DEF WellFound, G
<1>4. CASE k[3] \notin Modules
  <2>1. G = {}
    BY <1>1, <1>4
  <2> QED BY <2>1, FS_EmptySet DEF WellFound, G
<1> QED BY <1>3, <1>4

\* The secrets of a group are the lines that hold them.
SecretLines(t, m, l) == {i \in Lines(t, m, "secret") : Locator(t, m, i) = l}

LEMMA SecretsCount ==
  ASSUME NEW t, IsTree(t), NEW cycles, NEW m \in Modules, NEW l
  PROVE  LET k == <<"secret", high, m, l>>
         IN /\ \A i : i \in SecretLines(t, m, l) =>
                 Found("secret", high, m, i, l) \in GroupOf(Findings(t, cycles), k)
            /\ \A g \in GroupOf(Findings(t, cycles), k) :
                 g.line \in SecretLines(t, m, l) /\ g = Found("secret", high, m, g.line, l)
            /\ Cardinality(GroupOf(Findings(t, cycles), k)) = Cardinality(SecretLines(t, m, l))
<1> DEFINE k == <<"secret", high, m, l>>
           G == GroupOf(Findings(t, cycles), k)
           S == SecretLines(t, m, l)
           found == [i \in S |-> Found("secret", high, m, i, l)]
<1>1. ASSUME NEW i \in S PROVE Found("secret", high, m, i, l) \in G
  <2> DEFINE g == Found("secret", high, m, i, l)
  <2>1. g \in security_rules(t)
    BY RulesFind DEF SecretLines
  <2>2. g \in Findings(t, cycles)
    BY <2>1 DEF Findings
  <2>3. finding_group_key(g) = k
    BY DEF finding_group_key, Found
  <2> QED BY <2>2, <2>3 DEF GroupOf
<1>2. ASSUME NEW g \in G PROVE g.line \in S /\ g = Found("secret", high, m, g.line, l)
  <2>1. g \in Findings(t, cycles) /\ g.kind = "secret" /\ g.path = m /\ g.locator = l
    BY DEF GroupOf, finding_group_key
  <2>2. g \in security_rules(t)
    <3>1. g \notin complexity_findings(t)
      BY <2>1 DEF complexity_findings, Found
    <3>2. g \notin unused_files(t)
      BY <2>1 DEF unused_files, Found
    <3> QED BY <2>1, <3>1, <3>2, KindsOfFindings
  <2>3. PICK n \in Modules : \E i \in Lines(t, n, "secret") : g = Found("secret", high, n, i, Locator(t, n, i))
    BY <2>2, RulesFind
  <2>4. PICK i \in Lines(t, n, "secret") : g = Found("secret", high, n, i, Locator(t, n, i))
    BY <2>3
  <2>5. n = m /\ g.line = i /\ Locator(t, n, i) = l
    BY <2>1, <2>4 DEF Found
  <2> QED BY <2>4, <2>5 DEF SecretLines
<1>3. IsFiniteSet(S)
  <2>1. S \in SUBSET DOMAIN t[m]
    BY DEF SecretLines, Lines
  <2> QED BY <2>1, LinesOfFile
<1> HIDE DEF G, S
<1>4. found \in Bijection(S, G)
  <2>1. found \in [S -> G]
    BY <1>1
  <2>2. \A i, j \in S : found[i] = found[j] => i = j
    <3>1. \A i \in S : found[i].line = i
      BY DEF Found
    <3> QED BY <3>1
  <2>3. \A g \in G : \E i \in S : found[i] = g
    BY <1>2
  <2> HIDE DEF found
  <2> QED BY <2>1, <2>2, <2>3 DEF Bijection, Injection, IsInjective, Surjection
<1>5. Cardinality(G) = Cardinality(S)
  <2>1. ExistsBijection(S, G)
    BY <1>4 DEF ExistsBijection
  <2> QED BY <1>3, <2>1, FS_Bijection
<1> QED BY <1>1, <1>2, <1>5 DEF G, S

\* Lines that git does not report are lines of the version before.
KeptFrom(f, K, t, u, m) ==
  /\ K \subseteq DOMAIN u[m] /\ f \in [K -> DOMAIN t[m]]
  /\ \A i \in K : t[m][f[i]] = u[m][i]
  /\ \A i, j \in K : i < j <=> f[i] < f[j]

LEMMA HunksLeaveTheRest ==
  ASSUME NEW t, IsTree(t), NEW u, IsTree(u), NEW m \in Modules, NEW ranges \in hunk_ranges(t[m], u[m])
  PROVE  \E f : KeptFrom(f, DOMAIN u[m] \ ranges, t, u, m)
<1>1. PICK K \in SUBSET DOMAIN u[m] :
        /\ At(u[m], K) \in {At(t[m], places) : places \in SUBSET DOMAIN t[m]}
        /\ ranges = DOMAIN u[m] \ K
  BY DEF hunk_ranges
<1>2. PICK L \in SUBSET DOMAIN t[m] : At(u[m], K) = At(t[m], L)
  BY <1>1
<1>3. IsFiniteSet(K) /\ K \subseteq Nat /\ IsFiniteSet(L) /\ L \subseteq Nat
  BY LinesOfFile
<1>4. PICK f : Paired(f, K, L, u[m], t[m])
  BY <1>2, <1>3, SamePlaces
<1>5. DOMAIN u[m] \ ranges = K
  BY <1>1
<1>6. KeptFrom(f, K, t, u, m)
  BY <1>4 DEF Paired, KeptFrom
<1> QED BY <1>5, <1>6

LEMMA SameFileIsKept ==
  ASSUME NEW t, NEW u, NEW m \in Modules, t[m] = u[m], IsTree(u)
  PROVE  \E f : KeptFrom(f, DOMAIN u[m], t, u, m)
<1> DEFINE f == [i \in DOMAIN u[m] |-> i]
<1>1. KeptFrom(f, DOMAIN u[m], t, u, m)
  BY DEF KeptFrom
<1> QED BY <1>1

LEMMA AnswersLeaveTheRest ==
  ASSUME NEW t, IsTree(t), NEW u, IsTree(u), NEW paths, \A m \in Modules \ paths : t[m] = u[m],
         NEW ranges \in change_head_ranges(t, u, paths), NEW m \in Modules
  PROVE  \E f : KeptFrom(f, DOMAIN u[m] \ ranges[m], t, u, m)
<1>1. ranges[m] \in IF m \in paths THEN hunk_ranges(t[m], u[m]) ELSE {{}}
  BY DEF change_head_ranges
<1>2. CASE m \in paths
  BY <1>1, <1>2, HunksLeaveTheRest
<1>3. CASE m \notin paths
  <2>1. DOMAIN u[m] \ ranges[m] = DOMAIN u[m] /\ t[m] = u[m]
    BY <1>1, <1>3
  <2> QED BY <2>1, SameFileIsKept
<1> QED BY <1>2, <1>3

\* Functions that all are kept are the functions that there were.
LEMMA KeptFollow ==
  ASSUME NEW t, IsTree(t), NEW u, IsTree(u), NEW m \in Modules, NEW f, NEW K, KeptFrom(f, K, t, u, m),
         Lines(u, m, "function") \subseteq K,
         At(t[m], Lines(t, m, "function")) = At(u[m], Lines(u, m, "function"))
  PROVE  Follows(f, K, t, u, m)
<1> DEFINE A == Lines(u, m, "function")
           B == Lines(t, m, "function")
<1>1. A \in SUBSET K /\ B \in SUBSET DOMAIN t[m] /\ K \in SUBSET DOMAIN u[m]
  BY DEF Lines, KeptFrom
<1>2. \A i \in A : f[i] \in B
  BY <1>1 DEF KeptFrom, Lines, Kind
<1>3. Cardinality(A) = Cardinality(B)
  <2>1. DOMAIN At(u[m], A) = 1 .. Cardinality(A) /\ DOMAIN At(t[m], B) = 1 .. Cardinality(B)
    BY DEF At, Sorted
  <2>2. 1 .. Cardinality(A) = 1 .. Cardinality(B)
    BY <2>1
  <2>3. IsFiniteSet(A) /\ IsFiniteSet(B)
    BY LinesOfFile DEF Lines
  <2>4. Cardinality(A) \in Nat /\ Cardinality(B) \in Nat
    BY <2>3, FS_CardinalityType
  <2> HIDE DEF A, B
  <2> QED BY <2>2, <2>4
<1> HIDE DEF A, B
<1>4. \A l \in B : \E i \in A : f[i] = l
  BY <1>1, <1>2, <1>3, FollowersCount DEF KeptFrom
<1>5. \A l \in B : \E i \in K : f[i] = l
  BY <1>1, <1>4
<1> QED BY <1>1, <1>5 DEF Follows, KeptFrom, A, B

\* A secret more than there was, of one function, is on a line that git reports.
LEMMA SecretsAreReported ==
  ASSUME NEW t, IsTree(t), NEW u, IsTree(u), NEW c, NEW d, NEW m \in Modules, NEW l,
         NEW f, NEW K, Follows(f, K, t, u, m), NEW k, k = <<"secret", high, m, l>>,
         Cardinality(GroupOf(Findings(u, d), k)) > Cardinality(GroupOf(Findings(t, c), k))
  PROVE  \E i \in SecretLines(u, m, l) : i \notin K
<1> SUFFICES ASSUME SecretLines(u, m, l) \subseteq K PROVE FALSE
  OBVIOUS
<1> DEFINE A == SecretLines(u, m, l)
           B == SecretLines(t, m, l)
<1>1. A \in SUBSET K /\ B \in SUBSET DOMAIN t[m]
  BY DEF SecretLines, Lines
<1>2. ASSUME NEW i \in A PROVE f[i] \in B
  <2>1. i \in K /\ i \in Lines(u, m, "secret") /\ Locator(u, m, i) = l
    BY <1>1 DEF SecretLines
  <2>2. f[i] \in Lines(t, m, "secret") /\ Locator(t, m, f[i]) = l
    BY <2>1, KindsFollow, LocatorFollows
  <2> QED BY <2>2 DEF SecretLines
<1>3. Cardinality(GroupOf(Findings(u, d), k)) = Cardinality(A) /\ Cardinality(GroupOf(Findings(t, c), k)) = Cardinality(B)
  BY SecretsCount
<1> HIDE DEF A, B
<1>4. K \in SUBSET DOMAIN u[m] /\ f \in [K -> DOMAIN t[m]] /\ \A i, j \in K : i < j <=> f[i] < f[j]
  BY DEF Follows
<1>5. Cardinality(A) \in Nat /\ Cardinality(B) \in Nat /\ Cardinality(A) <= Cardinality(B)
  BY <1>1, <1>2, <1>4, FollowersCount
<1> QED BY <1>3, <1>5

\* A function that git does not report is as complex as it was.
LEMMA ComplexWas ==
  ASSUME NEW t, IsTree(t), NEW u, IsTree(u), NEW m \in Modules, NEW f, NEW K, Follows(f, K, t, u, m),
         NEW s \in symbol_spans(u, m), branches(u, m, s) > 1,
         \A i \in DOMAIN u[m] : s[1] <= i /\ i <= s[2] => i \in K
  PROVE  \E g \in complexity_findings(t) :
           /\ g.kind = "complexity" /\ g.path = m /\ g.locator = u[m][s[1]][2]
           /\ (IF branches(u, m, s) > 2 THEN high ELSE medium) <= g.severity
<1> DEFINE h == s[1]
           r == <<f[h], EndOf(t, m, f[h])>>
           g == Found("complexity", IF branches(t, m, r) > 2 THEN high ELSE medium, m, r[1], t[m][r[1]][2])
<1>1. h \in Lines(u, m, "function") /\ s = <<h, EndOf(u, m, h)>>
  BY SpansAre
<1>2. /\ r \in symbol_spans(t, m) /\ t[m][f[h]] = u[m][h]
      /\ branches(u, m, s) \in Nat /\ branches(t, m, r) \in Nat
      /\ branches(u, m, s) <= branches(t, m, r)
  <2> HIDE DEF h
  <2> QED BY <1>1, BranchesFollow
<1>3. branches(t, m, r) > 1
  BY <1>2
<1>4. g \in complexity_findings(t)
  BY <1>2, <1>3, RulesFind
<1>5. g.kind = "complexity" /\ g.path = m /\ g.locator = t[m][f[h]][2]
  BY DEF Found
<1>6. g.severity = IF branches(t, m, r) > 2 THEN high ELSE medium
  BY DEF Found
<1>7. (IF branches(u, m, s) > 2 THEN high ELSE medium) <= g.severity
  <2> HIDE DEF g, r
  <2> QED BY <1>2, <1>6 DEF high, medium
<1> HIDE DEF g, r
<1> QED BY <1>2, <1>4, <1>5, <1>7

IsSnapshot(s) == s = Snapshot(s.files, s.sha) /\ IsTree(s.files)

LEMMA FindingsOfSnapshot ==
  ASSUME NEW s, IsSnapshot(s)
  PROVE  /\ s.findings = identities(Findings(s.files, s.loops))
         /\ {x.finding : x \in s.findings} = Findings(s.files, s.loops)
<1> DEFINE cycles == elementary_cycles(s.files)
<1>1. Snapshot(s.files, s.sha).loops = cycles /\ Snapshot(s.files, s.sha).findings = identities(Findings(s.files, cycles))
  BY DEF Snapshot
<1>2. s.loops = cycles /\ s.findings = identities(Findings(s.files, cycles))
  BY <1>1 DEF IsSnapshot
<1> DEFINE F == Findings(s.files, cycles)
           known(d) == [identity |-> <<finding_group_key(d), RankIn(F, d)>>, finding |-> d]
<1>3. identities(F) = {known(d) : d \in F} /\ \A d : known(d).finding = d
  BY DEF identities, RankIn, GroupOf
<1> HIDE DEF F, known
<1>4. {x.finding : x \in {known(d) : d \in F}} = F
  BY <1>3
<1>5. {x.finding : x \in identities(F)} = F
  BY <1>3, <1>4
<1> QED BY <1>2, <1>5 DEF F

\* The lines that git does not report follow those of the base.
LEMMA AnswersFollow ==
  ASSUME NEW base, IsSnapshot(base), IsSnapshot(Newest), Clean(base), Clean(Newest) \/ base.sha = Newest.sha,
         NEW ranges \in attested_change_ranges(base, Newest, commits, Newest.files), NEW m \in Modules
  PROVE  \E f : KeptFrom(f, DOMAIN Newest.files[m] \ ranges[m], base.files, Newest.files, m)
<1> DEFINE differ == {n \in Modules : base.files[n] # Newest.files[n]}
<1>1. ranges \in change_head_ranges(base.files, Newest.files, differ)
  <2>1. base.files = commits[base.sha]
    BY DEF Clean
  <2>2. CASE base.sha = Newest.sha
    BY <2>1, <2>2 DEF attested_change_ranges, worktree_line_ranges, changed_files
  <2>3. CASE base.sha # Newest.sha
    <3>1. Newest.files = commits[Newest.sha]
      BY <2>3 DEF Clean
    <3> QED BY <2>1, <2>3, <3>1 DEF attested_change_ranges, changed_line_ranges
  <2> QED BY <2>2, <2>3
<1>2. \A n \in Modules \ differ : base.files[n] = Newest.files[n]
  OBVIOUS
<1> HIDE DEF differ
<1> QED BY <1>1, <1>2, AnswersLeaveTheRest DEF IsSnapshot

\* Beside its loops, what a change introduced is among the new findings.
LEMMA IntroducedIsNew ==
  ASSUME NEW base, IsSnapshot(base), IsSnapshot(Newest),
         NEW g \in Findings(Newest.files, Newest.loops), g.kind # "circular_dependency",
         \/ g.kind = "complexity" /\ \A o \in Findings(base.files, base.loops) :
              o.kind = g.kind /\ o.path = g.path /\ o.locator = g.locator => o.severity < g.severity
         \/ Cardinality(GroupOf(Findings(Newest.files, Newest.loops), finding_group_key(g)))
              > Cardinality(GroupOf(Findings(base.files, base.loops), finding_group_key(g)))
  PROVE  \E f \in new_findings(base, Newest) :
           f \in Findings(Newest.files, Newest.loops) /\ finding_group_key(f) = finding_group_key(g)
<1> DEFINE k == finding_group_key(g)
           F == Findings(Newest.files, Newest.loops)
           E == Findings(base.files, base.loops)
<1>1. Newest.findings = identities(F) /\ base.findings = identities(E)
  BY FindingsOfSnapshot
<1>2. k[1] = g.kind /\ k = <<g.kind, g.severity, g.path, g.locator>>
  BY DEF finding_group_key
<1>3. WellFound(F, k) /\ WellFound(E, k)
  BY <1>2, GroupsAreFinite DEF IsSnapshot
<1>4. \A f : f \in new_findings(base, Newest) <=>
        f \in snapshot_findings_minus(Newest, base) /\ f.kind # "circular_dependency"
  BY DEF new_findings, finding_diff
<1>5. \A f : finding_group_key(f) = k => f.kind = g.kind
  BY DEF finding_group_key
<1>6. CASE Cardinality(GroupOf(F, k)) > Cardinality(GroupOf(E, k))
  <2> HIDE DEF F, E, k
  <2>1. PICK f \in GroupOf(F, k) : f \in snapshot_findings_minus(Newest, base)
    BY <1>1, <1>3, <1>6, GrownGroup
  <2>2. f \in F /\ finding_group_key(f) = k
    BY DEF GroupOf
  <2> QED BY <1>4, <1>5, <2>1, <2>2 DEF F, k
<1>7. CASE \A o \in E : o.kind = g.kind /\ o.path = g.path /\ o.locator = g.locator => o.severity < g.severity
  <2>1. ASSUME NEW o \in E, finding_group_key(o) = k PROVE FALSE
    <3>1. o.kind = g.kind /\ o.path = g.path /\ o.locator = g.locator /\ o.severity = g.severity
      BY <2>1 DEF finding_group_key
    <3>2. o.severity < o.severity
      BY <1>7, <3>1
    <3>3. o.severity \in Nat
      <4>1. o \in Findings(base.files, base.loops) /\ o.kind # "circular_dependency"
        BY <3>1
      <4>2. o \in security_rules(base.files) \/ o \in complexity_findings(base.files) \/ o \in unused_files(base.files)
        BY <4>1, KindsOfFindings
      <4> QED BY <4>2 DEF security_rules, complexity_findings, unused_files, Found, low, medium, high
    <3> QED BY <3>2, <3>3
  <2> HIDE DEF F, E, k
  <2>2. g \in snapshot_findings_minus(Newest, base)
    BY <1>1, <2>1, MinusOfRanks DEF F, k
  <2> QED BY <1>4, <2>2
<1> QED BY <1>6, <1>7

\* Every new finding of a group of secrets is charged when git reports one of its lines,
\* and one of a function when git reports a line of it.
LEMMA NewIsCharged ==
  ASSUME NEW base, IsSnapshot(base), IsSnapshot(Newest), Clean(base), Clean(Newest) \/ base.sha = Newest.sha,
         NEW ranges \in attested_change_ranges(base, Newest, commits, Newest.files),
         \A m \in Modules :
           /\ At(base.files[m], Lines(base.files, m, "function")) = At(Newest.files[m], Lines(Newest.files, m, "function"))
           /\ ranges[m] \cap Lines(Newest.files, m, "function") = {},
         NEW g \in Findings(Newest.files, Newest.loops), g.kind # "circular_dependency",
         IF g.kind = "complexity"
         THEN \A o \in Findings(base.files, base.loops) :
                o.kind = g.kind /\ o.path = g.path /\ o.locator = g.locator => o.severity < g.severity
         ELSE Cardinality(GroupOf(Findings(Newest.files, Newest.loops), finding_group_key(g)))
                > Cardinality(GroupOf(Findings(base.files, base.loops), finding_group_key(g))),
         NEW f \in Findings(Newest.files, Newest.loops), finding_group_key(f) = finding_group_key(g)
  PROVE  charged_to_change(f, ranges, Newest)
<1> DEFINE t == base.files
           u == Newest.files
           m == g.path
           K == DOMAIN u[m] \ ranges[m]
<1>1. IsTree(t) /\ IsTree(u)
  BY DEF IsSnapshot
<1>2. /\ m \in Modules /\ g = Found(g.kind, g.severity, m, g.line, g.locator)
      /\ g.kind \in {"secret", "complexity", "unused_file"}
  BY <1>1, FindingsAreInFiles
<1>3. f.kind = g.kind /\ f.severity = g.severity /\ f.path = m /\ f.locator = g.locator
  BY DEF finding_group_key
<1>4. PICK e : KeptFrom(e, K, t, u, m)
  BY <1>2, AnswersFollow
<1>5. Follows(e, K, t, u, m)
  <2>1. Lines(u, m, "function") \subseteq K
    BY <1>2 DEF Lines
  <2>2. At(t[m], Lines(t, m, "function")) = At(u[m], Lines(u, m, "function"))
    BY <1>2
  <2> HIDE DEF t, u, m, K
  <2> QED BY <1>1, <1>2, <1>4, <2>1, <2>2, KeptFollow
<1>6. CASE g.kind = "secret"
  <2>1. g.severity = high
    <3>1. g \in security_rules(u)
      <4>1. g \notin complexity_findings(u) /\ g \notin unused_files(u)
        BY <1>6 DEF complexity_findings, unused_files, Found
      <4> QED BY <4>1, KindsOfFindings
    <3> QED BY <3>1 DEF security_rules, Found
  <2> DEFINE k == <<"secret", high, m, g.locator>>
  <2>2. finding_group_key(g) = k
    BY <1>6, <2>1 DEF finding_group_key
  <2>3. Cardinality(GroupOf(Findings(u, Newest.loops), k)) > Cardinality(GroupOf(Findings(t, base.loops), k))
    BY <1>6, <2>2
  <2>4. PICK i \in SecretLines(u, m, g.locator) : i \notin K
    <3> HIDE DEF t, u, m, K
    <3> QED BY <1>1, <1>2, <1>5, <2>3, SecretsAreReported
  <2> DEFINE site == Found("secret", high, m, i, g.locator)
             sites == {x \in {y.finding : y \in Newest.findings} : finding_group_key(x) = finding_group_key(f)}
  <2>5. site \in GroupOf(Findings(u, Newest.loops), k)
    BY <1>1, <1>2, SecretsCount
  <2>6. site \in sites
    BY <2>2, <2>5, FindingsOfSnapshot DEF GroupOf
  <2>7. site.line = i /\ site.path = m
    BY DEF Found
  <2>8. i \in ranges[m]
    BY <2>4 DEF SecretLines, Lines
  <2>9. \E x \in sites : x.line \in ranges[x.path]
    BY <2>6, <2>7, <2>8
  <2>10. point_scoped(f.kind) /\ sites # {}
    BY <1>3, <1>6, <2>6 DEF point_scoped
  <2> HIDE DEF sites, site
  <2> QED BY <2>9, <2>10 DEF charged_to_change, sites
<1>7. CASE g.kind = "complexity"
  <2>1. f \in complexity_findings(u)
    <3>1. f \notin security_rules(u) /\ f \notin unused_files(u)
      BY <1>3, <1>7 DEF security_rules, unused_files, Found
    <3> QED BY <1>3, <1>7, <3>1, KindsOfFindings
  <2>2. PICK n \in Modules : \E s \in symbol_spans(u, n) :
          /\ branches(u, n, s) > 1
          /\ f = Found("complexity", IF branches(u, n, s) > 2 THEN high ELSE medium, n, s[1], u[n][s[1]][2])
    BY <2>1, RulesFind
  <2>3. n = m
    BY <1>3, <2>2 DEF Found
  <2>4. PICK s \in symbol_spans(u, m) :
          /\ branches(u, m, s) > 1
          /\ f = Found("complexity", IF branches(u, m, s) > 2 THEN high ELSE medium, m, s[1], u[m][s[1]][2])
    BY <2>2, <2>3
  <2>5. /\ f.line = s[1] /\ f.locator = u[m][s[1]][2]
        /\ f.severity = IF branches(u, m, s) > 2 THEN high ELSE medium
    BY <2>4 DEF Found
  <2>6. \E i \in ranges[m] : s[1] <= i /\ i <= s[2]
    <3> SUFFICES ASSUME ~ \E i \in ranges[m] : s[1] <= i /\ i <= s[2] PROVE FALSE
      OBVIOUS
    <3>1. \A i \in DOMAIN u[m] : s[1] <= i /\ i <= s[2] => i \in K
      OBVIOUS
    <3>2. PICK o \in complexity_findings(t) :
            /\ o.kind = "complexity" /\ o.path = m /\ o.locator = u[m][s[1]][2]
            /\ (IF branches(u, m, s) > 2 THEN high ELSE medium) <= o.severity
      <4> HIDE DEF t, u, m, K
      <4> QED BY <1>1, <1>2, <1>5, <2>4, <3>1, ComplexWas
    <3>3. o \in Findings(t, base.loops)
      BY <3>2 DEF Findings
    <3>4. o.severity < f.severity
      BY <1>3, <1>7, <2>5, <3>2, <3>3
    <3>5. o.severity \in Nat /\ f.severity \in Nat
      BY <2>5, <3>2 DEF complexity_findings, Found, medium, high
    <3> QED BY <2>5, <3>2, <3>4, <3>5
  <2>7. enclosing_span(symbol_spans(u, m), f.line) = s
    <3>1. s[1] \in Lines(u, m, "function") /\ s = <<s[1], EndOf(u, m, s[1])>>
      BY SpansAre
    <3>2. s[1] \in DOMAIN u[m] /\ Heads(u, m, s[1], s[1])
      <4>1. s[1] \in DOMAIN u[m] /\ DOMAIN u[m] \subseteq Nat
        BY <1>1, <1>2, <3>1, LinesOfFile DEF Lines
      <4> QED BY <3>1, <4>1 DEF Heads, Lines
    <3>3. Enclosing(symbol_spans(u, m), f.line) = {s}
      <4> HIDE DEF u, m
      <4> QED BY <1>1, <1>2, <2>5, <3>1, <3>2, EnclosedByHead
    <3> HIDE DEF u, m
    <3> QED BY <3>3 DEF enclosing_span
  <2>8. ~ point_scoped(f.kind) /\ f.path = m
    BY <1>3, <1>7 DEF point_scoped
  <2> HIDE DEF m
  <2> QED BY <2>6, <2>7, <2>8 DEF charged_to_change
<1>8. CASE g.kind = "unused_file"
  BY <1>3, <1>8 DEF charged_to_change, point_scoped, body_scoped
<1> QED BY <1>2, <1>6, <1>7, <1>8

LEMMA AllAreCharged ==
  ASSUME NEW base, IsSnapshot(base), IsSnapshot(Newest), Clean(base), Clean(Newest) \/ base.sha = Newest.sha
  PROVE  AllCharged(base)
<1> DEFINE F == Findings(Newest.files, Newest.loops)
           E == Findings(base.files, base.loops)
           worse(g) == \A o \in E : o.kind = g.kind /\ o.path = g.path /\ o.locator = g.locator => o.severity < g.severity
           more(g) == Cardinality(GroupOf(F, finding_group_key(g))) > Cardinality(GroupOf(E, finding_group_key(g)))
           answers == attested_change_ranges(base, Newest, commits, Newest.files)
           new == new_findings(base, Newest)
<1>1. Introduced(base) =
        {finding_group_key(f) : f \in {g \in F : g.kind # "circular_dependency" /\ IF g.kind = "complexity" THEN worse(g) ELSE more(g)}}
  <2>1. {x.finding : x \in Newest.findings} = F /\ {x.finding : x \in base.findings} = E
    BY FindingsOfSnapshot
  <2> HIDE DEF F, E
  <2> QED BY <2>1 DEF Introduced, GroupOf
<1>2. SUFFICES ASSUME NEW scoped \in Scoped(base), KeptFunctions(base, scoped),
                      NEW g \in F, g.kind # "circular_dependency", IF g.kind = "complexity" THEN worse(g) ELSE more(g)
               PROVE  finding_group_key(g) \in {finding_group_key(f) : f \in scoped.findings}
  <2> HIDE DEF F, worse, more
  <2> QED BY <1>1 DEF AllCharged
<1>3. PICK f \in new : f \in F /\ finding_group_key(f) = finding_group_key(g)
  BY <1>2, IntroducedIsNew
<1>4. CASE answers = {}
  <2>1. scoped.findings = new
    BY <1>4 DEF Scoped, scoped_findings
  <2> QED BY <1>3, <2>1
<1>5. CASE answers # {}
  <2>1. PICK ranges \in answers :
          scoped = [findings |-> scope_to_touched_lines(ranges, Newest, new), answered |-> TRUE, ranges |-> ranges]
    BY <1>5 DEF Scoped, scoped_findings
  <2>2. scoped.ranges = ranges /\ scoped.findings = {x \in new : charged_to_change(x, ranges, Newest)}
    BY <2>1 DEF scope_to_touched_lines
  <2>3. \A m \in Modules :
          /\ At(base.files[m], Lines(base.files, m, "function")) = At(Newest.files[m], Lines(Newest.files, m, "function"))
          /\ ranges[m] \cap Lines(Newest.files, m, "function") = {}
    BY <1>2, <2>2 DEF KeptFunctions
  <2>4. charged_to_change(f, ranges, Newest)
    BY <1>2, <1>3, <2>3, NewIsCharged
  <2> QED BY <1>3, <2>2, <2>4
<1> QED BY <1>4, <1>5

\* Snapshots are those of trees.
ReviewInv ==
  /\ IsTree(tree)
  /\ snapshots \in Seq(Range(snapshots))
  /\ \A i \in DOMAIN snapshots : IsSnapshot(snapshots[i])

LEMMA EditedLength ==
  ASSUME NEW S, NEW s \in Seq(S), NEW at \in Nat, at >= 1, NEW e \in S
  PROVE  /\ at <= Len(s) + 1 => Len(InsertAt(s, at, e)) = Len(s) + 1
         /\ at <= Len(s) => Len(RemoveAt(s, at)) = Len(s) - 1
<1> DEFINE a == SubSeq(s, 1, at - 1)
           b == SubSeq(s, at, Len(s))
           c == SubSeq(s, at + 1, Len(s))
<1>1. Len(s) \in Nat /\ \A i \in 1 .. Len(s) : s[i] \in S
  BY LenProperties
<1>2. ASSUME at <= Len(s) + 1
      PROVE  a \in Seq(S) /\ b \in Seq(S) /\ Len(a) = at - 1 /\ Len(b) = Len(s) - at + 1
  <2>1. \A i \in 1 .. at - 1 : s[i] \in S
    BY <1>1, <1>2
  <2>2. \A i \in at .. Len(s) : s[i] \in S
    BY <1>1
  <2>3. a \in Seq(S) /\ Len(a) = IF 1 <= at - 1 THEN (at - 1) - 1 + 1 ELSE 0
    <3>1. at - 1 \in Int /\ 1 \in Int
      OBVIOUS
    <3> QED BY <2>1, <3>1, SubSeqProperties
  <2>4. b \in Seq(S) /\ Len(b) = IF at <= Len(s) THEN Len(s) - at + 1 ELSE 0
    <3>1. at \in Int /\ Len(s) \in Int
      BY <1>1
    <3> QED BY <2>2, <3>1, SubSeqProperties
  <2> HIDE DEF a, b
  <2> QED BY <1>1, <1>2, <2>3, <2>4
<1>3. ASSUME at <= Len(s) PROVE c \in Seq(S) /\ Len(c) = Len(s) - at
  <2>1. \A i \in at + 1 .. Len(s) : s[i] \in S
    BY <1>1
  <2>2. at + 1 \in Int /\ Len(s) \in Int
    BY <1>1
  <2>3. c \in Seq(S) /\ Len(c) = IF at + 1 <= Len(s) THEN Len(s) - (at + 1) + 1 ELSE 0
    BY <2>1, <2>2, SubSeqProperties
  <2> HIDE DEF c
  <2> QED BY <1>1, <1>3, <2>2, <2>3
<1>4. <<e>> \in Seq(S) /\ Len(<<e>>) = 1
  OBVIOUS
<1>5. InsertAt(s, at, e) = (a \o <<e>>) \o b /\ RemoveAt(s, at) = a \o c
  BY DEF InsertAt, RemoveAt
<1> HIDE DEF a, b, c
<1>6. ASSUME at <= Len(s) + 1 PROVE Len(InsertAt(s, at, e)) = Len(s) + 1
  <2>1. a \o <<e>> \in Seq(S) /\ Len(a \o <<e>>) = Len(a) + 1
    BY <1>2, <1>4, <1>6, ConcatProperties
  <2>2. Len((a \o <<e>>) \o b) = Len(a \o <<e>>) + Len(b)
    BY <1>2, <1>6, <2>1, ConcatProperties
  <2> QED BY <1>1, <1>2, <1>5, <1>6, <2>1, <2>2
<1>7. ASSUME at <= Len(s) PROVE Len(RemoveAt(s, at)) = Len(s) - 1
  <2>1. at <= Len(s) + 1
    BY <1>1, <1>7
  <2>2. Len(a \o c) = Len(a) + Len(c)
    BY <1>2, <1>3, <1>7, <2>1, ConcatProperties
  <2>3. Len(RemoveAt(s, at)) = Len(a) + Len(c)
    BY <1>5, <2>2
  <2>4. Len(a) = at - 1 /\ Len(c) = Len(s) - at
    BY <1>2, <1>3, <1>7, <2>1
  <2> QED BY <1>1, <2>3, <2>4
<1> QED BY <1>6, <1>7

LEMMA EditedIsTree ==
  ASSUME NEW t, IsTree(t), NEW m \in Modules, NEW at \in Nat, at >= 1
  PROVE  /\ \A line : at <= Len(t[m]) + 1 /\ Len(t[m]) < MaxLines => IsTree([t EXCEPT ![m] = InsertAt(@, at, line)])
         /\ at \in DOMAIN t[m] => IsTree([t EXCEPT ![m] = RemoveAt(@, at)])
<1>1. t[m] \in Seq(Range(t[m])) /\ DOMAIN t = Modules /\ Len(t[m]) \in Nat /\ DOMAIN t[m] = 1 .. Len(t[m])
  BY LinesOfFile DEF IsTree, IsFile
<1>2. ASSUME NEW s, IsFile(s), Len(s) <= MaxLines PROVE IsTree([t EXCEPT ![m] = s])
  BY <1>1, <1>2 DEF IsTree
<1>3. ASSUME NEW line, at <= Len(t[m]) + 1
      PROVE IsFile(InsertAt(t[m], at, line)) /\ Len(InsertAt(t[m], at, line)) = Len(t[m]) + 1
  <2> DEFINE S == Range(t[m]) \cup {line}
  <2>1. t[m] \in Seq(S) /\ <<line>> \in Seq(S)
    BY <1>1
  <2>2. SubSeq(t[m], 1, at - 1) \in Seq(S) /\ SubSeq(t[m], at, Len(t[m])) \in Seq(S)
    <3> HIDE DEF S
    <3> QED BY <1>1, <1>3, <2>1, SubSeqProperties
  <2>3. InsertAt(t[m], at, line) \in Seq(S)
    <3> HIDE DEF S
    <3> QED BY <2>1, <2>2, ConcatProperties DEF InsertAt
  <2>4. Len(InsertAt(t[m], at, line)) = Len(t[m]) + 1
    <3>1. line \in S
      OBVIOUS
    <3> HIDE DEF S
    <3> QED BY <1>3, <2>1, <3>1, EditedLength
  <2> QED BY <2>3, <2>4, SequencesOverRange DEF IsFile
<1>4. ASSUME at \in DOMAIN t[m]
      PROVE IsFile(RemoveAt(t[m], at)) /\ Len(RemoveAt(t[m], at)) = Len(t[m]) - 1
  <2> DEFINE S == Range(t[m])
  <2>1. SubSeq(t[m], 1, at - 1) \in Seq(S) /\ SubSeq(t[m], at + 1, Len(t[m])) \in Seq(S)
    BY <1>1, <1>4, SubSeqProperties
  <2>2. RemoveAt(t[m], at) \in Seq(S)
    BY <2>1, ConcatProperties DEF RemoveAt
  <2>3. Len(RemoveAt(t[m], at)) = Len(t[m]) - 1
    <3>1. t[m] \in Seq(S) /\ t[m][at] \in S /\ at <= Len(t[m])
      BY <1>1, <1>4
    <3> HIDE DEF S
    <3> QED BY <3>1, EditedLength
  <2> QED BY <2>2, <2>3, SequencesOverRange DEF IsFile
<1>5. MaxLines \in Nat /\ Len(t[m]) <= MaxLines
  BY IdsDiffer DEF IsTree
<1>6. ASSUME NEW line, at <= Len(t[m]) + 1, Len(t[m]) < MaxLines PROVE IsTree([t EXCEPT ![m] = InsertAt(@, at, line)])
  <2>1. IsFile(InsertAt(t[m], at, line)) /\ Len(InsertAt(t[m], at, line)) = Len(t[m]) + 1
    BY <1>3, <1>6
  <2> DEFINE s == InsertAt(t[m], at, line)
  <2>2. Len(s) <= MaxLines
    <3>1. Len(s) = Len(t[m]) + 1
      BY <2>1
    <3> HIDE DEF s
    <3> QED BY <1>1, <1>5, <1>6, <3>1
  <2>3. IsFile(s)
    BY <2>1
  <2> HIDE DEF s
  <2>4. IsTree([t EXCEPT ![m] = s])
    BY <1>2, <2>2, <2>3
  <2> QED BY <2>4 DEF s
<1>7. ASSUME at \in DOMAIN t[m] PROVE IsTree([t EXCEPT ![m] = RemoveAt(@, at)])
  <2>1. IsFile(RemoveAt(t[m], at)) /\ Len(RemoveAt(t[m], at)) = Len(t[m]) - 1
    BY <1>4, <1>7
  <2> DEFINE s == RemoveAt(t[m], at)
  <2>2. Len(s) <= MaxLines
    <3>1. Len(s) = Len(t[m]) - 1
      BY <2>1
    <3> HIDE DEF s
    <3> QED BY <1>1, <1>5, <3>1
  <2>3. IsFile(s)
    BY <2>1
  <2> HIDE DEF s
  <2>4. IsTree([t EXCEPT ![m] = s])
    BY <1>2, <2>2, <2>3
  <2> QED BY <2>4 DEF s
<1> QED BY <1>6, <1>7

LEMMA SnapshotOfTree ==
  ASSUME NEW t, IsTree(t), NEW sha
  PROVE  IsSnapshot(Snapshot(t, sha))
<1>1. Snapshot(t, sha).files = t /\ Snapshot(t, sha).sha = sha
  BY DEF Snapshot
<1> QED BY <1>1 DEF IsSnapshot

LEMMA ReviewStarts == ReviewInit => ReviewInv
<1> SUFFICES ASSUME ReviewInit PROVE ReviewInv
  OBVIOUS
<1>1. IsTree(tree)
  BY TreesAreFiles DEF ReviewInit, IsTree, IsFile
<1>2. snapshots = <<>> /\ DOMAIN snapshots = {} /\ snapshots \in Seq(Range(snapshots))
  BY DEF ReviewInit
<1> QED BY <1>1, <1>2 DEF ReviewInv

LEMMA ReviewStep == ReviewInv /\ [ReviewNext]_review_vars => ReviewInv'
<1> SUFFICES ASSUME ReviewInv, [ReviewNext]_review_vars PROVE ReviewInv'
  OBVIOUS
<1>1. IsTree(tree) /\ snapshots \in Seq(Range(snapshots)) /\ \A i \in DOMAIN snapshots : IsSnapshot(snapshots[i])
  BY DEF ReviewInv
<1>2. ASSUME IsTree(tree'), UNCHANGED snapshots PROVE ReviewInv'
  <2>1. snapshots' \in Seq(Range(snapshots')) /\ \A i \in DOMAIN snapshots' : IsSnapshot(snapshots'[i])
    BY <1>1, <1>2
  <2> QED BY <1>2, <2>1 DEF ReviewInv, IsTree, IsFile, IsSnapshot
<1>3. CASE Insert
  <2>1. PICK m \in Modules, at \in 1 .. MaxLines : \E line \in Insertions[m] :
          at <= Len(tree[m]) + 1 /\ Len(tree[m]) < MaxLines /\ EditTo([tree EXCEPT ![m] = InsertAt(@, at, line)])
    BY <1>3 DEF Insert
  <2>2. PICK line \in Insertions[m] :
          at <= Len(tree[m]) + 1 /\ Len(tree[m]) < MaxLines /\ EditTo([tree EXCEPT ![m] = InsertAt(@, at, line)])
    BY <2>1
  <2>3. IsTree([tree EXCEPT ![m] = InsertAt(@, at, line)])
    <3>1. at \in Nat /\ at >= 1
      OBVIOUS
    <3> QED BY <1>1, <2>2, <3>1, EditedIsTree
  <2> QED BY <1>2, <2>2, <2>3 DEF EditTo
<1>4. CASE DeleteLine
  <2>1. PICK m \in Modules : \E at \in DOMAIN tree[m] : EditTo([tree EXCEPT ![m] = RemoveAt(@, at)])
    BY <1>4 DEF DeleteLine
  <2>2. PICK at \in DOMAIN tree[m] : EditTo([tree EXCEPT ![m] = RemoveAt(@, at)])
    BY <2>1
  <2>3. at \in Nat /\ at >= 1
    BY <1>1, LinesOfFile
  <2>4. IsTree([tree EXCEPT ![m] = RemoveAt(@, at)])
    BY <1>1, <2>3, EditedIsTree
  <2> QED BY <1>2, <2>2, <2>4 DEF EditTo
<1>5. CASE Commit
  BY <1>1, <1>2, <1>5 DEF Commit
<1>6. CASE Index
  <2> DEFINE s == Snapshot(tree, Len(commits))
             S == Range(snapshots) \cup {s}
  <2>1. snapshots' = Append(snapshots, s) /\ tree' = tree
    BY <1>6 DEF Index
  <2>2. IsSnapshot(s)
    BY <1>1, SnapshotOfTree
  <2> HIDE DEF s
  <2>3. snapshots \in Seq(S) /\ s \in S
    BY <1>1
  <2> HIDE DEF S
  <2>4. /\ snapshots' \in Seq(S) /\ Len(snapshots') = Len(snapshots) + 1 /\ Len(snapshots) \in Nat
        /\ \A i \in 1 .. Len(snapshots) : snapshots'[i] = snapshots[i]
        /\ snapshots'[Len(snapshots) + 1] = s
    BY <2>1, <2>3, AppendProperties, LenProperties
  <2>5. DOMAIN snapshots = 1 .. Len(snapshots) /\ DOMAIN snapshots' = 1 .. Len(snapshots) + 1
    BY <2>3, <2>4, LenProperties
  <2>6. \A i \in DOMAIN snapshots' : IsSnapshot(snapshots'[i])
    BY <1>1, <2>2, <2>4, <2>5
  <2>7. snapshots' \in Seq(Range(snapshots'))
    BY <2>4, SequencesOverRange
  <2>8. IsTree(tree')
    BY <1>1, <2>1
  <2> QED BY <2>6, <2>7, <2>8 DEF ReviewInv, IsTree, IsFile, IsSnapshot
<1>7. CASE UNCHANGED review_vars
  BY <1>1, <1>2, <1>7 DEF review_vars
<1> QED BY <1>3, <1>4, <1>5, <1>6, <1>7 DEF ReviewNext

LEMMA ChargedByInvariant == ReviewInv => IntroducedIsCharged
<1> SUFFICES ASSUME ReviewInv, Len(snapshots) > 1, NEW base \in Bases,
                    Clean(base) /\ (Clean(Newest) \/ base.sha = Newest.sha)
             PROVE  AllCharged(base)
  BY DEF IntroducedIsCharged
<1>1. Len(snapshots) \in Nat /\ DOMAIN snapshots = 1 .. Len(snapshots)
  BY LenProperties DEF ReviewInv
<1>2. IsSnapshot(base)
  BY <1>1 DEF Bases, ReviewInv
<1>3. IsSnapshot(Newest)
  BY <1>1 DEF Newest, Last, ReviewInv
<1> QED BY <1>2, <1>3, AllAreCharged

\* Whatever a change moved, and whichever lines git says it touched, a review reports
\* every secret, complex function and unused file that it introduced
\* (`scope_to_touched_lines`, `charged_to_change`).
THEOREM ChangesAreCharged == ReviewSpec => []IntroducedIsCharged
<1>1. ReviewSpec => []ReviewInv
  BY ReviewStarts, ReviewStep, PTL DEF ReviewSpec
<1> QED BY <1>1, ChargedByInvariant, PTL

================================================================================
