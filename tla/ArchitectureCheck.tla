---------------------------- MODULE ArchitectureCheck ----------------------------
(***************************************************************************)
(* The contract over time: people edit .ovecc/architecture.toml and the    *)
(* code is indexed again; `architecture init` drafts a contract, `check    *)
(* --freeze` accepts the present debt, `check` ratchets the baseline and   *)
(* gates, `diff` only reports.  A command rewrites the baseline file by    *)
(* file, and may stop between or within two writes.                        *)
(***************************************************************************)
EXTENDS Contract

CONSTANTS
  First,               \* pairs of a contract, valid or not, and a graph to start from
  Contracts,           \* what may be written over the contract
  Graphs,              \* what may be indexed again
  NoContract,
  baseline_file_name   \* owner -> file name; different owners may share one

VARIABLES
  contract,    \* the file
  graph,       \* the index
  store,       \* baseline file -> its entries
  command,     \* the command under way, or Idle; stored is what it found, files what it leaves
  accepted     \* history: violations frozen and present in every check since

vars == <<contract, graph, store, command, accepted>>

Idle == [name |-> "none"]
Entries(files) == UNION Range(files)
load_baseline == Entries(store)

Violation(v) == <<v[1], v[4], v[5]>>
Debt(data) == IF data.contract.mode = "off" THEN {}
              ELSE {Violation(v) : v \in {w \in classify_edges(data) : rule_of(w) # "coverage-floor"}}

Init ==
  /\ \E start \in First : contract = start[1] /\ graph = start[2]
  /\ store = <<>> /\ command = Idle /\ accepted = {}

\* A command reads contract and graph once, at its start: an edit while it runs
\* is the same as one after it.
EditContract ==
  /\ command = Idle
  /\ contract' \in Contracts \ {contract}
  /\ UNCHANGED <<graph, store, command, accepted>>

Reindex ==
  /\ command = Idle
  /\ graph' \in Graphs \ {graph}
  /\ UNCHANGED <<contract, store, command, accepted>>

--------------------------------------------------------------------------------
(* Drafting a contract from the index. *)

CommonPrefix(dirs) ==
  LET shared == {n \in 0 .. Min({Len(d) : d \in dirs}) :
                   \A d, e \in dirs : SubSeq(d, 1, n) = SubSeq(e, 1, n)}
  IN SubSeq(CHOOSE d \in dirs : TRUE, 1, Max(shared))

module_glob(files) ==
  LET dir == CommonPrefix({f.dir : f \in files})
  IN [dir |-> dir, rest |-> IF dir = <<>> THEN "*" ELSE "**"]

PlainComponent ==
  [paths |-> {}, depends_on |-> <<>>, cannot_depend_on |-> {}, consumed_by |-> Anyone,
   must_depend_on |-> {}, interface |-> {}, external_deny |-> {}, slices |-> FALSE,
   deny_capabilities |-> {}, max_cyclomatic |-> Undeclared, max_cognitive |-> Undeclared,
   min_coverage |-> Undeclared]

\* One component for each module, with its imports of other modules as depends_on.
draft_components(g) ==
  LET modules == Range(g.module_of)
      imports(m) == {g.module_of[d.to] : d \in {e \in g.dependencies :
                       e.to \in g.files /\ g.module_of[e.from] = m}} \ {m}
  IN [m \in modules |->
        [PlainComponent EXCEPT !.paths = {module_glob({f \in g.files : g.module_of[f] = m})},
                               !.depends_on = [n \in imports(m) |-> FALSE]]]

draft_toml(g) ==
  [mode |-> "new-violations", unassigned |-> "warn", coupling |-> "low",
   components |-> draft_components(g)]

run_architecture_init(force) ==
  /\ command = Idle /\ graph.files # {}
  /\ contract = NoContract \/ force
  /\ contract' = draft_toml(graph)
  /\ UNCHANGED <<graph, store, command, accepted>>

\* --template needs no index, and binds to no root.
run_architecture_init_template(force) ==
  /\ command = Idle
  /\ contract = NoContract \/ force
  /\ \E t \in DOMAIN TEMPLATES : contract' = TEMPLATES[t].contract
  /\ UNCHANGED <<graph, store, command, accepted>>

--------------------------------------------------------------------------------
(* Check and diff. *)

Accepts(c, g) == c # NoContract /\ validate(c) /\ ~ Contested(c, g.files)
Loadable == Accepts(contract, graph)

\* All contracts and indexes that there ever are.
AllGraphs == {start[2] : start \in First} \cup Graphs
AllContracts == {start[1] : start \in First} \cup Contracts \cup {draft_toml(g) : g \in AllGraphs}
                \cup {TEMPLATES[t].contract : t \in DOMAIN TEMPLATES}

\* A repository is finite.
ASSUME FiniteDebt ==
  \A c \in AllContracts, g \in AllGraphs :
    Accepts(c, g) => IsFiniteSet(Debt(load_architecture_data(c, g)))

Path(dir) == dir \in Seq(Range(dir))
Directory(dir) == Path(dir) /\ \A n \in 0 .. Len(dir) : string_length[SubSeq(dir, 1, n)] \in Nat

ASSUME EmptyRoot == string_length[<<>>] \in Nat

\* An import of what is not indexed leads to no file of the index.
ASSUME IndexedGraphs ==
  \A g \in AllGraphs : /\ IsFiniteSet(g.dependencies) /\ IsFiniteSet(g.files)
                       /\ \A f \in g.files : Directory(f.dir)
                       /\ \A d \in g.dependencies : d.external => d.to \notin g.files

\* The templates are a list; each is a valid contract that claims what is somewhere
\* below its directories (src/app/**, or libs/** and ui-* with all below it) and of
\* imports only says which of its components depend on which.
ASSUME TemplatesAreLayers ==
  \A t \in DOMAIN TEMPLATES :
    LET c == TEMPLATES[t].contract
    IN /\ t \in Nat /\ validate(c)
       /\ DOMAIN c = {"mode", "unassigned", "coupling", "components"}
       /\ \A n \in DOMAIN c.components :
            LET spec == c.components[n]
            IN /\ DOMAIN spec = DOMAIN PlainComponent
               /\ spec.cannot_depend_on = {} /\ spec.must_depend_on = {} /\ spec.consumed_by = Anyone
               /\ \A g \in spec.paths : {"dir", "rest"} \subseteq DOMAIN g /\ g.rest \in {"**", "below"} /\ Path(g.dir)

\* Faulty variant: of two owners of one file name the last one is kept.
Group_last(debt) ==
  LET names == {baseline_file_name[n] : n \in {k \in DOMAIN debt : debt[k] # {}}}
  IN [f \in names |-> debt[CHOOSE n \in DOMAIN debt : baseline_file_name[n] = f /\ debt[n] # {}]]

Group(debt) ==
  LET names == {baseline_file_name[n] : n \in {k \in DOMAIN debt : debt[k] # {}}}
  IN [f \in names |-> UNION {debt[n] : n \in {k \in DOMAIN debt : baseline_file_name[k] = f}}]

\* Faulty variant: the debt that is not in the store joins it.
ratchet_growing(debt, stored) == debt

\* What is stored and still present.
ratchet(debt, stored) == [n \in {k \in DOMAIN debt : debt[k] \cap stored # {}} |-> debt[n] \cap stored]

\* The entries of all owners, one by one.
Owned(debt) == UNION {{n} \X debt[n] : n \in DOMAIN debt}
EntryCount(debt) == Cardinality(Owned(debt))

\* Whether the store is rewritten, and the files to leave behind.
Rewritten(freeze, data) ==
  LET debt == violation_entries(data)
      kept == ratchet(debt, load_baseline)
      writes == freeze \/ (load_baseline # {} /\ EntryCount(kept) # Cardinality(load_baseline))
  IN [writes |-> writes,
      files |-> IF ~ writes THEN store ELSE Group(IF freeze THEN debt ELSE kept)]

run_architecture_check(freeze) ==
  /\ command = Idle /\ Loadable
  /\ LET data == load_architecture_data(contract, graph)
         result == Rewritten(freeze, data)
     IN /\ command' = [name |-> "check", freeze |-> freeze, stored |-> load_baseline,
                       writes |-> result.writes, files |-> result.files]
        /\ accepted' = IF freeze THEN accepted \cup Debt(data) ELSE accepted
  /\ UNCHANGED <<contract, graph, store>>

run_architecture_diff ==
  /\ command = Idle /\ Loadable
  /\ command' = [name |-> "diff", freeze |-> FALSE, stored |-> load_baseline, writes |-> FALSE, files |-> store]
  /\ UNCHANGED <<contract, graph, store, accepted>>

Stale == DOMAIN store \ DOMAIN command.files
Unwritten == {f \in DOMAIN command.files : f \notin DOMAIN store \/ store[f] # command.files[f]}

\* save_baseline: files that are not to stay go first.
remove_file ==
  /\ command # Idle
  /\ \E f \in Stale : store' = Restrict(store, DOMAIN store \ {f})
  /\ UNCHANGED <<contract, graph, command, accepted>>

\* Files are written in the order of their names.
Turn(f) == \A g \in Unwritten : f <= g

Put(f, lines) == [g \in DOMAIN store \cup {f} |-> IF g = f THEN lines ELSE store[g]]

write_file ==
  /\ command # Idle /\ Stale = {}
  /\ \E f \in Unwritten : Turn(f) /\ store' = Put(f, command.files[f])
  /\ UNCHANGED <<contract, graph, command, accepted>>

Data == load_architecture_data(contract, graph)

\* The baseline is read again for the report; a diff never fails.
build_report ==
  [findings |-> contract_findings(Data, load_baseline), declared |-> declared_edges(Data)]
ExitCode(fail_on) ==
  IF command.name = "check" THEN findings_exit(build_report.findings, fail_on) ELSE 0

render_report ==
  /\ command # Idle /\ Stale = {} /\ Unwritten = {}
  /\ accepted' = IF command.name = "check" THEN accepted \cap Debt(Data) ELSE accepted
  /\ command' = Idle
  /\ UNCHANGED <<contract, graph, store>>

\* A stop or a failed write; a file that is opened for writing is empty first,
\* also one that is written with what it has.
Stop ==
  /\ command # Idle
  /\ \/ store' = store
     \/ /\ command.writes /\ Stale = {}
        /\ \E f \in DOMAIN command.files : Turn(f) /\ store' = Put(f, {})
  /\ command' = Idle
  /\ UNCHANGED <<contract, graph, accepted>>

Next ==
  \/ EditContract \/ Reindex
  \/ \E force \in BOOLEAN : run_architecture_init(force) \/ run_architecture_init_template(force)
  \/ \E freeze \in BOOLEAN : run_architecture_check(freeze)
  \/ run_architecture_diff \/ remove_file \/ write_file \/ render_report \/ Stop

Spec == Init /\ [][Next]_vars

--------------------------------------------------------------------------------
(* Properties. *)

Reports(name) == command.name = name /\ render_report
Mode == contract.mode

\* A check that passes has let through only violations that a freeze accepted
\* and that were there in every completed check since, and none at all in
\* strict mode: whatever was edited, indexed again or cut short in between.
GateSound ==
  [][(Reports("check") /\ Mode \in {"new-violations", "strict"}) =>
       \A fail_on \in {"medium", "high"}, v \in classify_edges(Data) :
         ExitCode(fail_on) = 0 /\ Rank(severity_of(rule_of(v), contract)) >= Rank(fail_on) =>
           Mode = "new-violations" /\ Violation(v) \in accepted]_vars

\* Only a freeze adds to the baseline: a ratchet moves entries between files when a file
\* of the code has another owner now, but at no time, cut short or not, is there one that
\* it has not found; and outside of a command nothing changes the baseline.
BaselineOnlyShrinks ==
  [][/\ command = Idle => UNCHANGED store
     /\ command # Idle /\ ~ command.freeze => Entries(store') \subseteq command.stored]_vars

\* What a freeze has accepted no longer shows, in its own report or in that of
\* a later check of the same code: left are the rules that cannot be accepted.
FreezeSettles ==
  [][(Reports("check") /\ command.freeze /\ Mode = "new-violations") =>
       \A f \in build_report.findings : f[2] \in {"coverage-floor", "absence", "unassigned"}]_vars

\* The next two only read contract and graph, which take all values here.
Fresh == command = Idle /\ store = <<>>

\* Where the view of one file allows an import, a check has nothing to say of
\* it but that it is deprecated; where the view does not, the check reports it.
ShowAgrees(data) ==
  \A f \in graph.files : LET view == contract_view(contract, {f}) IN
    \A v \in view.components, g \in DOMAIN data.component_of :
      LET target == data.component_of[g]
          rules == {rule_of(w) : w \in classify_internal(data,
                      [from |-> f, to |-> g, specifier |-> <<>>, external |-> FALSE])}
          open == {a \in v.may_import : a.component = target /\ (a.via = {} \/ g \in a.via)}
      IN target # v.name =>
           /\ \A a \in open : rules = IF a.deprecated THEN {"deprecated-use"} ELSE {}
           /\ (open = {} /\ target \notin v.must_import) => rules \ {"deprecated-use"} # {}
           /\ target \in v.must_not_import =>
                rules \cap {"restricted-access", "forbidden-dependency"} # {}

\* In a valid contract no two rules speak about one import, except that an
\* interface may be bypassed besides; the two readings of the graph agree on
\* which declared dependencies no import implements; and `show`, which is asked
\* before an import is written, agrees with the check that judges it after.
VerdictsAgree ==
  Fresh /\ Loadable =>
    LET data == load_architecture_data(contract, graph)
        Absent == {pair_of(v) : v \in absence_findings(data)}
    IN /\ ShowAgrees(data)
       /\ \A d \in graph.dependencies :
            LET rules == {rule_of(v) : v \in classify_internal(data, d)} \ {"interface-bypass"}
                pair == <<data.component_of[d.from], data.component_of[d.to]>>
            IN Crosses(data, d) =>
                 /\ Cardinality(rules) <= 1
                 /\ (pair \in Observed(data)) = (rules \subseteq {"deprecated-use"})
                 /\ pair \notin Absent
                 /\ pair[2] \in DOMAIN contract.components[pair[1]].depends_on
                      => pair \in Observed(data)
       /\ {<<e.source, e.target>> : e \in {x \in declared_edges(data) : x.occurrences = 0}} = Absent

\* All components but one start in a directory by which roots are found.
Recognizable(template) ==
  LET canonical == canonical_root(template.contract)
      anchors == anchor_segments(template, canonical)
      components == template.contract.components
      hidden == {n \in DOMAIN components : \E g \in components[n].paths :
                   ~ (Len(g.dir) > Len(canonical) /\ g.dir[Len(canonical) + 1] \in anchors)}
  IN \A m, n \in hidden : m = n

\* A recognizable template that fits under some directory is suggested, for a
\* directory that no other beats; bound there it is a valid contract, under which
\* a check reports as many imports as the suggestion counts against it.
SuggestionHolds ==
  Fresh =>
    LET edges == {d \in graph.dependencies : ~ d.external /\ d.to # NoTarget}
        report == run_architecture_suggest(graph)
        Roots == UNION {{SubSeq(f.dir, 1, n) : n \in 0 .. Len(f.dir)} : f \in graph.files}
        AllFits(t) == UNION {evaluate_fit(TEMPLATES[t].contract, canonical_root(TEMPLATES[t].contract),
                                          r, graph.files, edges) : r \in Roots}
    IN /\ report.best \subseteq report.suggestions /\ Cardinality(report.best) <= 1
       /\ \A t \in DOMAIN TEMPLATES : Recognizable(TEMPLATES[t]) =>
            \A x \in AllFits(t) :
              \E s \in report.suggestions : s.template = t /\ ~ Higher(Score(x), Score(s.fit))
       /\ \A s \in report.suggestions :
            LET t == TEMPLATES[s.template].contract
                bound == rebind(t, canonical_root(t), s.fit.root)
                data == load_architecture_data([bound EXCEPT !.mode = "strict"], graph)
                divergent == {d \in edges : \E v \in classify_internal(data, d) : rule_of(v) = "divergence"}
            IN /\ validate(bound) /\ ~ Contested(bound, graph.files)
               /\ Cardinality(divergent) = s.fit.internal - s.fit.allowed

================================================================================
