------------------------------- MODULE Contract --------------------------------
(***************************************************************************)
(* The architecture contract and its verdicts on the stored graph.         *)
(*                                                                         *)
(* A contract is [mode, unassigned, coupling, components], components a    *)
(* function from names to [paths, depends_on, cannot_depend_on,            *)
(* consumed_by, must_depend_on, interface, external_deny, slices,          *)
(* deny_capabilities, max_cyclomatic, max_cognitive, min_coverage].        *)
(* depends_on maps a name to whether it is deprecated; a limit that is not *)
(* declared is Undeclared, consumed_by that is not is Anyone.              *)
(*                                                                         *)
(* The graph is [files, dependencies, capability_uses, functions,          *)
(* co_changes, coverage].  A glob is [dir, rest] with rest "**" or "*";    *)
(* "file" has the name of one besides, "below" (its text is as in          *)
(* libs/**/ui-*/** ) the names that ui-* stands for and the text's length. *)
(***************************************************************************)
EXTENDS Integers, Sequences, FiniteSets, FiniteSetsExt, SequencesExt, Functions, Sets

CONSTANTS
  NoTarget, Undeclared, Anyone,
  module_capabilities,       \* "fs" -> "filesystem" ...
  XNotation,                 \* the directory name @x
  MIN_COUPLED_FILE_PAIRS     \* 2

--------------------------------------------------------------------------------
(* Validation. *)

validate_dependencies(contract, name) ==
  LET c == contract.components[name]
      named == DOMAIN c.depends_on \cup c.cannot_depend_on \cup c.must_depend_on
               \cup (IF c.consumed_by = Anyone THEN {} ELSE c.consumed_by)
  IN /\ name \notin named /\ named \subseteq DOMAIN contract.components
     /\ c.cannot_depend_on \cap (DOMAIN c.depends_on \cup c.must_depend_on) = {}

\* Coverage is a percentage here.
validate_budgets(c) ==
  c.max_cyclomatic # 0 /\ (c.min_coverage = Undeclared \/ c.min_coverage \in 1 .. 100)

\* Faulty variant: only components that are closed to everyone are looked at.
validate_access_closed(contract) ==
  \A target, source \in DOMAIN contract.components :
    contract.components[target].consumed_by = {} =>
      target \notin DOMAIN contract.components[source].depends_on

\* Nothing declares a dependency on a component that is closed to it.
validate_access(contract) ==
  \A target, source \in DOMAIN contract.components :
    LET allowed == contract.components[target].consumed_by
        s == contract.components[source]
    IN (allowed # Anyone /\ source # target /\ source \notin allowed)
         => target \notin DOMAIN s.depends_on \cup s.must_depend_on

validate(contract) ==
  /\ DOMAIN contract.components # {}
  /\ \A name \in DOMAIN contract.components :
       /\ contract.components[name].paths # {}
       /\ validate_dependencies(contract, name)
       /\ validate_budgets(contract.components[name])
  /\ validate_access(contract)

--------------------------------------------------------------------------------
(* Files to components and slices. *)

is_match(glob, f) ==
  CASE glob.rest = "**" -> IsPrefix(glob.dir, f.dir)
    [] glob.rest = "*" -> glob.dir = f.dir
    [] glob.rest = "file" -> glob.dir = f.dir /\ glob.name = f.name
    [] glob.rest = "below" -> /\ IsPrefix(glob.dir, f.dir)
                              /\ \E i \in Len(glob.dir) + 1 .. Len(f.dir) : f.dir[i] \in glob.names

\* What a glob fixes before its first wildcard, then the length of the rest: of
\* two that match one file the higher is the more specific.
specificity(glob) ==
  CASE glob.rest = "file" -> <<Len(glob.dir) + 1, 0>>
    [] glob.rest = "*" -> <<Len(glob.dir), 1>>
    [] glob.rest = "**" -> <<Len(glob.dir), 2>>
    [] glob.rest = "below" -> <<Len(glob.dir), 2 + glob.length>>
NoMoreSpecific(p, q) == p[1] < q[1] \/ (p[1] = q[1] /\ p[2] <= q[2])

Claims(contract, f) ==
  {c \in UNION {{n} \X contract.components[n].paths : n \in DOMAIN contract.components} :
     is_match(c[2], f)}
Best(claims) == {c \in claims : \A d \in claims : NoMoreSpecific(specificity(d[2]), specificity(c[2]))}
Claimants(contract, f) == {c[1] : c \in Best(Claims(contract, f))}

Contested(contract, files) == \E f \in files : Cardinality(Claimants(contract, f)) > 1

\* Only for files that are not contested.
assign_components(contract, files) ==
  [f \in {g \in files : Claimants(contract, g) # {}} |-> CHOOSE n \in Claimants(contract, f) : TRUE]

slice_prefixes(c) == {g.dir : g \in c.paths}

\* The directory below the longest prefix of the component's globs.
assign_slices(contract, component_of) ==
  LET prefixes(f) == {p \in slice_prefixes(contract.components[component_of[f]]) : IsPrefix(p, f.dir)}
      depth(f) == Max({Len(p) : p \in prefixes(f)})
      sliced == {f \in DOMAIN component_of :
                   /\ contract.components[component_of[f]].slices
                   /\ prefixes(f) # {} /\ Len(f.dir) > depth(f)}
  IN [f \in sliced |-> <<component_of[f], f.dir[depth(f) + 1]>>]

\* The target offers itself to the slice: B/@x/A, as a directory or a file.
x_notation_allows(slice, f) ==
  \E i \in DOMAIN f.dir :
    f.dir[i] = XNotation /\ slice[2] = (IF i < Len(f.dir) THEN f.dir[i + 1] ELSE f.name)

\* Everything that a check reads.
load_architecture_data(contract, graph) ==
  LET component_of == assign_components(contract, graph.files)
  IN [contract |-> contract, graph |-> graph, component_of |-> component_of,
      slice_of |-> assign_slices(contract, component_of)]

--------------------------------------------------------------------------------
(* Verdicts.  One is a tuple: the rule broken, by which pair of components (or
   component and pattern, capability, metric), in which file, by which import. *)

Verdict(rule, source, target, file, what) == <<rule, source, target, file, what>>
rule_of(v) == v[1]
source_of(v) == v[2]
pair_of(v) == <<v[2], v[3]>>

\* A pattern is [kind, part] with part a sequence, as a specifier is.
specifier_matches(specifier, pattern) ==
  CASE pattern.kind = "exact" -> specifier = pattern.part
    [] pattern.kind = "prefix" -> IsPrefix(pattern.part, specifier)
    [] pattern.kind = "suffix" -> IsSuffix(pattern.part, specifier)
    [] pattern.kind = "infix" -> \E i \in 0 .. Len(specifier) - Len(pattern.part) :
         SubSeq(specifier, i + 1, i + Len(pattern.part)) = pattern.part

classify_external(a, d) ==
  LET c == a.contract.components[a.component_of[d.from]]
  IN {Verdict("external-deny", a.component_of[d.from], p, d.from, d.specifier) :
        p \in {q \in c.external_deny : specifier_matches(d.specifier, q)}}

classify_external_capability(a, d) ==
  LET source == a.component_of[d.from]
      kinds == IF d.specifier \in DOMAIN module_capabilities
               THEN {module_capabilities[d.specifier]} ELSE {}
  IN {Verdict("capability", source, k, d.from, d.specifier) :
        k \in kinds \cap a.contract.components[source].deny_capabilities}

classify_capability_facts(a) ==
  {Verdict("capability", a.component_of[u.file], u.capability, u.file, u.api) :
     u \in {v \in a.graph.capability_uses : v.file \in DOMAIN a.component_of /\
              v.capability \in a.contract.components[a.component_of[v.file]].deny_capabilities}}

\* The target's own rule about who may reach it is asked first.
prohibition(contract, source, target) ==
  LET open == contract.components[target].consumed_by
  IN IF open # Anyone /\ source \notin open THEN {"restricted-access"}
     ELSE IF target \in contract.components[source].cannot_depend_on
     THEN {"forbidden-dependency"} ELSE {}

classify_slice(a, d) ==
  IF /\ d.from \in DOMAIN a.slice_of /\ d.to \in DOMAIN a.slice_of
     /\ a.slice_of[d.from] # a.slice_of[d.to]
     /\ ~ x_notation_allows(a.slice_of[d.from], d.to)
  THEN {Verdict("slice-isolation", a.slice_of[d.from], a.slice_of[d.to], d.from, d.specifier)}
  ELSE {}

Crosses(a, d) ==
  /\ ~ d.external /\ d.from \in DOMAIN a.component_of /\ d.to \in DOMAIN a.component_of
  /\ a.component_of[d.from] # a.component_of[d.to]

Permits(c, target) == target \in DOMAIN c.depends_on \cup c.must_depend_on

\* Component -> the files that the others may import, if it declares any.
declared_interfaces(contract) ==
  [n \in {m \in DOMAIN contract.components : contract.components[m].interface # {}} |->
     contract.components[n].interface]

\* A prohibition answers alone; an interface holds for declared dependencies too.
classify_internal(a, d) ==
  IF d.from \notin DOMAIN a.component_of \/ d.to \notin DOMAIN a.component_of THEN {}
  ELSE IF ~ Crosses(a, d) THEN classify_slice(a, d)
  ELSE
    LET source == a.component_of[d.from]
        target == a.component_of[d.to]
        spec == a.contract.components[source]
        interfaces == declared_interfaces(a.contract)
        prohibited == prohibition(a.contract, source, target)
        rules == IF prohibited # {} THEN prohibited
                 ELSE {"interface-bypass" : n \in {m \in {target} \cap DOMAIN interfaces : d.to \notin interfaces[m]}}
                      \cup (IF target \in DOMAIN spec.depends_on
                            THEN IF spec.depends_on[target] THEN {"deprecated-use"} ELSE {}
                            ELSE IF Permits(spec, target) THEN {} ELSE {"divergence"})
    IN {Verdict(r, source, target, d.from, d.specifier) : r \in rules}

\* Pairs that an import implements and the contract permits.
Observed(a) ==
  {p \in {<<a.component_of[d.from], a.component_of[d.to]>> :
            d \in {e \in a.graph.dependencies : Crosses(a, e)}} :
     prohibition(a.contract, p[1], p[2]) = {} /\ Permits(a.contract.components[p[1]], p[2])}

\* Files that import something but not what their component requires.
classify_required(a) ==
  LET imports(f) == {d \in a.graph.dependencies : d.from = f}
      reached(f) == {a.component_of[d.to] : d \in {e \in imports(f) : e.to \in DOMAIN a.component_of}}
      judged == {f \in DOMAIN a.component_of : imports(f) # {}}
  IN UNION {{Verdict("required-dependency", a.component_of[f], t, f, t) :
               t \in a.contract.components[a.component_of[f]].must_depend_on \ reached(f)} : f \in judged}

Over(value, limit) == IF limit = Undeclared THEN FALSE ELSE value > limit

classify_budgets(a) ==
  LET owned == {r \in a.graph.functions : r.file \in DOMAIN a.component_of}
      spec(r) == a.contract.components[a.component_of[r.file]]
      metrics(r) == (IF Over(r.cyclomatic, spec(r).max_cyclomatic) THEN {"cyclomatic"} ELSE {})
                    \cup (IF Over(r.cognitive, spec(r).max_cognitive) THEN {"cognitive"} ELSE {})
  IN UNION {{Verdict("complexity-budget", a.component_of[r.file], m, r.file, r.name) : m \in metrics(r)}
            : r \in owned}

\* A component that the tracefile does not measure is not judged.
BelowFloor(a) ==
  LET floor(n) == a.contract.components[n].min_coverage
      measured(n) == {f \in DOMAIN a.graph.coverage \cap DOMAIN a.component_of : a.component_of[f] = n}
      found(n) == MapThenSumSet(LAMBDA f : a.graph.coverage[f].found, measured(n))
      hit(n) == MapThenSumSet(LAMBDA f : a.graph.coverage[f].hit, measured(n))
  IN {n \in DOMAIN a.contract.components :
        floor(n) # Undeclared /\ found(n) > 0 /\ 100 * hit(n) < floor(n) * found(n)}

classify_coverage(a) == {Verdict("coverage-floor", n, "coverage", NoTarget, n) : n \in BelowFloor(a)}

\* What explains that two components change together.
Explained(a, verdicts, m, n) ==
  LET connected == Observed(a) \cup
        {pair_of(v) : v \in {w \in verdicts : rule_of(w) \in {"divergence", "interface-bypass"}}}
  IN \/ <<m, n>> \in connected \/ <<n, m>> \in connected
     \/ n \in DOMAIN a.contract.components[m].depends_on
     \/ m \in DOMAIN a.contract.components[n].depends_on

TiedComponents(a, p) == {a.component_of[p.left], a.component_of[p.right]}

\* Co-changes that nothing explains, as [left, right] with left before right.
Unexplained(a, verdicts) ==
  LET tied == {p \in a.graph.co_changes :
                 /\ p.left \in DOMAIN a.component_of /\ p.right \in DOMAIN a.component_of
                 /\ a.component_of[p.left] # a.component_of[p.right]
                 /\ ~ Explained(a, verdicts, a.component_of[p.left], a.component_of[p.right])}
  IN {p \in tied : Cardinality({q \in tied : TiedComponents(a, q) = TiedComponents(a, p)}) >= MIN_COUPLED_FILE_PAIRS}

classify_coupling(a, verdicts) ==
  IF a.contract.coupling = "off" THEN {}
  ELSE {Verdict("behavioral-coupling", Min(TiedComponents(a, p)), Max(TiedComponents(a, p)), p.left, p.right)
        : p \in Unexplained(a, verdicts)}

Assigned(a, external) ==
  {d \in a.graph.dependencies : d.external = external /\ d.from \in DOMAIN a.component_of}
internal_verdicts(a) == UNION {classify_internal(a, d) : d \in Assigned(a, FALSE)}
external_verdicts(a) ==
  UNION {classify_external(a, d) \cup classify_external_capability(a, d) : d \in Assigned(a, TRUE)}

classify_edges(a) ==
  internal_verdicts(a) \cup external_verdicts(a)
  \cup classify_required(a) \cup classify_capability_facts(a)
  \cup classify_budgets(a) \cup classify_coverage(a) \cup classify_coupling(a, internal_verdicts(a))

--------------------------------------------------------------------------------
(* The baseline of accepted violations, and the findings. *)

\* Faulty variant: an entry stands for all imports of a file.
baseline_entry_of_file(v) == <<rule_of(v), v[4], "any">>

baseline_entry(v) == <<rule_of(v), v[4], v[5]>>

\* A coverage floor cannot be accepted.
prune_baselined(verdicts, baseline) ==
  {v \in verdicts : rule_of(v) = "coverage-floor" \/ baseline_entry(v) \notin baseline}

\* The component, or the slice, whose file of the baseline has the entry.
Owner(v) == IF rule_of(v) = "slice-isolation" THEN source_of(v) ELSE <<source_of(v)>>

\* Owner -> its entries: the whole present debt.
violation_entries(a) ==
  LET debt == IF a.contract.mode = "off" THEN {}
              ELSE {v \in classify_edges(a) : rule_of(v) # "coverage-floor"}
  IN [n \in {Owner(v) : v \in debt} |-> {baseline_entry(v) : v \in {w \in debt : Owner(w) = n}}]

Rank(severity) == CASE severity = "low" -> 1 [] severity = "medium" -> 2 [] severity = "high" -> 3

severity_of(rule, contract) ==
  CASE rule \in {"divergence", "restricted-access", "forbidden-dependency", "required-dependency",
                 "interface-bypass", "slice-isolation"} -> "high"
    [] rule \in {"deprecated-use", "external-deny", "capability", "complexity-budget",
                 "coverage-floor"} -> "medium"
    [] rule = "behavioral-coupling" -> contract.coupling
    [] rule = "absence" -> "low"
    [] rule = "unassigned" -> IF contract.unassigned = "forbid" THEN "high" ELSE "low"

\* Declared dependencies that no import implements.
absence_findings(a) ==
  LET declared(n) == DOMAIN a.contract.components[n].depends_on
  IN {Verdict("absence", p[1], p[2], NoTarget, p[2]) :
        p \in (UNION {{n} \X declared(n) : n \in DOMAIN a.contract.components}) \ Observed(a)}

unassigned_finding(a) ==
  IF a.contract.unassigned # "ignore" /\ a.graph.files \ DOMAIN a.component_of # {}
  THEN {Verdict("unassigned", 0, 0, NoTarget, 0)} ELSE {}

\* A finding is a severity, a rule and a pair, with the verdicts behind it.
Finding(severity, verdict, evidence) == <<severity, rule_of(verdict), pair_of(verdict), evidence>>

\* What the verdicts of a rule say of a pair is the evidence of one finding.
Evidence(v, reported) == {w \in reported : rule_of(w) = rule_of(v) /\ pair_of(w) = pair_of(v)}

pair_findings(a, reported) ==
  LET graded(v) == IF a.contract.mode = "warn" THEN "low" ELSE severity_of(rule_of(v), a.contract)
  IN {Finding(graded(v), v, Evidence(v, reported)) : v \in reported}

\* Accepted violations are left out under "new-violations" only.
contract_rules(a, baseline) ==
  LET all == classify_edges(a)
      verdicts == IF a.contract.mode = "new-violations" THEN prune_baselined(all, baseline) ELSE all
  IN IF a.contract.mode = "off" THEN {} ELSE verdicts \cup absence_findings(a) \cup unassigned_finding(a)

contract_findings(a, baseline) == pair_findings(a, contract_rules(a, baseline))

findings_exit(findings, fail_on) ==
  LET threshold == CASE fail_on = "any" -> 1 [] fail_on = "medium" -> 2 [] fail_on = "high" -> 3
  IN IF \E f \in findings : Rank(f[1]) >= threshold THEN 1 ELSE 0

\* Declared pairs with the number of imports that implement each.
declared_edges(a) ==
  LET occurrences(m, n) == Cardinality({d \in a.graph.dependencies :
        d.from \in DOMAIN a.component_of /\ d.to \in DOMAIN a.component_of
        /\ a.component_of[d.from] = m /\ a.component_of[d.to] = n})
  IN {[source |-> p[1], target |-> p[2], occurrences |-> occurrences(p[1], p[2])] :
        p \in UNION {{n} \X DOMAIN a.contract.components[n].depends_on : n \in DOMAIN a.contract.components}}

--------------------------------------------------------------------------------
(* Ready-made contracts, how well each fits the indexed code under every   *)
(* root it may be bound to, and the answer to what a file may import.      *)
(* TEMPLATES is a function from names to [contract, first]: the contract   *)
(* and the glob that each of its components lists first.                   *)

CONSTANTS
  TEMPLATES,
  JsTs,              \* the files with a JavaScript or TypeScript extension
  string_length      \* directory -> the length of its path as a string

Globs(contract) == UNION {contract.components[n].paths : n \in DOMAIN contract.components}

\* The directory that all globs fix.
canonical_root(contract) ==
  LET dirs == {g.dir : g \in Globs(contract)}
      shared == {n \in 0 .. Min({Len(d) : d \in dirs}) :
                   \A d, e \in dirs : SubSeq(d, 1, n) = SubSeq(e, 1, n)}
  IN SubSeq(CHOOSE d \in dirs : TRUE, 1, Max(shared))

\* The directories below it that tell the components apart.
anchor_segments(template, canonical) ==
  {g.dir[Len(canonical) + 1] : g \in {h \in Range(template.first) : Len(h.dir) > Len(canonical)}}

\* Faulty variant: only the root of the repository.
candidate_roots_top(files, anchors) == {<<>>}

\* The last segment of a path, the file's own, counts as well.
segment(f, i) == IF i \in DOMAIN f.dir THEN f.dir[i] ELSE f.name

candidate_roots(files, anchors) ==
  {<<>>} \cup UNION {{SubSeq(f.dir, 1, i - 1) : i \in {k \in 1 .. Len(f.dir) + 1 : segment(f, k) \in anchors}} :
                     f \in files}

rebind(contract, canonical, root) ==
  LET moved(g) == [g EXCEPT !.dir = root \o SubSeq(@, Len(canonical) + 1, Len(@))]
      spec(c) == [c EXCEPT !.paths = {moved(g) : g \in c.paths}]
  IN [contract EXCEPT !.components =
        [n \in DOMAIN contract.components |-> spec(contract.components[n])]]

\* Coverage is a share of all source files, conformance one of the imports
\* between claimed files; {} when the template is no plausible description.
evaluate_fit(contract, canonical, root, files, edges) ==
  LET rebound == rebind(contract, canonical, root)
      component_of == assign_components(rebound, files)
      assigned == DOMAIN component_of \cap JsTs
      matched == {component_of[f] : f \in assigned}
      internal == {d \in edges : d.from \in DOMAIN component_of /\ d.to \in DOMAIN component_of}
      allowed == {d \in internal :
                    LET s == component_of[d.from]
                        t == component_of[d.to]
                    IN s = t \/ t \in DOMAIN rebound.components[s].depends_on}
  IN IF \/ Contested(rebound, files) \/ Cardinality(assigned) < 2
        \/ Cardinality(matched) < 2 \/ internal = {}
     THEN {}
     ELSE {[root |-> root, assigned |-> Cardinality(assigned), source |-> Cardinality(files \cap JsTs),
            allowed |-> Cardinality(allowed), internal |-> Cardinality(internal), matched |-> matched]}

\* score = assigned * allowed of source * internal.
Score(fit) == <<fit.assigned * fit.allowed, fit.source * fit.internal>>
Higher(p, q) == p[1] * q[2] > q[1] * p[2]

\* What the template fits under the roots that are tried.
Fits(template, files, edges) ==
  LET canonical == canonical_root(template.contract)
      anchors == anchor_segments(template, canonical)
  IN UNION {evaluate_fit(template.contract, canonical, r, files, edges) : r \in candidate_roots(files, anchors)}

\* Of the best fits those with the shortest root, as a string.
BestFits(fits) ==
  LET top == {x \in fits : \A y \in fits : ~ Higher(Score(y), Score(x))}
  IN {x \in top : \A y \in top : string_length[x.root] <= string_length[y.root]}

AnyOf(S) == IF S = {} THEN {} ELSE {CHOOSE x \in S : TRUE}

\* The best fit, if there is one (of two that are equally short, the code takes
\* the first by name).
recognize(template, files, edges) == AnyOf(BestFits(Fits(template, files, edges)))

\* The first of the suggestions if its score is a half.
Recommended(suggestions) ==
  LET better(x, y) == \/ Higher(Score(x.fit), Score(y.fit))
                      \/ ~ Higher(Score(y.fit), Score(x.fit)) /\ x.template < y.template
      good == {x \in suggestions : ~ Higher(<<1, 2>>, Score(x.fit))}
  IN {x \in good : \A y \in suggestions \ {x} : better(x, y)}

\* Every template that fits somewhere, and the one that is recommended.
run_architecture_suggest(graph) ==
  LET edges == {d \in graph.dependencies : ~ d.external /\ d.to # NoTarget}
      suggestions == UNION {{[template |-> t, fit |-> x] : x \in recognize(TEMPLATES[t], graph.files, edges)} :
                            t \in DOMAIN TEMPLATES}
  IN [suggestions |-> suggestions, best |-> Recommended(suggestions)]

--------------------------------------------------------------------------------
(* What `architecture show` says of some files. *)

AllowedImport(contract, c, target) ==
  [component |-> target, deprecated |-> c.depends_on[target],
   via |-> contract.components[target].interface]

ComponentView(contract, n) ==
  LET c == contract.components[n]
  IN [name |-> n,
      may_import |-> {AllowedImport(contract, c, t) : t \in DOMAIN c.depends_on},
      must_not_import |-> c.cannot_depend_on, must_import |-> c.must_depend_on,
      importable_by |-> c.consumed_by, interface |-> c.interface, slices |-> c.slices]

contract_view(contract, query) ==
  LET component_of == assign_components(contract, query)
      selected == IF query = {} THEN DOMAIN contract.components ELSE Range(component_of)
  IN [components |-> {ComponentView(contract, n) : n \in selected},
      unassigned |-> query \ DOMAIN component_of]

================================================================================
