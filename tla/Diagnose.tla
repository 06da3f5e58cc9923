-------------------------------- MODULE Diagnose --------------------------------
(***************************************************************************)
(* `ovecc diagnose`: named design smells of the components, which are      *)
(* directories.  A component is known by the number of its path, whose     *)
(* digits are the segments; 0 is the root.  The input of a diagnosis is    *)
(* the record [files, deps, churn, complexity, abstract, total, co_change] *)
(* with the dependencies of ModuleGraph, four functions of the files and   *)
(* the changed pairs [left, right, count]; shares, distances and           *)
(* confidences are given in percent.                                       *)
(***************************************************************************)
EXTENDS ModuleGraph

CONSTANTS
  SrcDir,           \* the conventional `src` directory of a package
  NamedMembers      \* 5: a longer loop is named by its first members

Path(file) == Append(file.dir, file.name)
PathNumber(segments) == FoldLeft(LAMBDA n, s : 10 * n + s, 0, segments)

is_excluded(file, config) ==
  file.name \in config.exclude_names \/ Range(file.dir) \cap config.exclude_dirs # {}

\* Below the innermost package root, the `src` layer is dropped.
canonical_component_path(file, config) ==
  LET around == {r \in config.component_roots : IsStrictPrefix(r, Path(file))}
      root == CHOOSE r \in around : \A o \in around : Len(o) <= Len(r)
  IN IF around # {} /\ Len(file.dir) > Len(root) /\ file.dir[Len(root) + 1] = SrcDir
     THEN root \o SubSeq(Path(file), Len(root) + 2, Len(Path(file)))
     ELSE Path(file)

\* The parent directory, or so many segments of it.
component_of(path, depth) ==
  LET dir == Front(path)
  IN PathNumber(IF depth = 0 \/ depth > Len(dir) THEN dir ELSE SubSeq(dir, 1, depth))

component_for(file, config) ==
  component_of(canonical_component_path(file, config), config.component_depth)

--------------------------------------------------------------------------------
(* The component graph. *)

leads_to_file(d) == ~ d.external /\ d.to # NoFile
load_component_inputs(deps) == SelectSeq(deps, leads_to_file)

is_included(d, config) == ~ is_excluded(d.from, config) /\ ~ is_excluded(d.to, config)
Included(deps, config) == SelectSeq(load_component_inputs(deps), LAMBDA d : is_included(d, config))

\* The same imports, between the groups that their files are in.
Regroup(deps, config, group(_)) ==
  FoldLeft(LAMBDA rows, d : Append(rows, [d EXCEPT !.source = group(d.from), !.target = group(d.to)]),
           <<>>, Included(deps, config))
BetweenComponents(deps, config) == Regroup(deps, config, LAMBDA f : component_for(f, config))
BetweenFiles(deps, config) == Regroup(deps, config, LAMBDA f : PathNumber(Path(f)))

build_graph(input, config) ==
  LET rows == BetweenComponents(input.deps, config)
      edges == local_dependency_edges(rows)
      owned == {<<component_for(f, config), f>> : f \in {g \in input.files : ~ is_excluded(g, config)}}
      components == {o[1] : o \in owned}
                    \cup UNION {{component_for(d.from, config), component_for(d.to, config)}
                                 : d \in {e \in Range(input.deps) : leads_to_file(e) /\ is_included(e, config)}}
      of == [c \in components |-> {o[2] : o \in {p \in owned : p[1] = c}}]
      sum(amounts) == [c \in components |-> MapThenSumSet(LAMBDA f : amounts[f], of[c])]
  IN [components |-> components, edges |-> edges, runtime_edges |-> runtime_edges(rows),
      fan_in |-> [c \in components |-> Cardinality({e \in edges : e[2] = c})],
      fan_out |-> [c \in components |-> Cardinality({e \in edges : e[1] = c})],
      files |-> [c \in components |-> Cardinality(of[c])],
      churn |-> sum(input.churn), complexity |-> sum(input.complexity),
      abstract_types |-> sum(input.abstract), total_types |-> sum(input.total)]

strongly_connected(nodes, edges) == kosaraju_scc(nodes, edges)

\* By nearest rank among the values that are not zero.
percentile(values, percent) ==
  LET ranked == Sorted({c \in DOMAIN values : values[c] > 0},
                       LAMBDA a, b : values[a] < values[b] \/ (values[a] = values[b] /\ a < b))
      rank == (2 * percent * (Len(ranked) - 1) + 100) \div 200
  IN IF ranked = <<>> THEN 0 ELSE values[ranked[rank + 1]]

AtLeast(n, floor) == IF n < floor THEN floor ELSE n

--------------------------------------------------------------------------------
(* Detectors. *)

low == 1
medium == 2
high == 3

fix_spec == [
  cyclic_dependency |-> "break_cycle", file_cycle |-> "break_cycle",
  hub_like_dependency |-> "split_hub", unstable_dependency |-> "invert_dependency",
  zone_of_pain |-> "introduce_abstraction", god_component |-> "split_component",
  dense_structure |-> "introduce_layering", hotspot |-> "prioritize_refactor",
  unstable_interface |-> "stabilize_interface", change_coupling |-> "review_coupling",
  modularity_violation |-> "make_coupling_explicit"]

Diagnosis(detector, target, members, severity, evidence) ==
  [detector |-> detector, target |-> target, members |-> members, severity |-> severity,
   evidence |-> evidence, fix |-> fix_spec[detector]]
OfComponent(detector, c, severity) == Diagnosis(detector, {c}, {c}, severity, <<>>)

\* The shortest loop in a set that is strongly connected, if one is listed: an import
\* for each hop.
ShortestLoop(scc, rows) ==
  LET before(i, j) == \/ rows[i].source < rows[j].source
                      \/ rows[i].source = rows[j].source /\ rows[i].target < rows[j].target
                      \/ rows[i].source = rows[j].source /\ rows[i].target = rows[j].target /\ i < j
      order == Sorted({i \in DOMAIN rows : rows[i].source \in scc /\ rows[i].target \in scc}, before)
      inside == FoldLeft(LAMBDA chosen, i : Append(chosen, rows[i]), <<>>, order)
      loops == enumerate_scc_cycles(scc, inside)
  IN IF loops = <<>> THEN <<>> ELSE witness_walk_preferring(loops[1], inside, {})

Named(scc) ==
  IF Cardinality(scc) <= NamedMembers THEN scc ELSE Range(SubSeq(Sorted(scc, <), 1, NamedMembers - 1))

LoopFinding(detector, scc, rows, severity) ==
  Diagnosis(detector, Named(scc), scc, severity, ShortestLoop(scc, rows))

detect_cyclic_dependency(g, input, config) ==
  {LoopFinding("cyclic_dependency", scc, BetweenComponents(input.deps, config),
               IF Cardinality(scc) >= 3 THEN high ELSE medium)
   : scc \in strongly_connected(g.components, g.runtime_edges)}

\* Faulty variant: only loops of files whose directory is the same.
detect_file_cycle_of_directories(input, config) ==
  LET rows == BetweenFiles(input.deps, config)
      component == [n \in {d.source : d \in Range(rows)} |->
                      (CHOOSE d \in Range(rows) : d.source = n).from.dir]
  IN {LoopFinding("file_cycle", scc, rows, IF Cardinality(scc) >= 4 THEN high ELSE medium)
      : scc \in {s \in strongly_connected({d.source : d \in Range(rows)}, runtime_edges(rows)) :
                   Cardinality({component[n] : n \in s}) = 1}}

\* Loops of files inside one component; the others are component loops.
detect_file_cycle(input, config) ==
  LET rows == BetweenFiles(input.deps, config)
      component == [n \in {d.source : d \in Range(rows)} |->
                      component_for((CHOOSE d \in Range(rows) : d.source = n).from, config)]
  IN {LoopFinding("file_cycle", scc, rows, IF Cardinality(scc) >= 4 THEN high ELSE medium)
      : scc \in {s \in strongly_connected({d.source : d \in Range(rows)}, runtime_edges(rows)) :
                   Cardinality({component[n] : n \in s}) = 1}}

detect_hub_like(g, config) ==
  LET in_th == AtLeast(percentile(g.fan_in, config.hub_percentile), 3)
      out_th == AtLeast(percentile(g.fan_out, config.hub_percentile), 3)
  IN {OfComponent("hub_like_dependency", c, high)
      : c \in {k \in g.components : g.fan_in[k] >= in_th /\ g.fan_out[k] >= out_th}}

\* fan_out / (fan_in + fan_out) of the first is less than that of the second.
MoreStable(g, c, d) ==
  g.fan_out[c] * (g.fan_in[d] + g.fan_out[d]) < g.fan_out[d] * (g.fan_in[c] + g.fan_out[c])

detect_unstable_dependency(g, config) ==
  LET targets(c) == {d \in g.components : <<c, d>> \in g.edges}
      uphill(c) == {d \in targets(c) : MoreStable(g, c, d)}
  IN {OfComponent("unstable_dependency", c, medium)
      : c \in {k \in g.components : /\ uphill(k) # {}
                                    /\ 100 * Cardinality(uphill(k))
                                         >= config.unstable_doud * Cardinality(targets(k))}}

TotalChurn(g) == MapThenSumSet(LAMBDA c : g.churn[c], g.components)
Measurable(g, config) == TotalChurn(g) >= config.evolutionary_min_history

\* Rigid and concrete: abstractness below 30%, instability below 50%, and the
\* two together far from 100%.  What is missing is the distance, in parts of
\* total_types * degree.
ZoneDistance(g, c) ==
  LET degree == g.fan_in[c] + g.fan_out[c]
  IN g.total_types[c] * degree - g.abstract_types[c] * degree - g.fan_out[c] * g.total_types[c]
InZone(g, c, config) ==
  LET degree == g.fan_in[c] + g.fan_out[c]
  IN /\ g.total_types[c] >= config.zone_min_types
     /\ g.fan_in[c] >= 3
     /\ 100 * ZoneDistance(g, c) >= config.zone_distance * g.total_types[c] * degree
     /\ 10 * g.abstract_types[c] < 3 * g.total_types[c]
     /\ 2 * g.fan_out[c] < degree

\* Faulty variant: a component that seldom changes is not reported.
detect_zone_of_pain_if_changed(g, config) ==
  {OfComponent("zone_of_pain", c, medium)
   : c \in {k \in g.components : /\ InZone(g, k, config) /\ Measurable(g, config)
                                 /\ g.churn[k] >= config.hotspot_min_churn}}

\* The geometry decides whether, the history how loudly.
detect_zone_of_pain(g, config) ==
  LET changes_often(c) == Measurable(g, config) /\ g.churn[c] >= config.hotspot_min_churn
      deep(c) == /\ 100 * ZoneDistance(g, c)
                      >= 85 * g.total_types[c] * (g.fan_in[c] + g.fan_out[c])
                 /\ g.fan_in[c] >= 6
  IN {OfComponent("zone_of_pain", c, IF ~ changes_often(c) THEN low
                                     ELSE IF deep(c) THEN high ELSE medium)
      : c \in {k \in g.components : InZone(g, k, config)}}

detect_god_component(g, config) ==
  LET threshold == AtLeast(percentile(g.files, config.god_percentile), config.god_min_files)
  IN {OfComponent("god_component", c, IF g.files[c] >= 2 * threshold THEN high ELSE medium)
      : c \in {k \in g.components : g.files[k] > threshold}}

detect_dense_structure(g, config) ==
  LET n == Cardinality(g.components)
      dense(percent) == 100 * Cardinality(g.edges) >= percent * n * (n - 1)
  IN IF n >= config.dense_min_components /\ n > 1 /\ dense(config.dense_medium)
     THEN {Diagnosis("dense_structure", {}, {}, IF dense(config.dense_high) THEN high ELSE medium, <<>>)}
     ELSE {}

\* Complex and often changed, each against the most complex and the most changed.
detect_hotspots(g, config) ==
  LET most(values) == AtLeast(Max({values[c] : c \in g.components} \cup {0}), 1)
      score(c) == g.churn[c] * most(g.complexity) + g.complexity[c] * most(g.churn)
      ranked == Sorted({c \in g.components : /\ g.churn[c] >= config.hotspot_min_churn
                                             /\ g.complexity[c] >= config.hotspot_min_complexity},
                       LAMBDA a, b : score(a) > score(b) \/ (score(a) = score(b) /\ a < b))
      listed == SubSeq(ranked, 1, Min({Len(ranked), config.hotspot_limit}))
  IN IF ~ Measurable(g, config) THEN {}
     ELSE {OfComponent("hotspot", c, low)
           : c \in {k \in Range(listed) : 5 * score(k) >= most(g.churn) * most(g.complexity)}}

detect_unstable_interface(g, config) ==
  LET in_th == AtLeast(percentile(g.fan_in, config.hub_percentile), 3)
      ch_th == AtLeast(percentile(g.churn, config.hub_percentile), 1)
  IN IF ~ Measurable(g, config) THEN {}
     ELSE {OfComponent("unstable_interface", c, high)
           : c \in {k \in g.components : g.fan_in[k] >= in_th /\ g.churn[k] >= ch_th}}

\* Pairs of files that changed together, summed for two components of code.
aggregate_coupled_pairs(g, input, config) ==
  LET Of(pair) == {component_for(pair.left, config), component_for(pair.right, config)}
      counted == {p \in input.co_change : /\ ~ is_excluded(p.left, config)
                                          /\ ~ is_excluded(p.right, config)
                                          /\ Cardinality(Of(p)) = 2
                                          /\ Of(p) \subseteq g.components \ {0}}
  IN [cs \in {Of(p) : p \in counted} |->
        MapThenSumSet(LAMBDA p : p.count, {q \in counted : Of(q) = cs})]

detect_change_coupling(g, input, config) ==
  LET pairs == aggregate_coupled_pairs(g, input, config)
      structural(cs) == \E e \in g.edges : {e[1], e[2]} = cs
      finding(cs) ==
        IF structural(cs) THEN Diagnosis("change_coupling", cs, cs, low, <<>>)
        ELSE Diagnosis("modularity_violation", cs, cs,
                       IF pairs[cs] >= 2 * config.change_coupling_min THEN high ELSE medium, <<>>)
  IN IF ~ Measurable(g, config) THEN {}
     ELSE {finding(cs) : cs \in {k \in DOMAIN pairs : pairs[k] >= config.change_coupling_min}}

detected(g, input, config) ==
  detect_cyclic_dependency(g, input, config) \cup detect_file_cycle(input, config)
  \cup detect_hub_like(g, config) \cup detect_unstable_dependency(g, config)
  \cup detect_zone_of_pain(g, config) \cup detect_god_component(g, config)
  \cup detect_dense_structure(g, config) \cup detect_hotspots(g, config)
  \cup detect_unstable_interface(g, config) \cup detect_change_coupling(g, input, config)

\* A confidence is n / d kept between two bounds, in percent: is it what is asked for?
Enough(config, n, d, lo, hi) ==
  \/ config.min_confidence <= lo
  \/ config.min_confidence <= hi /\ 100 * n >= config.min_confidence * d

\* Two measures over their thresholds.
BothOver(config, a, a_th, b, b_th) == Enough(config, a * b_th + b * a_th, 4 * a_th * b_th, 50, 99)

confident_by_structure(f, g, config) ==
  LET c == CHOOSE d \in f.target : TRUE
      targets == {d \in g.components : <<c, d>> \in g.edges}
      uphill == {d \in targets : MoreStable(g, c, d)}
      threshold == AtLeast(percentile(g.files, config.god_percentile), config.god_min_files)
      degree == g.fan_in[c] + g.fan_out[c]
  IN CASE f.detector \in {"cyclic_dependency", "file_cycle"} -> config.min_confidence <= 100
       [] f.detector = "hub_like_dependency" ->
            BothOver(config, g.fan_in[c], AtLeast(percentile(g.fan_in, config.hub_percentile), 3),
                             g.fan_out[c], AtLeast(percentile(g.fan_out, config.hub_percentile), 3))
       [] f.detector = "unstable_dependency" ->
            Enough(config, Cardinality(targets) + Cardinality(uphill), 2 * Cardinality(targets), 50, 95)
       [] f.detector = "zone_of_pain" ->
            Enough(config, (100 - 3 * config.zone_distance) * g.total_types[c] * degree + 300 * ZoneDistance(g, c),
                   200 * g.total_types[c] * degree, 50, 90)
       [] f.detector = "god_component" -> Enough(config, threshold + g.files[c], 4 * threshold, 50, 95)
       [] f.detector = "dense_structure" -> config.min_confidence <= 80

confident_by_history(f, g, input, config) ==
  LET c == CHOOSE d \in f.target : TRUE
      least == config.change_coupling_min
  IN CASE f.detector = "hotspot" -> config.min_confidence <= 70
       [] f.detector = "unstable_interface" ->
            BothOver(config, g.fan_in[c], AtLeast(percentile(g.fan_in, config.hub_percentile), 3),
                             g.churn[c], AtLeast(percentile(g.churn, config.hub_percentile), 1))
       [] f.detector = "change_coupling" -> config.min_confidence <= 60
       [] f.detector = "modularity_violation" ->
            Enough(config, 12 * least + 5 * aggregate_coupled_pairs(g, input, config)[f.target], 20 * least, 60, 95)

Evolutionary == {"hotspot", "unstable_interface", "change_coupling", "modularity_violation"}

confident(f, g, input, config) ==
  IF f.detector \in Evolutionary THEN confident_by_history(f, g, input, config)
  ELSE confident_by_structure(f, g, config)

diagnose(input, config) ==
  LET g == build_graph(input, config)
  IN {f \in detected(g, input, config) : confident(f, g, input, config)}

\* What `advise` says of a file: findings that name its component or cite it.
run_diagnose(input, config, file) ==
  {f \in diagnose(input, config) :
     \/ component_for(file, config) \in f.target
     \/ \E i \in DOMAIN f.evidence : f.evidence[i].from = file}

--------------------------------------------------------------------------------
(* Reference: what a history adds to a diagnosis. *)

WithoutHistory(input) == [input EXCEPT !.churn = [f \in DOMAIN input.churn |-> 0], !.co_change = {}]

\* What the structure alone shows is found with a history and without one, and no less
\* severe with it; without one nothing is said of how the code evolves.
OnlyRaises(input, config) ==
  \A r \in {[with |-> diagnose(input, config), without |-> diagnose(WithoutHistory(input), config)]} :
    /\ \A x \in r.without :
         \E y \in r.with : y = [x EXCEPT !.severity = y.severity] /\ y.severity >= x.severity
    /\ \A y \in r.with :
         y.detector \in Evolutionary \/ \E x \in r.without : y = [x EXCEPT !.severity = y.severity]
    /\ \A x \in r.without : x.detector \notin Evolutionary

================================================================================
