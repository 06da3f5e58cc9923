------------------------------ MODULE ModuleGraph ------------------------------
(***************************************************************************)
(* The dependency graph the analyses read, and the plain reports on it:    *)
(* coupling, module cycles, impact, hotspots.  A dependency is a record    *)
(* [source, target, kind, external, from, to, line]: two modules, the kind *)
(* of import, the importing file and the imported one or NoFile.  A file   *)
(* is [dir, name] with its directory as a sequence of names.  Names are    *)
(* numbers, so that they have the order the code sorts by.                 *)
(***************************************************************************)
EXTENDS Integers, Sequences, FiniteSets, FiniteSetsExt, SequencesExt, Functions, Sets

CONSTANTS
  Modules,          \* the modules of the snapshot
  NoFile,
  MaxPaths,         \* 20 paths are reported
  MaxHotspots       \* 10 hotspots are reported

is_runtime_edge(d) == d.kind # "type_import"
Crossing(d) == ~ d.external /\ d.source # d.target

local_dependency_edges(deps) ==
  {<<d.source, d.target>> : d \in {e \in Range(deps) : Crossing(e)}}
runtime_edges(deps) ==
  {<<d.source, d.target>> : d \in {e \in Range(deps) : Crossing(e) /\ is_runtime_edge(e)}}

ReachableFrom(n, edges) == Closure({e[2] : e \in {f \in edges : f[1] = n}}, edges)

\* What petgraph's kosaraju_scc returns, without the components of one node.
kosaraju_scc(nodes, edges) ==
  LET reaches == UNION {{<<n, m>> : m \in ReachableFrom(n, edges)} : n \in nodes}
      mates == {p \in reaches : p[1] # p[2] /\ <<p[2], p[1]>> \in reaches}
  IN {{p[1]} \cup {q[2] : q \in {r \in mates : r[1] = p[1]}} : p \in mates}

Within(edges, nodes) == {e \in edges : e[1] \in nodes /\ e[2] \in nodes}
strongly_connected_modules(deps) ==
  kosaraju_scc(Modules, Within(runtime_edges(deps), Modules))
cycle_count(deps) == Cardinality(strongly_connected_modules(deps))

--------------------------------------------------------------------------------
(* Coupling and hotspots. *)

fan_in(m, deps) == Cardinality({e \in local_dependency_edges(deps) : e[2] = m})
fan_out(m, deps) == Cardinality({e \in local_dependency_edges(deps) : e[1] = m})
HotspotScore(m, deps) == 2 * fan_in(m, deps) + 3 * fan_out(m, deps)

\* Modules with a score, the highest first, then by name.
hotspots(deps) ==
  LET scored == {m \in Modules : HotspotScore(m, deps) > 0}
      above(m, n) == \/ HotspotScore(m, deps) > HotspotScore(n, deps)
                     \/ HotspotScore(m, deps) = HotspotScore(n, deps) /\ m < n
      ranked == Sorted(scored, above)
  IN SubSeq(ranked, 1, IF Len(ranked) < MaxHotspots THEN Len(ranked) ELSE MaxHotspots)

\* Coupling density is a fraction: edges of possible edges.
analyze_modules(deps) ==
  [cycle_count |-> cycle_count(deps),
   edges |-> Cardinality(local_dependency_edges(deps)),
   possible_edges |-> Cardinality(Modules) * (Cardinality(Modules) - 1),
   hotspots |-> hotspots(deps)]

DensityAtLeast(analysis, percent) ==
  analysis.possible_edges > 0 /\ 100 * analysis.edges >= percent * analysis.possible_edges

summary_risk(deps) ==
  LET a == analyze_modules(deps)
      top == IF a.hotspots = <<>> THEN 0 ELSE HotspotScore(a.hotspots[1], deps)
  IN IF a.cycle_count >= 3 THEN "critical"
     ELSE IF a.cycle_count > 0 \/ DensityAtLeast(a, 35) THEN "high"
     ELSE IF DensityAtLeast(a, 15) \/ top >= 10 THEN "medium" ELSE "low"

--------------------------------------------------------------------------------
(* Breadth-first search, shared by impact and blast radius. *)

\* Path k leaves the queue; those that go on from it to nodes that none has reached
\* are queued.
Expand(paths, k, neighbors, max_depth) ==
  LET fresh == IF Len(paths[k]) > max_depth THEN <<>>
               ELSE Sorted(neighbors[Last(paths[k])] \ Ends(paths), <)
  IN IF k > Len(paths) THEN paths
     ELSE paths \o [i \in DOMAIN fresh |-> Append(paths[k], fresh[i])]

\* Paths in the order they are found; no node is reached twice, the start never.
Explore(start, neighbors, max_depth) ==
  LET queued[k \in Nat] ==   \* after k paths, of which the start is one, left the queue
        IF k = 0 THEN <<<<start>>>> ELSE Expand(queued[k - 1], k, neighbors, max_depth)
  IN Tail(queued[Cardinality(DOMAIN neighbors)])

Directions == {"downstream", "upstream", "both"}

\* Faulty variant: "both" looks downstream only.
neighbors_downstream(nodes, edges, direction) ==
  [n \in nodes |-> {m \in nodes : IF direction = "upstream" THEN <<n, m>> \in edges
                                  ELSE <<m, n>> \in edges}]

\* Downstream are those that depend on a node, upstream those it depends on.
neighbors(nodes, edges, direction) ==
  [n \in nodes |->
     {m \in nodes : \/ direction # "upstream" /\ <<m, n>> \in edges
                    \/ direction # "downstream" /\ <<n, m>> \in edges}]

impact_risk(affected, paths) ==
  IF affected >= 20 THEN "critical" ELSE IF affected >= 10 THEN "high"
  ELSE IF affected >= 4 \/ paths >= 6 THEN "medium" ELSE "low"

impact(start, direction, max_depth, deps) ==
  LET edges == local_dependency_edges(deps)
      nodes == Modules \cup {e[1] : e \in edges} \cup {e[2] : e \in edges}
      paths == Explore(start, neighbors(nodes, edges, direction), max_depth)
      affected == Ends(paths)
  IN [affected |-> affected,
      paths |-> SubSeq(paths, 1, IF Len(paths) < MaxPaths THEN Len(paths) ELSE MaxPaths),
      risk |-> impact_risk(Cardinality(affected), Len(paths))]

--------------------------------------------------------------------------------
(* The elementary cycles of a set of modules that is strongly connected,   *)
(* the shortest first up to a limit, and the imports that witness a cycle. *)
(* Modules are of any granularity: `diagnose` looks for loops between      *)
(* directories and between files with them.                                *)

CONSTANTS
  MaxCyclesPerScc,  \* 20
  MaxCycleDepth     \* 12

Smaller(a, b) == IF a < b THEN a ELSE b

\* The distinct successors of a module, in the order of the dependencies.
successors(m, nodes, deps) ==
  LET at(n) == {i \in DOMAIN deps : deps[i].source = m /\ deps[i].target = n
                                    /\ ~ deps[i].external /\ is_runtime_edge(deps[i])}
      targets == {n \in nodes \ {m} : at(n) # {}}
  IN Sorted(targets, LAMBDA n, k : Min(at(n)) < Min(at(k)))

--------------------------------------------------------------------------------
(* Elementary cycles of a component. *)

\* The rotation that starts with the smallest name.
canonical(path) ==
  LET at == CHOOSE i \in DOMAIN path : \A j \in DOMAIN path : path[i] <= path[j]
  IN SubSeq(path, at, Len(path)) \o SubSeq(path, 1, at - 1)

\* Depth-first from a module, for cycles of exactly limit modules.
dfs_cycles(start, limit, scc, deps, found) ==
  LET below[path \in Seq(scc), known \in Seq(Seq(scc))] ==
        LET step(seen, next) ==
              IF Len(seen) >= MaxCyclesPerScc \/ next \notin scc THEN seen
              ELSE IF next = start /\ Len(path) = limit
              THEN IF Contains(seen, canonical(path)) THEN seen ELSE Append(seen, canonical(path))
              ELSE IF next \in Range(path) \/ Len(path) >= limit THEN seen
              ELSE below[Append(path, next), seen]
        IN FoldLeft(step, known, successors(Last(path), scc, deps))
  IN below[<<start>>, found]

\* Faulty variant: every depth from each start, so that long cycles come first.
enumerate_scc_cycles_by_start(scc, deps) ==
  LET starts == Sorted(scc, <)
      depths == [d \in 1 .. Smaller(Cardinality(scc), MaxCycleDepth) - 1 |-> d + 1]
      from(found, start) ==
        FoldRight(LAMBDA limit, known : dfs_cycles(start, limit, scc, deps, known), depths, found)
  IN FoldLeft(from, <<>>, starts)

\* Iterative deepening: all cycles of two modules, then of three.
enumerate_scc_cycles(scc, deps) ==
  LET starts == Sorted(scc, <)
      depths == [d \in 1 .. Smaller(Cardinality(scc), MaxCycleDepth) - 1 |-> d + 1]
      deepen(found, limit) ==
        FoldLeft(LAMBDA known, start : dfs_cycles(start, limit, scc, deps, known), found, starts)
  IN FoldLeft(deepen, <<>>, depths)

--------------------------------------------------------------------------------
(* File-level witnesses of a cycle. *)

\* The order of sequences whose elements have one.
Before(s, t, less(_, _)) ==
  /\ s # t
  /\ \E n \in 0 .. Len(s) : /\ Len(t) >= n /\ SubSeq(s, 1, n) = SubSeq(t, 1, n)
                            /\ (Len(s) = n \/ (Len(t) > n /\ less(s[n + 1], t[n + 1])))
FileBefore(f, g) == Before(f, g, <)

\* The imports behind one hop, by importing file and line.
group_candidates(from, to, deps) ==
  LET rows == {i \in DOMAIN deps : ~ deps[i].external /\ is_runtime_edge(deps[i])
                                   /\ deps[i].source = from /\ deps[i].target = to}
      first(i, j) ==
        LET f == deps[i].from
            g == deps[j].from
        IN \/ FileBefore(Append(f.dir, f.name), Append(g.dir, g.name))
           \/ f = g /\ deps[i].line < deps[j].line
           \/ f = g /\ deps[i].line = deps[j].line /\ i < j
      order == IF from = to THEN <<>> ELSE Sorted(rows, first)
  IN [k \in DOMAIN order |-> deps[order[k]]]

\* Faulty variant: the walk always starts at hop 0.
witness_start_zero(candidates, preferred) == 0

\* The first hop that an import of a preferred file makes, or hop 0.
witness_start(candidates, preferred) ==
  LET hops == {h \in DOMAIN candidates :
                 \E k \in DOMAIN candidates[h] : candidates[h][k].from \in preferred}
  IN IF hops = {} THEN 0 ELSE Min(hops)

\* One import for each hop, in the order of the cycle: at the start one of a
\* preferred file, then one of the file the hop before arrived at, if there is.
witness_walk_preferring(cycle, deps, preferred) ==
  LET len == Len(cycle)
      candidates == [h \in 0 .. len - 1 |->
                       group_candidates(cycle[h + 1], cycle[((h + 1) % len) + 1], deps)]
      start == witness_start(candidates, preferred)
      Chosen(choices, files) ==
        IF \E k \in DOMAIN choices : choices[k].from \in files
        THEN choices[SelectInSeq(choices, LAMBDA c : c.from \in files)] ELSE choices[1]
      walk[step \in 0 .. len - 1] ==
        LET choices == candidates[(start + step) % len]
        IN IF choices = <<>> THEN <<>>
           ELSE IF step = 0 THEN <<Chosen(choices, preferred)>>
           ELSE <<Chosen(choices, IF walk[step - 1] = <<>> THEN {}
                                  ELSE {walk[step - 1][1].to} \ {NoFile})>>
  IN FlattenSeq([h \in 1 .. len |-> walk[(h - 1 + len - start) % len]])

--------------------------------------------------------------------------------
(* Blast radius over the persisted graph: nodes [id, kind, label], edges   *)
(* [source, target, kind].  A label is a set of words, in which a needle   *)
(* may be found, and is sorted by them; case is left out.  An id is a word *)
(* of its own.                                                             *)

IMPACT_EDGE_KINDS == {"depends_on", "calls", "reads", "writes", "exposes", "handles"}

categorize(kind) ==
  CASE kind \in {"module", "namespace"} -> "module"
    [] kind \in {"api", "route", "rpc_method", "event"} -> "api"
    [] kind \in {"table", "view", "column"} -> "table"
    [] kind \in {"symbol", "function", "class", "trait", "interface", "type"} -> "symbol"
    [] kind = "file" -> "file"
    [] OTHER -> "other"

\* What a user may type: an id, or words with or without a prefix.
Target(category, words) == [category |-> category, words |-> words]

\* Faulty variant: the first match, exact or not.
resolve_target_first(input, nodes) ==
  LET matches == {i \in DOMAIN nodes :
        /\ input.category = "any" \/ input.category = categorize(nodes[i].kind)
        /\ input.words \subseteq nodes[i].label}
  IN IF matches = {} THEN {} ELSE {nodes[Min(matches)]}

\* The node, or {}: an id, an exact label before one that contains the words; of
\* several the first.  (The comment of the function says none then.)
resolve_target(input, nodes) ==
  LET ids == {i \in DOMAIN nodes : input.words = {nodes[i].id}}
      In(i) == input.category = "any" \/ input.category = categorize(nodes[i].kind)
      exact == {i \in DOMAIN nodes : In(i) /\ nodes[i].label = input.words}
      matches == {i \in DOMAIN nodes : In(i) /\ input.words \subseteq nodes[i].label}
      best == IF exact # {} THEN exact ELSE matches
  IN IF ids # {} THEN {nodes[Min(ids)]} ELSE IF best = {} THEN {} ELSE {nodes[Min(best)]}

target_syntax(node) ==
  Target(IF categorize(node.kind) \in {"table", "api"} THEN categorize(node.kind) ELSE "any",
         node.label)

--------------------------------------------------------------------------------

risk_score(modules, apis, tables, symbols, in_cycle) ==
  LET raw == 5 * modules + 6 * apis + 6 * tables + symbols + (IF in_cycle THEN 15 ELSE 0)
  IN [value |-> Min({raw, 100}),
      risk |-> IF raw <= 24 THEN "low" ELSE IF raw <= 49 THEN "medium"
               ELSE IF raw <= 74 THEN "high" ELSE "critical"]

ImpactEdges(edges) ==
  {<<e.source, e.target>> : e \in {f \in edges : f.kind \in IMPACT_EDGE_KINDS}}

label_path(path, nodes) ==
  [i \in DOMAIN path |-> LET at == {n \in nodes : n.id = path[i]}
                         IN IF at = {} THEN {path[i]} ELSE (CHOOSE n \in at : TRUE).label]

LabelBefore(a, b) == Before(Sorted(a, <), Sorted(b, <), <)

\* Paths are shown by their labels and in the order of these.
ShownPaths(paths, nodes) ==
  LET shown == [k \in DOMAIN paths |-> label_path(paths[k], nodes)]
      before(i, j) == Before(shown[i], shown[j], LabelBefore) \/ (shown[i] = shown[j] /\ i < j)
      order == Sorted(DOMAIN paths, before)
  IN [k \in 1 .. Smaller(Len(paths), MaxPaths) |-> shown[order[k]]]

\* Ids that no node has are walked through; they count in no category.
blast_radius(nodes, edges, target_id, direction, max_depth) ==
  LET ids == {n.id : n \in nodes} \cup {e.source : e \in edges} \cup {e.target : e \in edges}
      paths == Explore(target_id, neighbors(ids, ImpactEdges(edges), direction), max_depth)
      visited == Ends(paths)
      Count(category) ==
        Cardinality({n \in nodes : n.id \in visited /\ categorize(n.kind) = category})
  IN [impacted |-> {n \in nodes : n.id \in visited},
      visited |-> visited,
      found |-> paths,
      paths |-> ShownPaths(paths, nodes),
      score |-> risk_score(Count("module"), Count("api"), Count("table"),
                           Count("symbol") + Count("file"), FALSE)]

--------------------------------------------------------------------------------
(* Reference: distance in the graph that a search looks at. *)

\* The edges as the search follows them: downstream to those that depend on a node.
Directed(edges, direction) ==
  (IF direction # "upstream" THEN {<<e[2], e[1]>> : e \in edges} ELSE {})
  \cup (IF direction # "downstream" THEN edges ELSE {})

AtMost(edges, n, k) ==
  LET within[i \in Nat] == IF i = 0 THEN {n} ELSE Onward(within[i - 1], edges)
  IN within[k]

\* Paths from a start, one to a node, each a shortest one.
ShortestPaths(paths, start, edges) ==
  /\ IsInjective([i \in DOMAIN paths |-> Last(paths[i])])
  /\ \A i \in DOMAIN paths :
       /\ paths[i][1] = start
       /\ \A k \in 2 .. Len(paths[i]) : <<paths[i][k - 1], paths[i][k]>> \in edges
       /\ Last(paths[i]) \notin AtMost(edges, start, Len(paths[i]) - 2)

================================================================================
