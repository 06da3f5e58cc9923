------------------------------- MODULE TaintFlow ---------------------------------
(***************************************************************************)
(* The search for input of a client that reaches a database, an `eval` or  *)
(* a command: from every route, through the functions it handles and       *)
(* calls, breadth first and up to a depth.  What the files say comes as a  *)
(* record: the routes with their handlers, the calls and the accesses with *)
(* what they resolve to (None where nothing does), in the order of the     *)
(* files, the symbols with a dangerous call, each with its label, and      *)
(* those that read a request.                                              *)
(***************************************************************************)
EXTENDS Naturals, Sequences, FiniteSets, SequencesExt, Sets

CONSTANT FlowDepth      \* DEFAULT_FLOW_DEPTH
ASSUME FlowDepthIsPositive == FlowDepth \in Nat \ {0}

Unresolved == 0

Edge(source, target, kind) == [source |-> source, target |-> target, kind |-> kind]
build_flow_graph(facts) ==
  {Edge(a.id, a.handler, "handles") : a \in {x \in facts.apis : x.handler # Unresolved}} \cup
  {Edge(c.caller, c.callee, "calls") : c \in {x \in facts.calls : x.callee # Unresolved}}

\* The symbols that a node hands its input to.
forward(edges, node) == {e.target : e \in {x \in edges : x.source = node}}

--------------------------------------------------------------------------------
(* A visit is <<node, carried>>: whether something before the node reads   *)
(* the request.                                                            *)

tainted(facts, at) == at[2] \/ at[1] \in facts.client_inputs

\* Faulty variant: a node is visited once, whether or not input came with it.
Unvisited_by_node(visited, targets, carried) == {n \in targets : \A v \in visited : v[1] # n}

Unvisited(visited, targets, carried) == {n \in targets : <<n, carried>> \notin visited}

\* The visits on way k leave the queue; what its last one hands on is queued, by name.
Visit(facts, edges, ways, k) ==
  LET at == Last(ways[k])
      fresh == IF Len(ways[k]) > FlowDepth THEN <<>>
               ELSE Sorted(Unvisited(Ends(ways), forward(edges, at[1]), tainted(facts, at)), <)
  IN IF k > Len(ways) THEN ways
     ELSE ways \o [i \in DOMAIN fresh |-> Append(ways[k], <<fresh[i], tainted(facts, at)>>)]

Targets(edges) == {e.target : e \in edges}

\* The ways from a route, in the order they are found; every node ends two at most.
visits(facts, source) ==
  LET edges == build_flow_graph(facts)
      queued[k \in Nat] ==   \* after k of them left the queue
        IF k = 0 THEN <<<< <<source, FALSE>> >>>> ELSE Visit(facts, edges, queued[k - 1], k)
  IN queued[2 * (1 + Cardinality(Targets(edges)))]

\* What a node does, in this order: its accesses, then its dangerous call.  Of a symbol that
\* runs commands and evaluates code only the latter is left, as the last in the list.
Command(facts) == Len(facts.accesses) + 1
Eval(facts) == Len(facts.accesses) + 2
dangerous_by_id(facts, node) ==
  LET labels == {d.label : d \in {x \in facts.dangerous : x.symbol = node}}
  IN IF "eval" \in labels THEN {Eval(facts)} ELSE IF "command" \in labels THEN {Command(facts)} ELSE {}
sinks(facts, node) ==
  {j \in DOMAIN facts.accesses : facts.accesses[j].accessor = node} \cup dangerous_by_id(facts, node)
SinkKind(facts, j) ==
  IF j = Eval(facts) THEN "eval" ELSE IF j = Command(facts) THEN "command" ELSE facts.accesses[j].kind
SinkLabel(facts, j) == IF j \in DOMAIN facts.accesses THEN facts.accesses[j].table ELSE SinkKind(facts, j)

Flow(facts, k, way, j) ==
  [at |-> <<k, j>>, sink |-> Last(way)[1], kind |-> SinkKind(facts, j), label |-> SinkLabel(facts, j),
   path |-> [i \in DOMAIN way |-> way[i][1]]]

\* The sinks of a node count once it, or a node on the way to it, reads the request.
trace_flows(facts, source) ==
  LET ways == visits(facts, source)
  IN UNION {{Flow(facts, k, ways[k], j) : j \in sinks(facts, Last(ways[k])[1])}
            : k \in {i \in DOMAIN ways : tainted(facts, Last(ways[i]))}}

Severity(kind) == CASE kind \in {"eval", "command"} -> "Critical" [] kind = "writes" -> "High" [] OTHER -> "Medium"
into_finding(source, flow) ==
  [source |-> source, sink |-> flow.sink, kind |-> flow.kind, label |-> flow.label, severity |-> Severity(flow.kind),
   path |-> flow.path]

\* Of the flows from a route to a sink and a table, the first is reported.
Sooner(f, g) == f.at[1] < g.at[1] \/ (f.at[1] = g.at[1] /\ f.at[2] < g.at[2])
Reported(source, flows) ==
  {into_finding(source, f) : f \in {g \in flows : ~ \E h \in flows : /\ h.sink = g.sink /\ h.label = g.label
                                                                    /\ Sooner(h, g)}}

analyze(facts) == UNION {Reported(a.id, trace_flows(facts, a.id)) : a \in facts.apis}

--------------------------------------------------------------------------------
(* What is to be found: the ways in the code, of few enough steps.         *)

HandsOver(edges, p) == \A i \in 1 .. Len(p) - 1 : p[i + 1] \in forward(edges, p[i])
Ways(facts, route) ==
  LET edges == build_flow_graph(facts)
  IN {p \in UNION {[1 .. n -> {route} \cup Targets(edges)] : n \in 1 .. FlowDepth + 1} :
        p[1] = route /\ HandsOver(edges, p)}
ReadsRequest(facts, p) == \E i \in DOMAIN p : p[i] \in facts.client_inputs
Labels(facts, node) == {SinkLabel(facts, j) : j \in sinks(facts, node)}

\* A flow is reported for a route and a place in the code exactly if the place is
\* reached from the route in few enough steps on a way on which something reads the
\* request, however often and in whatever order the way comes by the same function; each
\* is reported once, with such a way, and with none that is longer than it need be.
FlowsAreExact(facts) ==
  LET found == analyze(facts)
      read == [route \in {a.id : a \in facts.apis} |-> {p \in Ways(facts, route) : ReadsRequest(facts, p)}]
  IN /\ \A a \in facts.apis :
          {<<f.sink, f.label>> : f \in {g \in found : g.source = a.id}}
            = UNION {{Last(p)} \X Labels(facts, Last(p)) : p \in read[a.id]}
     /\ \A f, g \in found : <<f.source, f.sink, f.label>> = <<g.source, g.sink, g.label>> => f = g
     /\ \A f \in found : /\ f.path \in read[f.source] /\ Last(f.path) = f.sink
                         /\ \A p \in read[f.source] : Last(p) = f.sink => Len(f.path) <= Len(p)

================================================================================
