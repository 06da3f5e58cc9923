------------------------------- MODULE MCReindex --------------------------------
(***************************************************************************)
(* Two files; "a" imports "b" and a package, and may become unparsable;    *)
(* "b" may vanish and come back.  Edits are unbounded, the number of runs  *)
(* is MaxSnapshots.                                                        *)
(***************************************************************************)
EXTENDS Reindex

MCPaths == {"a", "b"}
MCDefinedIn == [p \in MCPaths |-> IF p = "a" THEN "f" ELSE "g"]

Content(parses, line, imports, calleds, routes, tables) ==
  [parses |-> parses, line |-> line, imports |-> imports, calls |-> calleds,
   routes |-> routes, tables |-> tables]

Unparsable == Content(FALSE, 0, {}, {}, {}, {})

MCContents ==
  [p \in MCPaths |->
     IF p = "a"
     THEN {Absent, Unparsable, Content(TRUE, 1, {"b", "npm"}, {"g"}, {"f", "g"}, {})}
     ELSE {Absent, Content(TRUE, 1, {}, {}, {}, {"users"}), Content(TRUE, 2, {"a"}, {"f"}, {}, {})}]

OneModule == [p \in MCPaths |-> "core"]
MCLayouts == {[p \in MCPaths |-> p], OneModule}

E == INSTANCE Extraction WITH Paths <- MCPaths, DefinedIn <- MCDefinedIn

MCTrees == {[p \in MCPaths |-> IF p = "a" THEN ca ELSE cb] : ca \in MCContents["a"], cb \in MCContents["b"]}

\* What a run may extract.  When "a" does not parse it depends on what "a" imported
\* before, and, were rows retained by where they lead, on what it led to.
MCExtractions ==
  {E!Extract(t, l, {}) : t \in MCTrees, l \in MCLayouts}
  \cup {E!Extract(t, l, E!Extract(before, OneModule, {}).deps)
        : t \in {u \in MCTrees : u["a"] = Unparsable}, l \in MCLayouts,
          before \in {u \in MCTrees : u["a"] \notin {Absent, Unparsable}}}

================================================================================
