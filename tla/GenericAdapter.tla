----------------------------- MODULE GenericAdapter ------------------------------
(***************************************************************************)
(* The extraction of facts from Python, Go, Rust and C++: one walk over    *)
(* the tree, driven by the roles that a language gives to kinds of nodes.  *)
(* The walk goes through the nodes in order; a scope that was pushed is    *)
(* popped when a node is no deeper.                                        *)
(***************************************************************************)
EXTENDS SyntaxTree

CONSTANT MaxPathLiterals     \* kept of one file

Languages == {"Python", "Go", "Rust", "Cpp"}

Role(role, kinds) == [role |-> role, kinds |-> kinds]
Roles ==
  [Python |-> <<Role("callable", {"function_definition"}), Role("type", {"class_definition"}), Role("call", {"call"}),
                Role("import", {"import_statement", "import_from_statement"})>>,
   Go     |-> <<Role("callable", {"function_declaration", "method_declaration"}), Role("type", {"type_spec"}),
                Role("call", {"call_expression"}), Role("import", {"import_declaration"}), Role("const", {"const_spec"})>>,
   Rust   |-> <<Role("callable", {"function_item"}), Role("impl", {"impl_item"}), Role("namespace", {"mod_item"}),
                Role("type", {"struct_item", "enum_item", "union_item", "trait_item", "type_item"}),
                Role("call", {"call_expression", "macro_invocation"}), Role("import", {"use_declaration"}),
                Role("const", {"const_item", "static_item"}), Role("local", {"let_declaration"})>>,
   Cpp    |-> <<Role("callable", {"function_definition"}), Role("namespace", {"namespace_definition"}),
                Role("type", {"class_specifier", "struct_specifier", "union_specifier", "enum_specifier"}),
                Role("call", {"call_expression"}), Role("import", {"preproc_include"}),
                Role("prototype", {"declaration", "field_declaration"})>>]
Playing(language, role) == UNION {r.kinds : r \in {x \in Range(Roles[language]) : x.role = role}}

decision_node ==
  [Python |-> {"if_statement", "elif_clause", "for_statement", "while_statement", "except_clause",
               "conditional_expression", "case_clause"},
   Go     |-> {"if_statement", "for_statement", "expression_case", "type_case", "communication_case"},
   Rust   |-> {"if_expression", "while_expression", "for_expression", "loop_expression", "match_arm"},
   Cpp    |-> {"if_statement", "for_statement", "while_statement", "do_statement", "case_statement", "catch_clause",
               "conditional_expression", "for_range_loop"}]
nesting_node ==
  [Python |-> {"if_statement", "for_statement", "while_statement", "conditional_expression", "match_statement",
               "except_clause"},
   Go     |-> {"if_statement", "for_statement", "expression_switch_statement", "type_switch_statement",
               "select_statement"},
   Rust   |-> {"if_expression", "while_expression", "for_expression", "loop_expression", "match_expression"},
   Cpp    |-> {"if_statement", "for_statement", "while_statement", "do_statement", "switch_statement", "try_statement",
               "conditional_expression", "for_range_loop"}]

is_logical_operator(node) ==
  node.kind = "boolean_operator" \/ (node.kind \in {"binary_expression", "logical_expression"} /\ node.form = "&&")
is_string_literal(node) ==
  node.kind \in {"string", "string_literal", "raw_string_literal", "interpreted_string_literal"}
is_comment(node) == node.kind \in {"comment", "line_comment", "block_comment"}

--------------------------------------------------------------------------------

\* Decisions and nesting of a function; what is nested in it counts for itself.
\* `inside` has the depths of the nesting nodes and `skipped` that of a function.
walk_complexity(language, t, n) ==
  LET step(w, k) ==
        LET inside == {d \in w.inside : d < t[k].depth}
            skipped == {d \in w.skipped : d < t[k].depth}
            nests == t[k].kind \in nesting_node[language]
            decides == t[k].kind \in decision_node[language]
            logical == is_logical_operator(t[k])
        IN IF skipped # {} \/ t[k].kind \in Playing(language, "callable")
           THEN [w EXCEPT !.inside = inside, !.skipped = skipped \cup {t[k].depth}]
           ELSE [inside     |-> inside \cup (IF nests THEN {t[k].depth} ELSE {}),
                 skipped    |-> {},
                 cyclomatic |-> w.cyclomatic + (IF decides THEN 1 ELSE 0) + (IF logical THEN 1 ELSE 0),
                 cognitive  |-> w.cognitive + (IF nests THEN 1 + Cardinality(inside) ELSE 0)
                                            + (IF logical THEN 1 ELSE 0)]
  IN FoldLeftDomain(LAMBDA w, j : step(w, n + j),
                    [inside |-> {}, skipped |-> {}, cyclomatic |-> 1, cognitive |-> 0],
                    SubSeq(t, n + 1, End(t, n)))

\* Faulty variant: a nested function counts for the outer one as well.
record_complexity_nested(language, t, n, qualified) ==
  LET decisions == {k \in Within(t, n) : t[k].kind \in decision_node[language]}
  IN [qualified |-> qualified, line |-> n, line_count |-> End(t, n) - n + 1,
      cyclomatic |-> 1 + Cardinality(decisions), cognitive |-> Cardinality(decisions)]

record_complexity(language, t, n, qualified) ==
  LET w == walk_complexity(language, t, n)
  IN [qualified |-> qualified, line |-> n, line_count |-> End(t, n) - n + 1,
      cyclomatic |-> w.cyclomatic, cognitive |-> w.cognitive]

--------------------------------------------------------------------------------

Entered == [frames |-> <<>>, callables |-> <<>>, tests |-> {}, skipped |-> {}, symbols |-> {}, calls |-> {},
            imports |-> {}, security |-> {}, apis |-> {}, complexity |-> {}, local_types |-> {}, suppressed |-> {},
            qualified_seen |-> {}, path_literals |-> <<>>]

\* What a node is no longer in.
Leave(w, depth) ==
  LET open(s) == SelectSeq(s, LAMBDA f : f.depth < depth)
  IN [w EXCEPT !.frames = open(@), !.callables = open(@),
               !.tests = {d \in @ : d < depth}, !.skipped = {d \in @ : d < depth}]

in_type_scope(w) == w.frames # <<>> /\ Last(w.frames).methods_here
qualify(w, name) == FlattenSeq([k \in DOMAIN w.frames |-> w.frames[k].name]) \o name
Caller(w) == IF w.callables = <<>> THEN None ELSE Last(w.callables).qualified
Scope(w, name, methods_here, depth) ==
  [w EXCEPT !.frames = Append(@, [name |-> name, methods_here |-> methods_here, depth |-> depth])]

\* A method of Go is named after its receiver, one of C++ after its own path.
callable_identity(language, w, node) ==
  [qualified |-> IF language = "Go" /\ node.kind = "method_declaration" /\ node.receiver # None
                 THEN node.receiver \o node.name ELSE qualify(w, node.name),
   kind |-> IF in_type_scope(w) \/ node.kind = "method_declaration" \/ (language = "Cpp" /\ Len(node.name) > 1)
            THEN "Method" ELSE "Function"]

Symbol(w, qualified, kind, n) == [w EXCEPT !.symbols = @ \cup {[qualified |-> qualified, kind |-> kind, line |-> n]}]

visit_callable(language, t, w, n) ==
  LET id == callable_identity(language, w, t[n])
      declared == Symbol(w, id.qualified, id.kind, n)
      scoped == Scope(declared, <<Last(t[n].name)>>, FALSE, t[n].depth)
  IN IF t[n].name = None THEN w
     ELSE [scoped EXCEPT !.complexity = @ \cup {record_complexity(language, t, n, id.qualified)},
                         !.callables = Append(@, [qualified |-> id.qualified, depth |-> t[n].depth])]

visit_type(t, w, n) ==
  IF t[n].name = None THEN w
  ELSE Scope(Symbol(w, qualify(w, t[n].name), "Type", n), t[n].name, TRUE, t[n].depth)

visit_container(t, w, n, methods_here) ==
  IF t[n].name = None THEN w ELSE Scope(w, t[n].name, methods_here, t[n].depth)

\* A prototype declares and nests nothing; the rest may be a typed variable.
visit_cpp_declaration(t, w, n) ==
  IF t[n].form = "function_declarator"
  THEN [(IF t[n].name = None THEN w
         ELSE Symbol(w, qualify(w, t[n].name),
                     IF Len(t[n].name) > 1 \/ in_type_scope(w) THEN "Method" ELSE "Function", n))
        EXCEPT !.skipped = @ \cup {t[n].depth}]
  ELSE IF t[n].receiver = None THEN w
  ELSE [w EXCEPT !.local_types = @ \cup {<<t[n].name, t[n].receiver>>}]

record_local_type(t, w, n) ==
  IF t[n].receiver = None THEN w ELSE [w EXCEPT !.local_types = @ \cup {<<t[n].name, t[n].receiver>>}]

--------------------------------------------------------------------------------

Sink(kind, receivers, callees) == [kind |-> kind, receivers |-> receivers, callees |-> callees]
Sinks ==
  [Python |-> {Sink("eval", {None}, {"eval", "exec"}),
               Sink("exec", {<<"os">>}, {"system", "popen", "execl", "execlp", "execv", "execvp", "execve", "spawnl",
                                         "spawnv"}),
               Sink("exec", {<<"subprocess">>}, {"call", "run", "Popen", "check_output", "check_call", "getoutput",
                                                 "getstatusoutput"}),
               Sink("weak", {<<"hashlib">>}, {"md5", "sha1"})},
   Go     |-> {Sink("exec", {<<"exec">>}, {"Command", "CommandContext"}), Sink("exec", {<<"syscall">>}, {"Exec"}),
               Sink("weak", {<<"md5">>, <<"sha1">>}, {"New", "Sum"})},
   Rust   |-> {Sink("exec", {<<"Command">>}, {"new"}), Sink("weak", {<<"Md5">>, <<"Sha1">>}, {"new"}),
               Sink("weak", {<<"md5">>}, {"compute"})},
   Cpp    |-> {Sink("exec", {None, <<"std">>}, {"system", "popen", "_popen", "execl", "execlp", "execle", "execv",
                                                "execvp", "execve"}),
               Sink("weak", {None}, {"MD5", "SHA1"})}]

\* The kind of warning, if any, that a call is worth.
dangerous_call(language, receiver, callee) ==
  {s.kind : s \in {x \in Sinks[language] : receiver \in x.receivers /\ Last(callee) \in x.callees}}

push_security(w, kind, n, caller) ==
  [w EXCEPT !.security = @ \cup {[kind |-> kind, line |-> n, caller |-> caller, in_test_code |-> w.tests # {}]}]

Api(w, handler, n) == [w EXCEPT !.apis = @ \cup {[handler |-> handler, line |-> n]}]
Call(w, callee, receiver, kind, n) ==
  [w EXCEPT !.calls = @ \cup {[caller |-> Caller(w), callee |-> callee, receiver |-> receiver, kind |-> kind, line |-> n]}]

\* A macro is called by the last segment of its name.  The path of a function is kept
\* as its receiver, though it is called directly.
call_target(node) ==
  IF node.kind = "macro_invocation" THEN [callee |-> <<Last(node.name)>>, receiver |-> None, kind |-> "Direct"]
  ELSE [callee   |-> <<Last(node.name)>>,
        receiver |-> IF node.form \in {"attribute", "selector_expression", "field_expression"} THEN node.receiver
                     ELSE IF node.form \in {"scoped_identifier", "qualified_identifier"} /\ node.receiver # None
                     THEN <<Last(node.receiver)>> ELSE None,
        kind     |-> IF node.form \in {"attribute", "selector_expression", "field_expression"} THEN "Method" ELSE "Direct"]

normalize_receiver(language, receiver) ==
  IF language \in {"Python", "Rust"} /\ receiver = <<"self">> THEN <<"this">> ELSE receiver

\* A path and a handler, the last name among the arguments.
go_route(t, w, n) ==
  LET handlers == {k \in Children(t, n) : t[k].kind \in {"identifier", "selector_expression"}}
  IN IF /\ Last(t[n].name) \in {"HandleFunc", "Handle", "GET", "POST", "PUT", "DELETE", "PATCH", "HEAD", "OPTIONS", "Any"}
        /\ \E k \in Children(t, n) : is_string_literal(t[k])
     THEN Api(w, IF handlers = {} THEN None ELSE <<Last(t[Max(handlers)].name)>>, n) ELSE w

record_call(language, t, w, n) ==
  LET target == call_target(t[n])
      kinds == dangerous_call(language, target.receiver, target.callee)
      warned == FoldSet(LAMBDA kind, v : push_security(v, kind, n, Caller(w)), w, kinds)
      routed == IF language = "Go" THEN go_route(t, warned, n) ELSE warned
  IN IF t[n].name = None THEN w
     ELSE Call(routed, target.callee, normalize_receiver(language, target.receiver), target.kind, n)

\* A name that is used and not called; what declares or binds a name is no use of it.
record_python_value_reference(t, w, n) ==
  LET parent == ParentKind(t, n)
      binds == \/ parent = "call" /\ t[n].field = "function"
               \/ parent \in {"attribute", "function_definition", "class_definition", "parameters", "lambda_parameters",
                              "list_splat_pattern", "dictionary_splat_pattern", "import_statement",
                              "import_from_statement", "aliased_import", "dotted_name", "as_pattern", "for_in_clause",
                              "except_clause"}
               \/ parent \in {"keyword_argument", "typed_parameter", "default_parameter", "typed_default_parameter"}
                  /\ t[n].field = "name"
               \/ parent \in {"assignment", "augmented_assignment", "for_statement"} /\ t[n].field = "left"
  IN IF binds THEN w ELSE Call(w, t[n].name, None, "Reference", n)

detect_python_route(t, w, n) ==
  LET functions == {k \in Children(t, n) : t[k].kind = "function_definition" /\ t[k].name # None}
      routes == {k \in Children(t, n) : t[k].kind = "decorator" /\ t[k].form = "route"}
  IN FoldSet(LAMBDA k, v : Api(v, t[Max(functions)].name, k), w, IF functions = {} THEN {} ELSE routes)

Attributes(t, n) ==
  {k \in RunBefore(t, n, {"attribute_item", "line_comment", "block_comment"}) : t[k].kind = "attribute_item"}
detect_rust_route(t, w, n) ==
  FoldSet(LAMBDA k, v : Api(v, t[n].name, k), w, {k \in Attributes(t, n) : t[k].form = "route" /\ t[n].name # None})

\* Faulty variant: only the attribute right before an item counts.
is_rust_test_scope_adjacent(t, n) ==
  t[n].kind \in {"mod_item", "function_item"} /\ n > 1 /\ t[n - 1].kind = "attribute_item" /\ t[n - 1].form = "test"

is_rust_test_scope(t, n) ==
  t[n].kind \in {"mod_item", "function_item"} /\ \E k \in Attributes(t, n) : t[k].form = "test"

scan_string(t, w, n) ==
  LET scanned == IF t[n].form = "secret" THEN push_security(w, "secret", n, None) ELSE w
  IN IF t[n].form = "path" /\ Len(w.path_literals) < MaxPathLiterals
     THEN [scanned EXCEPT !.path_literals = Append(@, n)] ELSE scanned

extract_suppression(t, w, n) ==
  CASE t[n].form = "ignore" -> [w EXCEPT !.suppressed = @ \cup {n}]
    [] t[n].form = "ignore-next-line" -> [w EXCEPT !.suppressed = @ \cup {n + 1}]
    [] OTHER -> w

record_import(w, specifier, n) == [w EXCEPT !.imports = @ \cup {[specifier |-> specifier, line |-> n]}]

Qualified(w, specifier, n) ==
  IF specifier \in w.qualified_seen THEN w
  ELSE [record_import(w, specifier, n) EXCEPT !.qualified_seen = @ \cup {specifier}]

\* Once for each path of the file, if its first segment may be a crate.
record_rust_qualified_path(t, w, n) ==
  IF ParentKind(t, n) \in {"scoped_identifier", "scoped_type_identifier", "use_declaration"} \/ t[n].form # "crate"
  THEN w ELSE Qualified(w, t[n].name, n)

record_rust_mod_declaration(prefix, t, w, n) ==
  IF t[n].form # "file" \/ t[n].name = None THEN w ELSE Qualified(w, prefix \o t[n].name, n)

--------------------------------------------------------------------------------

\* What is recorded of a node before its role.
Scanned(language, prefix, t, w, n) ==
  LET kind == t[n].kind
  IN CASE is_string_literal(t[n]) -> scan_string(t, w, n)
       [] is_comment(t[n]) -> extract_suppression(t, w, n)
       [] language = "Python" /\ kind = "decorated_definition" -> detect_python_route(t, w, n)
       [] language = "Python" /\ kind = "identifier" -> record_python_value_reference(t, w, n)
       [] language = "Rust" /\ kind = "function_item" -> detect_rust_route(t, w, n)
       [] language = "Rust" /\ kind \in {"scoped_identifier", "scoped_type_identifier"} ->
            record_rust_qualified_path(t, w, n)
       [] language = "Rust" /\ kind = "mod_item" -> record_rust_mod_declaration(prefix, t, w, n)
       [] OTHER -> w

visit_dispatch(language, prefix, t, v, n) ==
  LET w == Scanned(language, prefix, t, v, n)
      plays(role) == t[n].kind \in Playing(language, role)
  IN CASE plays("callable") -> visit_callable(language, t, w, n)
       [] plays("type") -> visit_type(t, w, n)
       [] plays("impl") -> visit_container(t, w, n, TRUE)
       [] plays("namespace") -> visit_container(t, w, n, FALSE)
       [] plays("const") -> IF t[n].name = None THEN w ELSE Symbol(w, qualify(w, t[n].name), "Constant", n)
       [] plays("call") -> record_call(language, t, w, n)
       [] plays("import") ->
            [(IF t[n].name = None THEN w ELSE record_import(w, t[n].name, n)) EXCEPT !.skipped = @ \cup {t[n].depth}]
       [] plays("local") -> record_local_type(t, w, n)
       [] plays("prototype") -> visit_cpp_declaration(t, w, n)
       [] OTHER -> w

visit(language, prefix, t, v, n) ==
  LET w == Leave(v, t[n].depth)
  IN IF w.skipped # {} THEN w
     ELSE visit_dispatch(language, prefix, t,
            [w EXCEPT !.tests = IF language = "Rust" /\ is_rust_test_scope(t, n) THEN @ \cup {t[n].depth} ELSE @], n)

\* A `Command` of Rust runs a program only where a path imports it; other crates have one.
into_facts(language, w) ==
  LET imported == {i.specifier : i \in w.imports}
      uses_process_command ==
        \E s \in imported : \E k \in 2 .. Len(s) : s[k - 1] = "process" /\ s[k] \in {"Command", "{"}
  IN IF language # "Rust" \/ uses_process_command THEN w
     ELSE [w EXCEPT !.security = {s \in @ : s.kind # "exec"}]

extract(language, prefix, t) ==
  into_facts(language, FoldLeftDomain(LAMBDA w, n : visit(language, prefix, t, w, n), Entered, t))

================================================================================
