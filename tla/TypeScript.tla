------------------------------- MODULE TypeScript --------------------------------
(***************************************************************************)
(* The extraction of facts from TypeScript and JavaScript: one walk over   *)
(* the tree (SyntaxTree) with a stack of the scopes that are open.  A      *)
(* scope is popped when a node is no deeper than it; a declaration has one *)
(* declarator; the callee of a call is given by `form`, `name` and         *)
(* `receiver` of the call, and is a child of it only where that matters.   *)
(***************************************************************************)
EXTENDS SyntaxTree

CONSTANT MaxPathLiterals         \* path literals kept of one file

HTTP_VERBS == {"get", "post", "put", "delete", "patch", "options", "head", "all"}
COMMAND_EXEC_METHODS == {"exec", "execSync", "spawn", "spawnSync", "execFile", "execFileSync"}
COMMAND_EXEC_OBJECTS == {"child_process", "childProcess", "cp"}
FunctionValues == {"arrow_function", "function_expression", "function"}

of_member_root(object) ==
  CASE object = <<"process">> -> {"process"}
    [] object \in {<<"localStorage">>, <<"sessionStorage">>, <<"indexedDB">>} -> {"storage"}
    [] object = <<"document">> -> {"dom"}
    [] OTHER -> {}
of_method_call(receiver, property) ==
  IF of_member_root(receiver) # {} THEN of_member_root(receiver)
  ELSE CASE receiver \in {<<"Date">>, <<"performance">>} /\ property = "now" -> {"time"}
         [] receiver = <<"Math">> /\ property = "random" -> {"random"}
         [] receiver = <<"crypto">> /\ property \in {"getRandomValues", "randomUUID", "randomBytes", "randomInt"} ->
              {"random"}
         [] receiver = <<"navigator">> /\ property = "sendBeacon" -> {"network"}
         [] OTHER -> {}
of_global_call(callee) == IF callee = "fetch" THEN {"network"} ELSE {}
of_constructor(callee, argless) ==
  IF callee \in {"WebSocket", "XMLHttpRequest", "EventSource"} THEN {"network"}
  ELSE IF callee = "Date" /\ argless THEN {"time"} ELSE {}

--------------------------------------------------------------------------------

new == [frames |-> <<>>, skipped |-> {}, symbols |-> {}, imports |-> {}, calls |-> {}, apis |-> {}, schema_refs |-> {},
        security |-> {}, suppressed |-> {}, local_types |-> {}, path_literals |-> <<>>, worker_urls |-> {},
        capabilities |-> {}, request_inputs |-> {}, pending_handlers |-> {}]

Open(w, depth) == [w EXCEPT !.frames = SelectSeq(@, LAMBDA f : f.depth < depth), !.skipped = {d \in @ : d < depth}]
recurse_pushed(w, name, callable, depth) ==
  [w EXCEPT !.frames = Append(@, [name |-> name, callable |-> callable, depth |-> depth])]

Names(frames) == FlattenSeq([k \in DOMAIN frames |-> frames[k].name])
qualified(w, name) == Names(w.frames) \o name
at_declaration_level(w) == \A k \in DOMAIN w.frames : ~w.frames[k].callable
current_caller(w) ==
  IF at_declaration_level(w) THEN None
  ELSE Names(SubSeq(w.frames, 1, Max({k \in DOMAIN w.frames : w.frames[k].callable})))

Visibility(exported) == IF exported THEN "Public" ELSE "Internal"
Symbol(w, name, kind, n, visibility) ==
  [w EXCEPT !.symbols = @ \cup {[qualified |-> qualified(w, name), kind |-> kind, line |-> n, visibility |-> visibility]}]
Call(w, callee, kind, receiver, n) ==
  [w EXCEPT !.calls = @ \cup {[caller |-> current_caller(w), callee |-> callee, kind |-> kind, receiver |-> receiver,
                               line |-> n]}]
Import(w, specifier, kind, names, n) ==
  [w EXCEPT !.imports = @ \cup {[specifier |-> specifier, kind |-> kind, names |-> names, line |-> n]}]
Warn(w, kind, caller, n) == [w EXCEPT !.security = @ \cup {[kind |-> kind, caller |-> caller, line |-> n]}]

record_capability(w, kinds, api, n) ==
  LET known == {c \in w.capabilities : c.kind \in kinds /\ c.api = api}
      more == {[c EXCEPT !.count = @ + 1, !.line = Min({@, n})] : c \in known}
      first == IF known = {} THEN {[kind |-> k, api |-> api, line |-> n, count |-> 1] : k \in kinds} ELSE {}
  IN [w EXCEPT !.capabilities = (@ \ known) \cup more \cup first]

--------------------------------------------------------------------------------

\* Both names of `a as b` are imported; a namespace names nothing; what is exported
\* again goes by its name in the other module.
collect_descendant_names(t, n) ==
  LET names(k) == CASE t[k].kind = "import_specifier" -> {t[k].name, t[k].receiver} \ {None}
                    [] t[k].kind = "export_specifier" -> {IF t[k].name # None THEN t[k].name ELSE t[k].receiver}
                    [] t[k].kind = "identifier" -> {t[k].name}
                    [] OTHER -> {}
  IN UNION {names(k) : k \in {j \in Within(t, n) : \A a \in Ancestors(t, j) : t[a].kind # "namespace_import"}}

extract_import(t, w, n) ==
  Import(w, t[n].name, IF t[n].form = "type" THEN "TypeOnly" ELSE "Static", collect_descendant_names(t, n), n)
extract_reexport(t, w, n) ==
  IF t[n].name = None THEN w
  ELSE Import(w, t[n].name, IF t[n].form = "type" THEN "TypeOnly" ELSE "ReExport", collect_descendant_names(t, n), n)

Exported(t, n) == ParentKind(t, n) = "export_statement"

extract_function(t, w, n) ==
  IF t[n].name = None THEN recurse_pushed(w, <<"<anonymous>">>, TRUE, t[n].depth)
  ELSE recurse_pushed(Symbol(w, t[n].name, "Function", n, Visibility(Exported(t, n))), t[n].name, TRUE, t[n].depth)
extract_class(t, w, n) ==
  IF t[n].name = None THEN [w EXCEPT !.skipped = @ \cup {t[n].depth}]
  ELSE recurse_pushed(Symbol(w, t[n].name, "Class", n, Visibility(Exported(t, n))), t[n].name, FALSE, t[n].depth)
extract_method(t, w, n) ==
  IF t[n].name = None THEN [w EXCEPT !.skipped = @ \cup {t[n].depth}]
  ELSE recurse_pushed(Symbol(w, t[n].name, "Method", n, IF t[n].form = "private" THEN "Private" ELSE "Public"),
                      t[n].name, TRUE, t[n].depth)

\* The children in order, of a kind or all: arguments of a call, the value of a declaration.
Arguments(t, n) == {k \in Children(t, n) : t[k].field = "argument"}
Value(t, n) == {k \in Children(t, n) : t[k].field = "value"}
NewValue(t, n) == {k \in Value(t, n) : t[k].kind = "new_expression"}

module_path_specifier(literal, relative_base) ==
  CASE literal.form \in {"relative", "absolute"} -> {literal.name}
    [] literal.form = "bare" /\ relative_base -> {<<".">> \o literal.name}
    [] OTHER -> {}
IsUrl(node) == node.kind = "new_expression" /\ node.form # "member" /\ node.name = <<"URL">>
url_literal_specifier(t, n) ==
  LET arguments == Arguments(t, n)
  IN IF arguments # {} /\ t[Min(arguments)].kind = "string" THEN module_path_specifier(t[Min(arguments)], TRUE) ELSE {}

\* The type of a variable: its annotation, or the class it is made from.
record_local_type(t, w, n) ==
  LET made == {t[k].name : k \in {j \in NewValue(t, n) : t[j].form # "member"}}
      urls == UNION {url_literal_specifier(t, k) : k \in {j \in NewValue(t, n) : IsUrl(t[j])}}
  IN IF t[n].receiver # None THEN [w EXCEPT !.local_types = @ \cup {<<t[n].name, t[n].receiver>>}]
     ELSE [w EXCEPT !.local_types = @ \cup {<<t[n].name, c>> : c \in made},
                    !.worker_urls = IF urls = {} THEN @
                                    ELSE {u \in @ : u[1] # t[n].name} \cup {<<t[n].name, u>> : u \in urls}]

\* A variable with a function is a function; others are recorded outside functions only.
extract_variable_declaration(t, v, n) ==
  LET w == record_local_type(t, v, n)
      functions == {k \in Value(t, n) : t[k].kind \in FunctionValues}
      visibility == Visibility(Exported(t, n))
  IN IF t[n].form = "pattern" THEN v
     ELSE IF functions # {}
     THEN recurse_pushed(Symbol(w, t[n].name, "Function", n, visibility), t[n].name, TRUE, t[n].depth)
     ELSE IF at_declaration_level(w)
     THEN Symbol(w, t[n].name, IF t[n].form = "const" THEN "Constant" ELSE "Variable", n, visibility)
     ELSE w

binding_parents ==
  {"function_declaration", "class_declaration", "method_definition", "public_field_definition", "interface_declaration",
   "type_alias_declaration", "enum_declaration", "import_specifier", "namespace_import", "export_specifier",
   "formal_parameters"}
record_value_reference(t, w, n) ==
  LET parent == ParentKind(t, n)
      binds == \/ parent \in {"call_expression", "new_expression"} /\ t[n].field = "function"
               \/ parent \in binding_parents
               \/ parent \in {"arrow_function", "catch_clause"} /\ t[n].field = "parameter"
               \/ parent \in {"lexical_declaration", "for_in_statement", "assignment_expression"} /\ t[n].field = "left"
  IN IF binds THEN w ELSE Call(w, t[n].name, "Reference", None, n)

--------------------------------------------------------------------------------

string_arguments(t, n) ==
  LET literals == {k \in Arguments(t, n) : t[k].kind = "string"}
  IN [k \in 1 .. Cardinality(literals) |-> t[CHOOSE l \in literals : Cardinality({j \in literals : j <= l}) = k]]
First(literals) == IF literals = <<>> THEN {} ELSE {literals[1]}

push_call_import(t, w, kind, n) ==
  FoldSet(LAMBDA l, v : Import(v, l.name, kind, {}, n), w, First(string_arguments(t, n)))

weak_hash(t, w, n) ==
  IF Last(t[n].name) \in {"createHash", "createHmac"} /\ \E l \in First(string_arguments(t, n)) : l.form = "weak"
  THEN Warn(w, "weak", None, n) ELSE w

\* Its name has the path too, which no property tells apart.
synthesize_inline_handler(w, handler, verb) ==
  LET name == <<"<" \o verb \o " handler>">>
  IN [Symbol(w, name, "Function", handler, "Internal")
      EXCEPT !.pending_handlers = @ \cup {[node |-> handler, name |-> name]}]

\* A path and a handler: a name, or a function that is given one.
try_http_route(t, w, n) ==
  LET arguments == Arguments(t, n)
      last == t[Max(arguments)]
      inline == last.kind \in FunctionValues
      handled == IF inline THEN synthesize_inline_handler(w, Max(arguments), Last(t[n].name)) ELSE w
      handler == IF inline THEN <<"<" \o Last(t[n].name) \o " handler>">>
                 ELSE IF last.kind = "identifier" THEN last.name ELSE None
  IN IF Last(t[n].name) \notin HTTP_VERBS \/ Cardinality(arguments) < 2 \/ t[Min(arguments)].kind # "string"
        \/ t[Min(arguments)].form # "absolute"
     THEN w ELSE [handled EXCEPT !.apis = @ \cup {[handler |-> handler, line |-> n]}]

permissive_header(t, w, n) ==
  LET literals == string_arguments(t, n)
  IN IF /\ Last(t[n].name) \in {"setHeader", "set", "header"} /\ Len(literals) >= 2
        /\ literals[1].form = "allow-origin" /\ literals[2].form = "*"
     THEN Warn(w, "cors", None, n) ELSE w

extract_member_call(t, w, n) ==
  LET property == Last(t[n].name)
      receiver == t[n].receiver
      checked == permissive_header(t, weak_hash(t, try_http_route(t, w, n), n), n)
      executes == property \in COMMAND_EXEC_METHODS /\ receiver \in {<<o>> : o \in COMMAND_EXEC_OBJECTS}
      warned == IF executes THEN Warn(checked, "exec", current_caller(w), n) ELSE checked
  IN Call(record_capability(warned, of_method_call(receiver, property), receiver \o t[n].name, n),
          t[n].name, "Method", receiver, n)

\* What requires or imports is no call, and what evaluates is a warning only.
extract_call(t, v, n) ==
  LET callee == Last(t[n].name)
      w == weak_hash(t, v, n)
  IN CASE t[n].form = "import" -> push_call_import(t, v, "Dynamic", n)
       [] t[n].form = "member" -> extract_member_call(t, v, n)
       [] t[n].form = "identifier" /\ callee = "require" -> push_call_import(t, w, "Require", n)
       [] t[n].form = "identifier" /\ callee = "eval" -> Warn(w, "eval", current_caller(w), n)
       [] t[n].form = "identifier" /\ callee \notin {"require", "eval"} ->
            Call(record_capability(w, of_global_call(callee), t[n].name, n), t[n].name, "Direct", None, n)
       [] OTHER -> v

\* The module of a worker: a path, a URL made of one, or a name bound to such a URL.
worker_specifier(t, w, n) ==
  LET first == t[Min(Arguments(t, n))]
  IN CASE Arguments(t, n) = {} -> {}
       [] first.kind = "string" -> module_path_specifier(first, FALSE)
       [] IsUrl(first) -> url_literal_specifier(t, Min(Arguments(t, n)))
       [] first.kind = "identifier" -> {u[2] : u \in {x \in w.worker_urls : x[1] = first.name}}
       [] OTHER -> {}
push_worker_import(t, w, n) == FoldSet(LAMBDA s, v : Import(v, s, "Dynamic", {}, n), w, worker_specifier(t, w, n))

extract_new(t, v, n) ==
  LET callee == Last(t[n].name)
      evaluates == IF callee = "Function" THEN Warn(v, "eval", current_caller(v), n) ELSE v
      w == IF callee \in {"Worker", "SharedWorker"} THEN push_worker_import(t, evaluates, n) ELSE evaluates
  IN Call(record_capability(w, of_constructor(callee, Arguments(t, n) = {}), <<"new", callee>>, n),
          <<callee>>, "Constructor", None, n)

\* Faulty variant: the callee of a call counts as a use of its own.
extract_member_capability_of_callees(t, w, n) ==
  record_capability(w, of_member_root(t[n].receiver), t[n].receiver \o t[n].name, n)

extract_member_capability(t, w, n) ==
  IF ParentKind(t, n) = "call_expression" /\ t[n].field = "function" THEN w
  ELSE record_capability(w, of_member_root(t[n].receiver), t[n].receiver \o t[n].name, n)

\* Where a function first reads a part of a request.
extract_request_input(t, w, n) ==
  LET caller == current_caller(w)
      read == {r \in w.request_inputs : r.caller = caller /\ r.expression = t[n].receiver \o t[n].name}
  IN IF \/ t[n].receiver \notin {<<"req">>, <<"request">>} \/ caller = None
        \/ Last(t[n].name) \notin {"body", "query", "params", "headers", "cookies", "rawBody"} \/ read # {}
     THEN w
     ELSE [w EXCEPT !.request_inputs = @ \cup {[caller |-> caller, expression |-> t[n].receiver \o t[n].name, line |-> n]}]

extract_permissive_cors(t, w, n) ==
  IF t[n].name = <<"origin">> /\ \E k \in Value(t, n) : t[k].form = "*" THEN Warn(w, "cors", None, n) ELSE w

extract_suppression(t, w, n) ==
  CASE t[n].form = "ignore" -> [w EXCEPT !.suppressed = @ \cup {n}]
    [] t[n].form = "ignore-next-line" -> [w EXCEPT !.suppressed = @ \cup {n + 1}]
    [] OTHER -> w

\* The name of a literal: its key, its variable or what it is assigned to.
binding_name(t, n) ==
  IF ParentKind(t, n) \in {"pair", "lexical_declaration", "assignment_expression"} THEN t[Parent(t, n)].name ELSE None
is_secret_name(name) == name # None /\ Last(name) \in {"secret", "password", "token", "apiKey"}
extract_secret(t, w, n) ==
  IF \/ t[n].form = "provider-secret"
     \/ t[n].form = "high-entropy" /\ is_secret_name(binding_name(t, n))
  THEN Warn(w, "secret", None, n) ELSE w

extract_path_literal(t, w, n) ==
  IF t[n].form \in {"relative", "absolute"} /\ Len(w.path_literals) < MaxPathLiterals
  THEN [w EXCEPT !.path_literals = Append(@, n)] ELSE w

\* How a statement of SQL starts, and the keyword that the name of the table follows.
SQL_STATEMENTS ==
  {[prefix |-> <<"SELECT">>, keyword |-> "FROM", access |-> "Read"],
   [prefix |-> <<"INSERT">>, keyword |-> "INTO", access |-> "Write"],
   [prefix |-> <<"UPDATE">>, keyword |-> "UPDATE", access |-> "Write"],
   [prefix |-> <<"DELETE">>, keyword |-> "FROM", access |-> "Write"]} \cup
  {[prefix |-> <<verb, "TABLE">>, keyword |-> "TABLE", access |-> "Define"] : verb \in {"CREATE", "ALTER", "DROP"}}
SQL_NOISE == {"IF", "NOT", "EXISTS"}
table_after(tokens, keyword) ==
  LET at == {k \in DOMAIN tokens : tokens[k] = keyword}
      names == {k \in DOMAIN tokens : k > Min(at) /\ tokens[k] \notin SQL_NOISE}
  IN IF at = {} \/ names = {} THEN {} ELSE {tokens[Min(names)]}
detect_sql(tokens) ==
  UNION {{[object |-> table, access |-> s.access] : table \in table_after(tokens, s.keyword)} :
         s \in {x \in SQL_STATEMENTS : Len(tokens) >= 2 /\ IsPrefix(x.prefix, tokens)}}
extract_schema_ref(t, w, n) ==
  [w EXCEPT !.schema_refs = @ \cup {[object |-> s.object, access |-> s.access, caller |-> current_caller(w), line |-> n] :
                                    s \in detect_sql(t[n].name)}]

record_named_symbol(t, w, n, kind) ==
  IF t[n].name = None THEN w ELSE Symbol(w, t[n].name, kind, n, Visibility(Exported(t, n)))

--------------------------------------------------------------------------------

Declares == [interface_declaration |-> "Interface", type_alias_declaration |-> "TypeAlias", enum_declaration |-> "Enum"]

Dispatch(t, w, n) ==
  LET kind == t[n].kind
  IN CASE kind = "export_statement" -> extract_reexport(t, w, n)
       [] kind = "import_statement" -> [extract_import(t, w, n) EXCEPT !.skipped = @ \cup {t[n].depth}]
       [] kind \in {"function_declaration", "generator_function_declaration"} -> extract_function(t, w, n)
       [] kind \in {"class_declaration", "abstract_class_declaration"} -> extract_class(t, w, n)
       [] kind = "method_definition" -> extract_method(t, w, n)
       [] kind \in DOMAIN Declares -> record_named_symbol(t, w, n, Declares[kind])
       [] kind \in {"lexical_declaration", "variable_declaration"} -> extract_variable_declaration(t, w, n)
       [] kind = "call_expression" -> extract_call(t, w, n)
       [] kind = "new_expression" -> extract_new(t, w, n)
       [] kind = "member_expression" -> extract_request_input(t, extract_member_capability(t, w, n), n)
       [] kind = "pair" -> extract_permissive_cors(t, w, n)
       [] kind = "comment" -> extract_suppression(t, w, n)
       [] kind \in {"string", "template_string"} ->
            extract_path_literal(t, extract_secret(t, extract_schema_ref(t, w, n), n), n)
       [] kind = "identifier" -> record_value_reference(t, w, n)
       [] OTHER -> w

\* A handler that waits for its body is a function of the name it was given.
visit(t, v, n) ==
  LET w == Open(v, t[n].depth)
      handlers == {h \in w.pending_handlers : h.node = n}
  IN CASE w.skipped # {} -> w
       [] handlers # {} -> FoldSet(LAMBDA h, x : recurse_pushed(x, h.name, TRUE, t[n].depth), w, handlers)
       [] OTHER -> Dispatch(t, w, n)

extract(t) == FoldLeftDomain(LAMBDA w, n : visit(t, w, n), new, t)

================================================================================
