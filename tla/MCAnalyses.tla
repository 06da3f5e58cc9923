------------------------------- MODULE MCAnalyses --------------------------------
(***************************************************************************)
(* The analyses that read one thing and answer: the parsers on small       *)
(* trees, grown node by node along the grammar of each language, and the   *)
(* searches on small tables, grown fact by fact.                           *)
(***************************************************************************)
EXTENDS SyntaxTree, TaintFlow, Clones

CONSTANTS MaxPathLiterals,
          MaxNodes,            \* of a tree
          MaxInChain,          \* of what is added to one with an if in a loop
          MaxFacts,            \* on routes, calls and accesses
          MaxEvents,           \* of an advisory
          MaxTokens,           \* of all files, one less where two are on a line
          MaxExamples,         \* of a convention
          MaxRecords,          \* of a trace of coverage
          MODULE_CONTAINERS, ExcludedComponents, normalize_module_name, RootModule   \* of Imports

G == INSTANCE GenericAdapter
T == INSTANCE TypeScript
O == INSTANCE Oxc
A == INSTANCE Audit
L == INSTANCE Lcov

MCContainers == {"src", "crates"}
MCExcluded == {"target", "dist"}
MCNames == [s \in {"pkg", "b", "src", "crates", "lib_a", "other", "m", "n", "a", "inc", "q", "p", "@p", "lib", "sub"} |->
              IF s = "@p" THEN "p" ELSE s]
I == INSTANCE Imports

VARIABLES analysis, input
vars == <<analysis, input>>

--------------------------------------------------------------------------------

\* What a node may hold: kind, field, name, receiver and form of a child.
Kid(kind, field, name, receiver, form) == Node(0, kind, field, name, receiver, form)
Plain(kind, form) == Kid(kind, "", None, None, form)
Named(kind, name) == Kid(kind, "", <<name>>, None, "")
CallOf(kind, form, receiver, name) == Kid(kind, "", <<name>>, receiver, form)

RustBody == {CallOf("call_expression", "scoped_identifier", <<"Command">>, "new"),
             CallOf("call_expression", "scoped_identifier", <<"Md5">>, "new"),
             CallOf("call_expression", "field_expression", <<"self">>, "go"),
             Named("function_item", "inner"), Plain("if_expression", ""), Plain("binary_expression", "&&")}
RustItems == {Plain("attribute_item", "test"), Plain("attribute_item", "route"), Plain("line_comment", ""),
              Named("function_item", "f")}
RustKids == [file |-> RustItems \cup {Named("impl_item", "T"), Named("mod_item", "m"),
                                      Kid("use_declaration", "", <<"std", "process", "Command">>, None, "")},
             mod_item |-> RustItems, impl_item |-> RustItems, function_item |-> RustBody,
             if_expression |-> RustBody, binary_expression |-> {Plain("binary_expression", "&&")}]

PythonBody == {CallOf("call", "attribute", <<"os">>, "system"), CallOf("call", "", None, "eval"),
               Named("function_definition", "inner"), Plain("if_statement", ""), Plain("boolean_operator", "")}
PythonItems == {Named("class_definition", "T"), Named("function_definition", "f"), Plain("decorated_definition", "")}
PythonKids == [file |-> PythonItems \cup {Named("import_statement", "os"), CallOf("call", "", None, "eval")},
               class_definition |-> PythonItems, function_definition |-> PythonBody, if_statement |-> PythonBody,
               boolean_operator |-> {Named("identifier", "h"), CallOf("call", "", None, "eval")},
               call |-> {Named("identifier", "h")},
               decorated_definition |-> {Plain("decorator", "route"), Named("function_definition", "f")}]

GoBody == {CallOf("call_expression", "selector_expression", <<"exec">>, "Command"),
           CallOf("call_expression", "selector_expression", <<"mux">>, "HandleFunc"),
           Plain("for_statement", ""), Plain("expression_switch_statement", ""), Plain("binary_expression", "&&")}
GoKids == [file |-> {Named("function_declaration", "f"), Kid("method_declaration", "", <<"m">>, <<"T">>, ""),
                     Named("type_spec", "T"), Named("const_spec", "c"), Named("import_declaration", "fmt")},
           function_declaration |-> GoBody, method_declaration |-> GoBody, for_statement |-> GoBody,
           expression_switch_statement |-> {Plain("expression_case", "")}, expression_case |-> GoBody,
           binary_expression |-> {Plain("binary_expression", "&&")},
           call_expression |-> {Plain("interpreted_string_literal", "path"), Named("identifier", "h")}]

CppBody == {CallOf("call_expression", "", None, "system"), Plain("do_statement", ""), Plain("switch_statement", ""),
            Kid("declaration", "", <<"x">>, <<"T">>, ""), Plain("binary_expression", "&&")}
CppItems == {Named("function_definition", "f"), Named("class_specifier", "T"),
             Kid("declaration", "", <<"p">>, None, "function_declarator")}
CppKids == [file |-> CppItems \cup {Kid("function_definition", "", <<"T", "m">>, None, ""),
                                    Named("namespace_definition", "n")},
            namespace_definition |-> CppItems, class_specifier |-> CppItems, function_definition |-> CppBody,
            do_statement |-> CppBody, switch_statement |-> {Plain("case_statement", "")}, case_statement |-> CppBody,
            declaration |-> {CallOf("call_expression", "", None, "system")}]

Exits == CallOf("call_expression", "member", <<"process">>, "exit")
Reads(field) == Kid("member_expression", field, <<"env">>, <<"process">>, "")
TypeScriptBody == {Exits, Reads(""), CallOf("call_expression", "identifier", None, "eval"),
                   CallOf("call_expression", "member", <<"app">>, "get"),
                   Kid("member_expression", "", <<"body">>, <<"req">>, ""),
                   Kid("lexical_declaration", "", <<"x">>, None, "const")}
TypeScriptKids == [file |-> {Named("function_declaration", "f"), Named("class_declaration", "T"), Exits,
                             CallOf("call_expression", "member", <<"app">>, "get"),
                             Kid("lexical_declaration", "", <<"x">>, None, "const")},
                   function_declaration |-> TypeScriptBody, arrow_function |-> TypeScriptBody,
                   class_declaration |-> {Named("method_definition", "m")}, method_definition |-> TypeScriptBody,
                   lexical_declaration |-> {Kid("arrow_function", "value", None, None, ""), Reads("value")},
                   call_expression |-> {Reads("function"), Kid("string", "argument", <<"u">>, None, "absolute"),
                                        Kid("arrow_function", "argument", None, None, "")}]

Arrow(field) == Kid("ArrowFunctionExpression", field, None, None, "")
OxcBody == {Named("Function", "f"), Arrow(""), Named("VariableDeclarator", "x"), Plain("IfStatement", ""),
            Plain("WhileStatement", ""), Plain("LogicalExpression", "")}
OxcKids == [file |-> {Named("Function", "f"), Arrow(""), Named("VariableDeclarator", "x"),
                      Plain("ExportDefaultDeclaration", "")},
            Function |-> OxcBody, ArrowFunctionExpression |-> OxcBody, WhileStatement |-> OxcBody,
            BlockStatement |-> OxcBody, ExportDefaultDeclaration |-> {Arrow("")},
            VariableDeclarator |-> {Arrow("value"), Kid("Function", "value", <<"g">>, None, ""),
                                    Kid("CallExpression", "value", None, None, "wrapper")},
            CallExpression |-> {Arrow("")},
            IfStatement |-> {Kid("BlockStatement", "consequent", None, None, ""),
                             Kid("BlockStatement", "alternate", None, None, ""),
                             Kid("IfStatement", "alternate", None, None, "")}]

Kids == [Rust |-> RustKids, Python |-> PythonKids, Go |-> GoKids, Cpp |-> CppKids, TypeScript |-> TypeScriptKids,
         Oxc |-> OxcKids]
Trees == DOMAIN Kids

\* At most one child for a field, and an `else` only after an `if`.
Fits(t, node) ==
  LET parent == Max({k \in DOMAIN t : t[k].depth < node.depth} \cup {0})
      kind == IF parent = 0 THEN "file" ELSE t[parent].kind
      sisters == {t[k].field : k \in {j \in DOMAIN t : j > parent /\ t[j].depth = node.depth}}
  IN /\ kind \in DOMAIN Kids[analysis]
     /\ [node EXCEPT !.depth = 0] \in Kids[analysis][kind]
     /\ node.field \in {"value", "function", "consequent", "alternate"} => node.field \notin sisters
     /\ node.field = "function" => sisters = {} /\ t[parent].form = "member" /\ t[parent].name = <<"exit">>
     /\ node.field = "argument" => t[parent].name = <<"get">>
     /\ node.field = "alternate" => "consequent" \in sisters
AllKids == [a \in Trees |-> UNION {Kids[a][k] : k \in DOMAIN Kids[a]}]

Chain == <<[Named("Function", "f") EXCEPT !.depth = 1], [Plain("WhileStatement", "") EXCEPT !.depth = 2],
           [Plain("IfStatement", "") EXCEPT !.depth = 3], [Kid("BlockStatement", "consequent", None, None, "") EXCEPT !.depth = 4]>>
Largest(t) == IF IsPrefix(Chain, t) THEN Len(Chain) + MaxInChain ELSE MaxNodes

GrowTree ==
  /\ analysis \in Trees /\ Len(input) < Largest(input)
  /\ \E kid \in AllKids[analysis] :
       \E depth \in 1 .. 1 + (IF input = <<>> THEN 0 ELSE input[Len(input)].depth) :
         /\ Fits(input, [kid EXCEPT !.depth = depth])
         /\ input' = Append(input, [kid EXCEPT !.depth = depth])
  /\ UNCHANGED analysis

--------------------------------------------------------------------------------

\* Two routes, three functions.
Routes == {[id |-> 10, handler |-> 1], [id |-> 11, handler |-> 2]}
Functions3 == 1 .. 3
NoFacts == [apis |-> Routes, calls |-> {}, accesses |-> <<>>, dangerous |-> {}, client_inputs |-> {}]
Size(facts) ==
  Cardinality(facts.calls) + Len(facts.accesses) + Cardinality(facts.dangerous) + Cardinality(facts.client_inputs)
GrowFacts ==
  /\ analysis = "Flow" /\ Size(input) < MaxFacts
  /\ \/ \E caller \in Functions3, callee \in Functions3 :
          caller # callee /\ input' = [input EXCEPT !.calls = @ \cup {[caller |-> caller, callee |-> callee]}]
     \/ input' = [input EXCEPT !.calls = @ \cup {[caller |-> 3, callee |-> Unresolved]}]
     \/ \E accessor \in Functions3, kind \in {"reads", "writes"} :
          input' = [input EXCEPT !.accesses = Append(@, [accessor |-> accessor, table |-> "t", kind |-> kind])]
     \/ \E s \in Functions3, label \in {"eval", "command"} :
          input' = [input EXCEPT !.dangerous = @ \cup {[symbol |-> s, label |-> label]}]
     \/ \E s \in Functions3 : input' = [input EXCEPT !.client_inputs = @ \cup {s}]
  /\ UNCHANGED analysis

\* One package in several places and versions, one advisory.
Versions == {0, 1, 2, 3, A!Unparsable}
Key(folder, path, version) == [folder |-> folder, path |-> path, version |-> version]
Lock == {Key("", <<>>, 1), Key("", <<"other">>, 1), Key("", <<"p">>, A!NoVersion)} \cup
        {Key("", <<"p", "p", "p">>, v) : v \in Versions} \cup {Key("app", <<>>, 1), Key("app", <<"q">>, 1)}
Affected(ecosystem, events, type, listed) ==
  [ecosystem |-> ecosystem, package |-> "p", versions |-> listed, ranges |-> {[type |-> type, events |-> events]}]
Advisory(events, type, listed) ==
  [id |-> 1, affected |-> {Affected("npm", events, type, listed), Affected("cargo", <<>>, type, Versions)}]
GrowAdvisory ==
  /\ analysis = "Audit" /\ Len(input.events) < MaxEvents
  /\ \E kind \in {"introduced", "fixed", "last_affected"}, version \in {0, 1, 2, A!Unparsable} :
       input' = [input EXCEPT !.events = Append(@, [kind |-> kind, version |-> version])]
  /\ UNCHANGED analysis

\* Two files that grow, or three with a token on each line.
Text(tokens) == [k \in DOMAIN tokens |-> [token |-> tokens[k], line |-> k]]
Texts == {Text(s) : s \in {<<"a", "b">>, <<"b", "c">>, <<"a", "b", "c">>, <<"c", "a", "b">>, <<"a", "b", "a", "b">>}}
Tokens(files) == FoldLeft(LAMBDA n, f : n + Len(f), 0, files)
OneOnALine(f) == \A k \in DOMAIN f : f[k].line = k
GrowCode ==
  /\ analysis = "Clones" /\ Len(input) = 2
  /\ \E f \in DOMAIN input, token \in {"a", "b"}, next \in {0, 1} :
       /\ Tokens(input) + 1 < MaxTokens \/ (Tokens(input) < MaxTokens /\ next = 1 /\ \A g \in DOMAIN input : OneOnALine(input[g]))
       /\ LET line == IF input[f] = <<>> THEN 1 ELSE Last(input[f]).line + next
          IN input' = [input EXCEPT ![f] = Append(@, [token |-> token, line |-> line])]
  /\ UNCHANGED analysis

File(role, n) == [role |-> role, n |-> n]
Controllers(count) == {File("controller", n) : n \in 1 .. count}
Others(count) == {File("service", n) : n \in 1 .. count}
GrowExamples ==
  /\ \/ /\ analysis = "Directions" /\ Cardinality(input) < MaxExamples
        /\ \E a \in Controllers(3), b \in Others(2) :
             \/ input' = input \cup {[source |-> a, target |-> b]}
             \/ input' = input \cup {[source |-> b, target |-> a]}
     \/ /\ analysis = "Databases"
        /\ \E f \in Controllers(6) \cup Others(3) \cup {File("none", 1)} : input' = input \cup {f}
  /\ UNCHANGED analysis

Line(tag, key, count) == [tag |-> tag, key |-> key, count |-> count]
GrowTrace ==
  /\ analysis = "Lcov" /\ Len(input) < MaxRecords
  /\ \E r \in {Line("SF", f, 0) : f \in {"a", "b", L!Outside}} \cup {Line("DA", "1", 0), Line("DA", "1", 1)} \cup
              {Line(tag, "", 1) : tag \in {"LF", "LH", "FNF", "end_of_record"}} \cup
              {Line("FN", "f", 0), Line("FNDA", "f", 1)} :
       input' = Append(input, r)
  /\ UNCHANGED analysis

\* A file has its rank among the paths.
At(rank, path, ext) == [path |-> path, ext |-> ext, rank |-> rank]
NoOxc == [answer |-> "error", again |-> "error", place |-> I!Path(<<>>, "")]
Oxc(answer, again, place) == [answer |-> answer, again |-> again, place |-> place]
Import(language, source, segments) ==
  [language |-> language, source |-> source, segments |-> segments, ext |-> "", dots |-> 0, scoped |-> FALSE, oxc |-> NoOxc]
Package(scoped, segments, answer) ==
  [Import("JavaScript", <<"app", "index">>, segments) EXCEPT !.scoped = scoped, !.oxc = answer]

Crate(dir, name) == [dir |-> dir, name |-> name]
Crates == I!find_cargo_crate_roots({Crate(<<"crates", "lib_a">>, <<"lib_a">>), Crate(<<>>, <<>>),
                                    Crate(<<"target", "m">>, <<"m">>)})
To(path, ext) == [target |-> I!Path(path, ext)]
Workspace ==
  I!npm_workspace({
    [dir |-> <<"@p">>, name |-> <<"@s", "p">>, entries |-> <<I!Path(<<"main">>, "js")>>,
     exports |-> (I!Entry :> [given |-> [node |-> [given |-> [browser |-> To(<<"b">>, "js")]],
                                         types |-> To(<<"lib", "index">>, "js")]]) @@
                 (I!Star :> [given |-> [types |-> To(<<"types", "*">>, "d.ts"), import |-> To(<<"src", "*">>, "ts")]])],
    [dir |-> <<"q">>, name |-> <<"q">>, entries |-> <<>>, exports |-> <<>>]})
\* Files that the index leaves out, each for a reason of its own.
IgnoredFile == At(0, <<"@p", "lib", "index">>, "js")
GeneratedFile == At(0, <<"q", "index">>, "js")
LargeFile == At(0, <<"q", "main">>, "cjs")
Litter == {IgnoredFile, GeneratedFile, LargeFile, At(0, <<"@p", "dist", "sub">>, "ts"), At(0, <<"q", "sub">>, "json")}
TreeOf(files) ==
  [files |-> files \cup Litter, ignored |-> {IgnoredFile}, generated |-> {GeneratedFile}, large |-> {LargeFile}]
Settings == [include |-> {}, exclude |-> {}, languages |-> DOMAIN I!SOURCE_EXTENSIONS, index_generated |-> FALSE]
Repo(tree) == [crates |-> Crates, packages |-> Workspace, disk |-> {I!Path(f.path, f.ext) : f \in tree.files},
               depth |-> I!suggest_module_depth(tree, {})]

Pools ==
  [Python |-> {At(1, <<"pkg", "__init__">>, "py"), At(2, <<"pkg", "a">>, "py"), At(3, <<"pkg", "b">>, "py"),
               At(4, <<"pkg", "b", "__init__">>, "py"), At(5, <<"src", "pkg", "b">>, "py"), At(6, <<"b">>, "pyi")},
   Rust |-> {At(1, <<"crates", "lib_a", "src", "lib">>, "rs"), At(2, <<"crates", "lib_a", "src", "m">>, "rs"),
             At(3, <<"crates", "lib_a", "src", "m", "mod">>, "rs"), At(4, <<"crates", "lib_a", "src", "m", "n">>, "rs"),
             At(5, <<"other", "src", "m">>, "rs"), At(6, <<"other", "src", "m", "n">>, "rs")},
   Cpp |-> {At(1, <<"inc", "s">>, "h"), At(2, <<"s">>, "h"), At(3, <<"src", "s">>, "h"), At(4, <<"src", "inc", "s">>, "h")},
   Go |-> {At(1, <<"b", "x">>, "go"), At(2, <<"m", "a", "b", "y">>, "go"), At(3, <<"m", "a", "b", "z">>, "go"),
           At(4, <<"n", "a", "b", "x">>, "go"), At(5, <<"n", "a", "b", "x">>, "py")},
   JavaScript |-> {At(1, <<"@p", "lib", "index">>, "ts"), At(2, <<"@p", "main">>, "ts"), At(3, <<"@p", "src", "index">>, "ts"),
                   At(4, <<"@p", "src", "sub">>, "ts"), At(5, <<"@p", "sub">>, "tsx"), At(6, <<"@p", "sub", "index">>, "ts"),
                   At(7, <<"q", "index">>, "ts"), At(8, <<"q", "src", "sub">>, "jsx")}]
Statements ==
  [Python |-> {[Import("Python", source, segments) EXCEPT !.dots = dots] :
               source \in {<<"pkg", "a">>, <<"pkg", "b", "__init__">>}, segments \in {<<>>, <<"b">>, <<"pkg", "b">>},
               dots \in 0 .. 2},
   Rust |-> {Import("Rust", <<"crates", "lib_a", "src", "m">>, segments) :
             segments \in {<<"crate", "m", "n">>, <<"self", "m", "n">>, <<"super", "m">>, <<"lib_a", "m", "n", "Item">>,
                           <<"lib_a">>, <<"m", "n">>, <<"crate">>}},
   Cpp |-> {[Import("Cpp", <<"src", "main">>, segments) EXCEPT !.ext = ext] :
            segments \in {<<"s">>, <<"inc", "s">>, <<"..", "inc", "s">>, <<>>}, ext \in {"h", ""}},
   Go |-> {Import("Go", <<"main">>, segments) :
           segments \in {<<"example", "m", "a", "b">>, <<"a", "b">>, <<"a", "", "b">>, <<"fmt">>}},
   JavaScript |-> {Package(TRUE, <<"@s", "p">>, NoOxc), Package(TRUE, <<"@s", "p", "sub">>, NoOxc),
                   Package(TRUE, <<"@s">>, NoOxc), Package(FALSE, <<"q">>, Oxc("tsconfig", "path", I!Path(<<"@p", "main">>, "ts"))),
                   Package(FALSE, <<"q", "sub">>, NoOxc),
                   [Package(FALSE, <<"q", "sub">>, NoOxc) EXCEPT !.ext = "jsx"],
                   Import("JavaScript", <<"@p", "index">>, <<".", "main">>),
                   [Import("JavaScript", <<"@p", "index">>, <<".", "main">>)
                    EXCEPT !.oxc = Oxc("path", "error", I!Path(<<"@p", "main">>, "ts"))]}]
GrowIndex ==
  /\ analysis = "Imports"
  /\ \E f \in Pools[input.language] : input' = [input EXCEPT !.files = @ \cup {f}]
  /\ UNCHANGED analysis

Init ==
  \/ analysis \in Trees /\ input = <<>>
  \/ analysis = "Flow" /\ input = NoFacts
  \/ analysis = "Audit" /\ \E type \in {"SEMVER", "GIT"}, listed \in {{}, {1}} :
                             input = [events |-> <<>>, type |-> type, listed |-> listed]
  \/ analysis = "Clones" /\ input \in {<<<<>>, <<>>>>} \cup (Texts \X Texts \X Texts)
  \/ analysis \in {"Directions", "Databases"} /\ input = {}
  \/ analysis = "Imports" /\ \E language \in DOMAIN Pools : input = [language |-> language, files |-> {}]
  \/ analysis = "Lcov" /\ input = <<Line("SF", "a", 0)>>
Next == GrowTree \/ GrowFacts \/ GrowAdvisory \/ GrowCode \/ GrowExamples \/ GrowTrace \/ GrowIndex
Spec == Init /\ [][Next]_vars

--------------------------------------------------------------------------------

(* What the generic parser records of a node belongs to the function that   *)
(* is written around it, whatever was opened and closed in between: every   *)
(* call is recorded once, by its innermost function under the name that     *)
(* function is declared with; a warning is in test code exactly if an item  *)
(* around it carries a test attribute, next to it or above other            *)
(* attributes and comments; and running a program from Rust is a warning    *)
(* only in a file that imports the process API.                             *)
IsCallable(t, n) == t[n].kind \in G!Playing(analysis, "callable")
Skipped(t, n) ==
  \E a \in Ancestors(t, n) : \/ t[a].kind \in G!Playing(analysis, "import")
                             \/ t[a].kind \in G!Playing(analysis, "prototype") /\ t[a].form = "function_declarator"
Owner(t, n) == Max({a \in Ancestors(t, n) : IsCallable(t, a)} \cup {0})
DeclaredName(facts, n) == IF n = 0 THEN {None} ELSE {s.qualified : s \in {x \in facts.symbols : x.line = n}}
IsTestItem(t, n) ==
  /\ t[n].kind \in {"function_item", "mod_item"}
  /\ \E k \in Siblings(t, n) : /\ k < n /\ t[k].kind = "attribute_item" /\ t[k].form = "test"
                               /\ ~\E j \in Siblings(t, n) : j > k /\ j < n /\ t[j].kind \notin {"attribute_item", "line_comment"}
GenericIsAttributed(t) ==
  LET facts == G!extract(analysis, <<>>, t)
      called == {n \in DOMAIN t : t[n].kind \in G!Playing(analysis, "call") /\ ~Skipped(t, n)}
  IN /\ {c.line : c \in {x \in facts.calls : x.kind # "Reference"}} = called
     /\ \A n \in called : Cardinality({c \in facts.calls : c.line = n}) = 1
     /\ \A c \in facts.calls : DeclaredName(facts, Owner(t, c.line)) = {c.caller}
     /\ \A s \in facts.security : /\ s.kind # "secret" => DeclaredName(facts, Owner(t, s.line)) = {s.caller}
                                  /\ s.in_test_code <=> \E a \in Ancestors(t, s.line) : IsTestItem(t, a)
                                  /\ analysis = "Rust" /\ s.kind = "exec" =>
                                       \E n \in DOMAIN t : t[n].kind = "use_declaration"

(* The same of TypeScript, where a function may get its name from the       *)
(* variable or the route that it is given to; and a capability is counted   *)
(* once for every place that uses it: the callee of a call is no place of   *)
(* its own.                                                                 *)
TypeScriptIsAttributed(t) ==
  LET facts == T!extract(t)
      bound(n) == t[n].kind = "lexical_declaration" /\ \E k \in Children(t, n) : t[k].kind = "arrow_function"
      callable(n) == t[n].kind \in {"function_declaration", "method_definition"} \/ bound(n)
      handlers == {h.node : h \in facts.pending_handlers}
      owner(n) == Max({a \in Ancestors(t, n) : callable(a) \/ a \in handlers} \cup {0})
      uses == {n \in DOMAIN t : \/ t[n].kind = "call_expression" /\ t[n].receiver = <<"process">>
                                \/ t[n].kind = "member_expression" /\ t[n].receiver = <<"process">> /\ t[n].field # "function"}
  IN /\ \A c \in facts.calls : DeclaredName(facts, owner(c.line)) = {c.caller}
     /\ \A r \in facts.request_inputs : DeclaredName(facts, owner(r.line)) = {r.caller}
     /\ \A a \in facts.apis : a.handler # None => \E s \in facts.symbols : Last(s.qualified) = Last(a.handler)
     /\ \A c \in facts.capabilities :
          LET of == {n \in uses : t[n].receiver \o t[n].name = c.api} IN c.count = Cardinality(of) /\ c.line = Min(of)
     /\ \A n \in uses : \E c \in facts.capabilities : c.api = t[n].receiver \o t[n].name

FactsAttributed ==
  /\ analysis \in G!Languages => GenericIsAttributed(input)
  /\ analysis = "TypeScript" => TypeScriptIsAttributed(input)

(* Every decision and every logical operator counts for the innermost       *)
(* function around it and for no other, and what nests in that function     *)
(* adds its own depth there.  The parsers do not agree on an `if` that ends *)
(* in another: the generic one lets the second `if` nest in the first, the  *)
(* other one counts it as much as an `else`, although the former is said    *)
(* to be consistent with the latter (generic.rs:393).  The second parser    *)
(* gives an anonymous function the name that is directly bound to it, and   *)
(* lends a name to one function at most.  One that nothing binds stays      *)
(* anonymous, with one exception, where the name is not "from an enclosing" *)
(* declaration (oxc_extractor.rs:107): what was last bound before it has a  *)
(* name of its own, or is no function, and left the name to the next.       *)
GenericIsExact(t) ==
  LET facts == G!extract(analysis, <<>>, t)
      own(f) == {n \in Within(t, f) : Owner(t, n) = f /\ ~IsCallable(t, n)}
      decides(n) == t[n].kind \in G!decision_node[analysis]
      nests(n) == t[n].kind \in G!nesting_node[analysis]
      depth(f, n) == Cardinality({a \in Ancestors(t, n) : a \in own(f) /\ nests(a)})
  IN \A f \in facts.complexity :
       LET logical == Cardinality({n \in own(f.line) : G!is_logical_operator(t[n])})
       IN /\ f.cyclomatic = 1 + Cardinality({n \in own(f.line) : decides(n)}) + logical
          /\ f.cognitive = logical + FoldSet(LAMBDA n, sum : sum + 1 + depth(f.line, n), 0, {n \in own(f.line) : nests(n)})
          /\ f.line_count = End(t, f.line) - f.line + 1
OxcIsExact(t) ==
  LET facts == O!extract(t)
      functions == {n \in DOMAIN t : O!IsFunction(t[n])}
      owner(n) == Max({a \in Ancestors(t, n) : a \in functions} \cup {0})
      own(f) == {n \in DOMAIN t : owner(n) = f}
      decides(n) == t[n].kind \in {"IfStatement", "WhileStatement", "LogicalExpression"}
      flat(n) == t[n].kind = "LogicalExpression" \/ t[n].field = "alternate"
      nests(n) == t[n].kind = "WhileStatement" \/ (t[n].kind = "BlockStatement" /\ t[n].field # "")
      depth(n) == Cardinality({a \in Ancestors(t, n) : owner(a) = owner(n) /\ nests(a)})
      costs(f) == {n \in own(f) : decides(n) \/ t[n].field = "alternate"}
      anonymous == {n \in functions : t[n].name = None}
      binders == {n \in DOMAIN t : t[n].kind = "ExportDefaultDeclaration" \/ (t[n].kind = "VariableDeclarator" /\ O!BindsFunction(t, n))}
      name(b) == IF t[b].kind = "ExportDefaultDeclaration" THEN <<"default">> ELSE t[b].name
      last(n) == Max({b \in binders : b < n} \cup {0})
      lent(n) == last(n) # 0 /\ anonymous \cap (last(n) + 1 .. n - 1) = {}
      named(n) == (CHOOSE f \in facts.complexity : f.line = n).name
  IN /\ {f.line : f \in facts.complexity} = functions
     /\ \A f \in facts.complexity :
          /\ f.cyclomatic = 1 + Cardinality({n \in own(f.line) : decides(n)})
          /\ f.cognitive = FoldSet(LAMBDA n, sum : sum + 1 + IF flat(n) THEN 0 ELSE depth(n), 0, costs(f.line))
     /\ \A n \in anonymous : /\ ParentKind(t, n) = "VariableDeclarator" => named(n) = t[Parent(t, n)].name
                             /\ named(n) = IF lent(n) THEN name(last(n)) ELSE O!Anonymous

ComplexityExact ==
  /\ analysis \in G!Languages => GenericIsExact(input)
  /\ analysis = "Oxc" => OxcIsExact(input)

(* A flow is reported for a route and a place in the code exactly if the    *)
(* place is reached from the route in few enough steps on a way on which    *)
(* something reads the request, however often and in whatever order the     *)
(* way comes by the same function; each is reported once, with such a way   *)
(* that is no longer than it need be.  (A function that runs commands and   *)
(* evaluates code is a place that evaluates code.)  And a package that is   *)
(* installed for the whole repository is reported exactly if an advisory    *)
(* for its ecosystem lists its version, or the version comes after the      *)
(* introduction of the problem with nothing that ends it in between, in     *)
(* whatever order the advisory lists its events.  (Packages of a folder of  *)
(* the workspace are not audited.)                                          *)
AuditOfLockIsExact(advisory) ==
  LET packages == A!parse_npm_lockfile(Lock)
  IN /\ A!AuditIsExact(packages, {Advisory(advisory.events, advisory.type, advisory.listed)})
     /\ {<<p.name, p.version>> : p \in packages} = {<<"other", 1>>} \cup {<<"p", v>> : v \in Versions}

WarningsExact ==
  /\ analysis = "Flow" => FlowsAreExact(input)
  /\ analysis = "Audit" => AuditOfLockIsExact(input)

(* The copies of a family of clones say the same, are two at least and do   *)
(* not overlap, so that no line is counted twice.  The original of a        *)
(* snippet is not lost to a longer run that fewer files share, whatever     *)
(* the order of the files: unless a text that as many files share comes     *)
(* before it in one of them, a window is the start of a family with a copy  *)
(* in every file that has it.  (Where one does, neither this nor what       *)
(* dupes.rs:166 says of the order is so: of the files `b a b` and `a b a b` *)
(* the second keeps its first `a b` only if it comes first.)                *)
(* What is reported as a convention does not depend on which of two roles   *)
(* that tie is taken, and no two conventions contradict each other.  And a  *)
(* line is covered exactly if some section of the trace about its file says *)
(* so, in whatever order they come.  An import leads to one file at most; a *)
(* file that is added may take an import over or make it ambiguous, and     *)
(* never moves it from one other file to another; a name of Rust that       *)
(* starts with neither an anchor nor a crate of the workspace leads out of  *)
(* the repository; only a path that leads nowhere is reported as broken;    *)
(* and files of one prefix are one module.                                  *)
ClonesAreExact(files) ==
  LET text(i) == [k \in 1 .. i.tokens |-> files[i.file][i.pos + k - 1].token]
      windows == window_fingerprints(files)
      same == [p \in windows |-> index_windows(files, p)]
      sharing == [p \in windows |-> Files(same[p])]
      led_up_to(p) == \E v \in windows \ same[p], q \in same[p] :
                        v.file = q.file /\ v.pos < q.pos /\ Cardinality(sharing[v]) >= Cardinality(sharing[p])
      starts(family, p, f) == \E i \in Range(family.instances) : i.file = f /\ Place(f, i.pos) \in same[p]
      found == detect(files)
  IN /\ \A family \in found :
          LET copies == Range(family.instances)
          IN /\ Cardinality(copies) >= 2
             /\ \A i, j \in copies : /\ text(i) = text(j)
                                     /\ i # j /\ i.file = j.file => i.end_line < j.start_line \/ j.end_line < i.start_line
     /\ \A p \in windows : Cardinality(sharing[p]) >= 2 /\ ~led_up_to(p) =>
                            \E family \in found : \A f \in sharing[p] : starts(family, p, f)
ConventionsAreExact(users) ==
  \A r, s \in Dominant(users) : learn_database_access(users, r) = learn_database_access(users, s)
DirectionsAreExact(dependencies) ==
  LET learnt == learn_dependency_direction(dependencies)
      deviating == {d.example : d \in learnt.deviations}
  IN /\ \A c, d \in learnt.conventions : c.roles # <<d.roles[2], d.roles[1]>>
     /\ \A d \in learnt.deviations : 2 * Cardinality(deviating) < Cardinality(dependencies)
LcovIsExact(records) ==
  LET section(k) == Max({j \in 1 .. k : records[j].tag = "SF"} \cup {0})
      open(k) == ~\E j \in section(k) .. k : records[j].tag = "end_of_record"
      about(f) == {k \in DOMAIN records : open(k) /\ section(k) # 0 /\ records[section(k)].key = f}
      lines(f) == {k \in about(f) : records[k].tag = "DA"}
      hit(f) == {records[k].key : k \in {j \in lines(f) : records[j].count > 0}}
  IN /\ {f.path : f \in L!parse_lcov(records)} = {r.key : r \in {x \in Range(records) : x.tag = "SF"}} \ {L!Outside}
     /\ \A f \in L!parse_lcov(records) :
          lines(f.path) # {} => f.lines = <<Cardinality({records[k].key : k \in lines(f.path)}), Cardinality(hit(f.path))>>
ModulesAreExact(files, depth) ==
  \A f, g \in files :
    LET prefix(h) == I!infer_module_prefix(I!rel_parent(h.path), depth)
        name(h) == I!infer_module_name(I!rel_parent(h.path), depth)
    IN prefix(f) = prefix(g) => name(f) = name(g)
ImportsAreExact(language, files) ==
  \A import \in Statements[language] :
    LET at(there) == LET tree == TreeOf(there)
                     IN I!resolve_dependencies(import, Repo(tree), I!discover_source_files(tree, Settings))
        found == at(files)
    IN /\ Cardinality(found.target) <= 1 /\ found.target \subseteq files
       /\ \A f \in files : found.target \in {{}, {f}, at(files \ {f}).target}
       /\ language = "Rust" /\ import.segments[1] \notin {"crate", "self", "super", "lib_a"} => found.target = {}
       /\ language = "JavaScript" =>
            \A f \in files : import.oxc.place = I!Path(f.path, f.ext) => found.target = {f}
       /\ found.module[1] = "unresolved" <=> /\ I!is_path_specifier(import) /\ found.target = {}
                                             /\ import.oxc.answer # "path"

StructureExact ==
  /\ analysis = "Clones" => ClonesAreExact(input)
  /\ analysis = "Directions" => DirectionsAreExact(input)
  /\ analysis = "Databases" => ConventionsAreExact(input)
  /\ analysis = "Imports" => /\ ImportsAreExact(input.language, input.files)
                              /\ \A depth \in 0 .. 2 : ModulesAreExact(input.files, depth)
  /\ analysis = "Lcov" => LcovIsExact(input)

================================================================================
