----------------------------------- MODULE Oxc -----------------------------------
(***************************************************************************)
(* What the second parser adds for TypeScript and JavaScript: the exports  *)
(* of a file, the types in what it exports and the complexity of its       *)
(* functions, in one walk over the tree (SyntaxTree).  A name that is      *)
(* bound to a function waits in `pending_name` for the next function       *)
(* without a name of its own.                                              *)
(***************************************************************************)
EXTENDS SyntaxTree

Anonymous == <<"<anonymous>">>
IsFunction(node) == node.kind \in {"Function", "ArrowFunctionExpression"}
Loops == {"ForStatement", "ForInStatement", "ForOfStatement", "WhileStatement", "DoWhileStatement"}

\* The function that is walked comes last in the stack; `nesting` has the depths of what nests in it.
new == [stack |-> <<>>, pending_name |-> None, exported |-> {}, exports |-> {}, complexity |-> {},
        signature_types |-> {}]

--------------------------------------------------------------------------------

Top(w, change(_)) == IF w.stack = <<>> THEN w ELSE [w EXCEPT !.stack[Len(w.stack)] = change(@)]
cyc(w) == Top(w, LAMBDA f : [f EXCEPT !.cyclomatic = @ + 1])
cog_nested(w) == Top(w, LAMBDA f : [f EXCEPT !.cognitive = @ + 1 + Len(f.nesting)])
cog_flat(w) == Top(w, LAMBDA f : [f EXCEPT !.cognitive = @ + 1])
nest_inc(w, depth) == Top(w, LAMBDA f : [f EXCEPT !.nesting = Append(@, depth)])

NameOf(node, w) ==
  IF node.name # None THEN node.name ELSE IF w.pending_name # None THEN w.pending_name ELSE Anonymous
Entered(t, w, n) ==
  [w EXCEPT !.stack = Append(@, [name |-> NameOf(t[n], w), depth |-> t[n].depth, line |-> n, cyclomatic |-> 1,
                                 cognitive |-> 0, nesting |-> <<>>])]

\* Faulty variant: the name stays for the functions after this one.
enter_function_keeping_the_name(t, w, n) == Entered(t, w, n)

\* A name that waits is used up, unless the function has its own.
enter_function(t, w, n) ==
  [Entered(t, w, n) EXCEPT !.pending_name = IF t[n].name # None THEN @ ELSE None]

Fact(t, f) ==
  [name |-> f.name, line |-> f.line, line_count |-> End(t, f.line) - f.line + 1, cyclomatic |-> f.cyclomatic,
   cognitive |-> f.cognitive]

\* What a node of this depth is no longer in.
exit_function(t, w, depth) ==
  LET left == {w.stack[k] : k \in {j \in DOMAIN w.stack : w.stack[j].depth >= depth}}
      within(s) == SelectSeq(s, LAMBDA d : d < depth)
      open == SelectSeq(w.stack, LAMBDA f : f.depth < depth)
  IN [w EXCEPT !.stack = [k \in DOMAIN open |-> [open[k] EXCEPT !.nesting = within(@)]],
               !.exported = {d \in @ : d < depth},
               !.complexity = @ \cup {Fact(t, f) : f \in left}]

--------------------------------------------------------------------------------

\* An `else if` and an `else` cost one, whatever they are in; both arms nest.
is_else_if(t, n) == t[n].kind = "IfStatement" /\ t[n].field = "alternate"
Arm(t, w, n) ==
  IF ParentKind(t, n) # "IfStatement" \/ t[n].field \notin {"consequent", "alternate"} \/ is_else_if(t, n) THEN w
  ELSE nest_inc(IF t[n].field = "alternate" THEN cog_flat(w) ELSE w, t[n].depth)

\* Faulty variant: an `else if` nests in the `if` before it.
visit_if_chain_nesting(t, w, n) == cog_nested(cyc(w))

visit_if_chain(t, w, n) == IF is_else_if(t, n) THEN cog_flat(cyc(w)) ELSE cog_nested(cyc(w))

visit_loop(t, w, n) == nest_inc(cog_nested(cyc(w)), t[n].depth)
visit_switch_statement(t, w, n) == nest_inc(cog_nested(w), t[n].depth)
visit_switch_case(t, w, n) == IF t[n].form = "default" THEN w ELSE cyc(w)
visit_catch_clause(t, w, n) == nest_inc(cog_nested(cyc(w)), t[n].depth)
visit_conditional_expression(w) == cog_nested(cyc(w))
visit_logical_expression(w) == cog_flat(cyc(w))
visit_jump(t, w, n) == IF t[n].form = "label" THEN cog_flat(w) ELSE w

--------------------------------------------------------------------------------

\* A function, or a call of a wrapper whose first argument is one.
initializer_is_function(t, n) ==
  \/ IsFunction(t[n])
  \/ /\ t[n].kind = "CallExpression" /\ t[n].form = "wrapper" /\ Children(t, n) # {}
     /\ IsFunction(t[Min(Children(t, n))])
BindsFunction(t, n) == \E k \in Children(t, n) : t[k].field = "value" /\ initializer_is_function(t, k)

strip_noise_segments(path) ==
  LET noise(kept, k) == \/ path[k] = "module" /\ kept = <<>> /\ k < Len(path) /\ path[k + 1] = "exports"
                        \/ path[k] \in {"exports", "this"} /\ kept = <<>>
                        \/ path[k] = "prototype"
      kept == FoldLeftDomain(LAMBDA s, k : IF noise(s, k) THEN s ELSE Append(s, path[k]), <<>>, path)
  IN IF kept = <<>> THEN path ELSE kept

visit_method_definition(t, w, n) == [w EXCEPT !.pending_name = t[n].name]
visit_variable_declarator(t, w, n) == IF BindsFunction(t, n) THEN [w EXCEPT !.pending_name = t[n].name] ELSE w
visit_object_property(t, w, n) ==
  IF BindsFunction(t, n) /\ t[n].name # None THEN [w EXCEPT !.pending_name = t[n].name] ELSE w
visit_assignment_expression(t, v, n) ==
  LET w == IF t[n].form = "logical" THEN cyc(v) ELSE v
  IN IF BindsFunction(t, n) /\ t[n].name # None THEN [w EXCEPT !.pending_name = strip_noise_segments(t[n].name)] ELSE w

--------------------------------------------------------------------------------

Export(name, local_name, is_type_only, line, source, imported) ==
  [name |-> name, local_name |-> local_name, is_type_only |-> is_type_only, line |-> line, source |-> source,
   imported |-> imported]
Exported(w, n, depth, exports) == [w EXCEPT !.exported = @ \cup {depth}, !.exports = @ \cup exports]

declaration_export_names(t, n) ==
  {<<t[k].name, t[k].kind \in {"TSTypeAliasDeclaration", "TSInterfaceDeclaration"}>> :
   k \in {j \in Children(t, n) : /\ t[j].name # None
                                 /\ t[j].kind \in {"Function", "Class", "VariableDeclarator", "TSTypeAliasDeclaration",
                                                   "TSInterfaceDeclaration", "TSEnumDeclaration"}}}

\* `receiver` of an export is the module that it forwards, that of a specifier its other name.
visit_export_named_declaration(t, w, n) ==
  LET type_only == t[n].form = "type"
      specifiers == {k \in Children(t, n) : t[k].kind = "ExportSpecifier"}
      exported(k) == IF t[k].receiver = None THEN t[k].name ELSE t[k].receiver
      forwarded == {Export(exported(k), None, type_only, n, t[n].receiver, t[k].name) : k \in specifiers}
      listed == {Export(exported(k), IF exported(k) = t[k].name THEN None ELSE t[k].name, type_only, n, None, None) :
                 k \in specifiers}
      declared == {Export(d[1], None, type_only \/ d[2], n, None, None) : d \in declaration_export_names(t, n)}
  IN Exported(w, n, t[n].depth, IF t[n].receiver # None THEN forwarded ELSE IF declared # {} THEN declared ELSE listed)

visit_export_default_declaration(t, w, n) ==
  [Exported(w, n, t[n].depth, {Export(<<"default">>, None, FALSE, n, None, None)}) EXCEPT !.pending_name = <<"default">>]
visit_export_all_declaration(t, w, n) ==
  [w EXCEPT !.exports = @ \cup {Export(IF t[n].name = None THEN <<"*">> ELSE t[n].name, None, t[n].form = "type", n,
                                       t[n].receiver, <<"*">>)}]

type_name_head(name) == name[1]
visit_ts_type_reference(t, w, n) ==
  IF w.exported = {} THEN w ELSE [w EXCEPT !.signature_types = @ \cup {type_name_head(t[n].name)}]

--------------------------------------------------------------------------------

Dispatch(t, w, n) ==
  LET kind == t[n].kind
  IN CASE IsFunction(t[n]) -> enter_function(t, w, n)
       [] kind = "IfStatement" -> visit_if_chain(t, w, n)
       [] kind \in Loops -> visit_loop(t, w, n)
       [] kind = "SwitchStatement" -> visit_switch_statement(t, w, n)
       [] kind = "SwitchCase" -> visit_switch_case(t, w, n)
       [] kind = "CatchClause" -> visit_catch_clause(t, w, n)
       [] kind = "ConditionalExpression" -> visit_conditional_expression(w)
       [] kind = "LogicalExpression" -> visit_logical_expression(w)
       [] kind \in {"BreakStatement", "ContinueStatement"} -> visit_jump(t, w, n)
       [] kind = "MethodDefinition" -> visit_method_definition(t, w, n)
       [] kind = "VariableDeclarator" -> visit_variable_declarator(t, w, n)
       [] kind = "ObjectProperty" -> visit_object_property(t, w, n)
       [] kind = "AssignmentExpression" -> visit_assignment_expression(t, w, n)
       [] kind = "ExportNamedDeclaration" -> visit_export_named_declaration(t, w, n)
       [] kind = "ExportDefaultDeclaration" -> visit_export_default_declaration(t, w, n)
       [] kind = "ExportAllDeclaration" -> visit_export_all_declaration(t, w, n)
       [] kind = "TSTypeReference" -> visit_ts_type_reference(t, w, n)
       [] OTHER -> w

extract(t) ==
  exit_function(t, FoldLeftDomain(LAMBDA w, n : Dispatch(t, Arm(t, exit_function(t, w, t[n].depth), n), n), new, t), 0)

================================================================================
