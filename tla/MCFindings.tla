-------------------------------- MODULE MCFindings --------------------------------
(***************************************************************************)
(* An entry point, a barrel, a leaf and a script.  The trees are every     *)
(* choice of exports, imports and re-exports among them, with a file that  *)
(* does not parse or suppressed lines; every choice of functions whose     *)
(* parameters overlap, some declared twice; and imports and patterns that  *)
(* break rules.                                                            *)
(***************************************************************************)
EXTENDS Findings

Main == 1
Barrel == 2
Leaf == 3
Script == 4
Npm == 9
Files == {Main, Barrel, Leaf, Script}
MCFileKind == [f \in Files |-> "source"]
MCModuleOf == [f \in Files |-> IF f = Leaf THEN 2 ELSE 1]

a == 1
b == 2
T == 3

Row(form, file, line, to, name, names, mark) ==
  [form |-> form, file |-> file, line |-> line, column |-> 0, to |-> to, name |-> name,
   names |-> names, mark |-> mark]
Export(file, line, name) == Row("export", file, line, 0, name, {}, FALSE)
Import(file, line, to, names) == Row("import", file, line, to, 0, names, FALSE)
Forward(file, line, to, names) == Row("forward", file, line, to, 0, names, FALSE)
Literal(file, line, names) == Row("literal", file, line, 0, 0, names, FALSE)
Pattern(file, line, column, name, mark) ==
  [Row("pattern", file, line, 0, name, {}, mark) EXCEPT !.column = column]

\* The whole-file statements come first: they share a line with a named one.
Core ==
  {Export(Leaf, 1, a), Export(Leaf, 2, b), Export(Leaf, 3, b),
   Forward(Barrel, 1, Leaf, {a}), Forward(Barrel, 2, Leaf, {b}),
   Import(Main, 1, Barrel, {a}), Import(Main, 2, Leaf, {b}), Forward(Barrel, 4, Script, {a}),
   Literal(Main, 4, {Script})}
Wholes == {Import(Main, 5, Leaf, {}), Forward(Barrel, 3, Leaf, {}), Import(Script, 1, Leaf, {}),
           Forward(Script, 2, Leaf, {a})}
Types ==
  {Row("export", Leaf, 4, 0, T, {}, TRUE), Row("export", Leaf, 1, 0, a, {T}, FALSE),
   Import(Main, 1, Leaf, {a})}

Tree(statements, suppressed, broken) ==
  [files |-> Files, statements |-> statements, suppressed |-> suppressed, broken |-> broken]

Imported == {s \in Core : s.form # "literal"}
Parts == SUBSET Core
Mixed == {C \cup {w} : C \in SUBSET Imported, w \in Wholes}
GraphTrees ==
  {Tree(S, {}, {}) : S \in Parts \cup Mixed \cup SUBSET Types}
  \cup {Tree(S, {}, {Barrel}) : S \in Parts}
  \cup {Tree(S, p, {}) : S \in Parts, p \in {{<<Leaf, 2>>, <<Main, 4>>}}}

--------------------------------------------------------------------------------
(* Functions: six take some of four parameters, one more is long, wide or  *)
(* envious; a class has methods.                                           *)

Function(file, line, name, names) == Row("function", file, line, 0, name, names, FALSE)
Takers ==
  {Function(Main, 11, 1, {1, 2, 3, 4}), Function(Main, 12, 2, {1, 2, 3, 4}),
   Function(Leaf, 11, 3, {1, 2, 3, 4}), Function(Leaf, 12, 4, {1, 2, 3}),
   Function(Leaf, 13, 5, {1, 2, 4}), Function(Barrel, 11, 6, {2, 3, 4}),
   Function(Barrel, 12, 1, {1, 2, 3, 4}), Function(Script, 11, 7, {1, 2, 3, 9})}
Members ==
  {Row("class", Leaf, 20, 0, 8, {}, FALSE), Row("method", Leaf, 21, 0, 8, {21}, FALSE),
   Row("method", Leaf, 22, 0, 8, {22}, FALSE), Row("method", Leaf, 23, 0, 8, {23}, FALSE)}
Twice == {Row("class", Leaf, 25, 0, 8, {}, FALSE), Function(Leaf, 10, 3, {5, 6, 7})}
MCMeasures ==
  [f \in 1 .. 8 |-> [lines |-> 40 * f, cyclomatic |-> 2 * f, cognitive |-> 5 * f, params |-> f + 3]]
MCCalls == [f \in 1 .. 8 |-> [m \in 1 .. 2 |-> IF m = 1 THEN f ELSE 8 - f]]

FunctionTrees ==
  {Tree(S, suppressed, {}) : S \in SUBSET Takers \cup SUBSET Members,
                             suppressed \in {{}, {<<Leaf, 12>>, <<Main, 11>>}}}
  \cup {Tree(S \cup Twice, suppressed, {}) :
          S \in SUBSET Members \cup {{Function(Leaf, 11, 3, {1, 2, 3, 4})}},
          suppressed \in {{}, {<<Leaf, 20>>}, {<<Leaf, 25>>, <<Leaf, 10>>}}}

--------------------------------------------------------------------------------
(* Rules: imports over a boundary, of a banned package and of nothing; two *)
(* patterns on one line, in tests and elsewhere.                           *)

Breaking ==
  {Import(Main, 1, Leaf, {a}), Import(Barrel, 1, Leaf, {a}),
   Import(Main, 6, Npm, {}), Import(Script, 6, Npm, {}), Import(Main, 7, 77, {}), Import(Main, 8, 77, {}),
   Pattern(Main, 9, 1, "exec", FALSE), Pattern(Main, 9, 2, "spawn", TRUE), Pattern(Script, 9, 1, "secret", FALSE)}
RuleTrees ==
  {Tree(S \cup {Export(Leaf, 1, a)}, suppressed, {}) :
     S \in SUBSET Breaking, suppressed \in {{}, {<<Barrel, 1>>, <<Main, 9>>}}}

MCTrees == GraphTrees \cup FunctionTrees \cup RuleTrees
MCStatements == {Import(Main, 1, Barrel, {a})}
MCBoundaries ==
  {[name |-> 1, source |-> 1, target |-> 2, allowed |-> FALSE, severity |-> 3],
   [name |-> 1, source |-> 1, target |-> 1, allowed |-> FALSE, severity |-> 2],
   [name |-> 2, source |-> 2, target |-> 1, allowed |-> TRUE, severity |-> 3]}
MCBannedImports == {[name |-> 1, matches |-> {Npm}, severity |-> 2]}
MCFamily == [f \in Files |-> 1]
MCIdioms == {{1, 2, 3}}

================================================================================
