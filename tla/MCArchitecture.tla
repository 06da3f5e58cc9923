----------------------------- MODULE MCArchitecture -----------------------------
(***************************************************************************)
(* Three components, one of them sliced, two files each; graphs that an    *)
(* edit leads from and to; contracts that differ in each form of rule, and *)
(* one that gives a component another name.                                *)
(***************************************************************************)
EXTENDS ArchitectureCheck

src == 91
app == 92
at_x == 99

CONSTANTS MODULE_CONTAINERS, ExcludedComponents, normalize_module_name, RootModule   \* of Imports

D == INSTANCE Imports

MCContainers == {src, app}
MCNames == [n \in 0 .. 99 |-> n]

File(dir, name) == [dir |-> dir, name |-> name]
A1 == File(<<src, 1>>, 11)
A2 == File(<<src, 1>>, 12)
B1 == File(<<src, 2>>, 21)
B2 == File(<<src, 2>>, 22)
C1 == File(<<src, 3, 31>>, 1)
C2 == File(<<src, 3, 32>>, 2)
CX == File(<<src, 3, 32, at_x>>, 31)
Elsewhere == File(<<app, 1>>, 13)
AtRoot == File(<<>>, 5)

Import(from, to, n) == [from |-> from, to |-> to, specifier |-> <<n>>, external |-> FALSE]
External(from, specifier) == [from |-> from, to |-> NoTarget, specifier |-> specifier, external |-> TRUE]

Graph(files, dependencies, co_changes, uses, functions, coverage) ==
  [files |-> files, module_of |-> [f \in files |-> D!infer_module_name(f.dir, 1)[1]],
   dependencies |-> dependencies, co_changes |-> co_changes, capability_uses |-> uses,
   functions |-> functions, coverage |-> coverage]

Together(f, g) == [left |-> f, right |-> g]
fetch == <<7>>

G1 == Graph({A1, A2, B1, B2, C1, C2},
            {Import(A1, B1, 1), Import(A2, B2, 2), Import(C1, C2, 4)},
            {Together(A1, C1), Together(A1, C2)}, {}, {}, <<>>)
G2 == Graph({A1, A2, B1, C1, C2, CX},
            {Import(A1, B1, 1), Import(B1, A1, 2), Import(C1, CX, 5), Import(B1, C1, 3)}, {}, {}, {}, <<>>)
G3 == Graph({A1, B1, Elsewhere, AtRoot}, {Import(Elsewhere, B1, 1), Import(B1, A1, 2)}, {}, {}, {}, <<>>)
\* Rules that are not about imports between components.
G4 == Graph({A1, A2, B1},
            {Import(A1, B1, 1), External(A2, <<8, 9>>), External(A1, fetch)},
            {}, {[file |-> B1, capability |-> "time", api |-> <<6>>]},
            {[file |-> A1, name |-> 1, cyclomatic |-> 9, cognitive |-> 2]},
            [f \in {A1, A2} |-> [found |-> 10, hit |-> IF f = A1 THEN 3 ELSE 6]])
\* An import that is closed to its component, and a history that ties the two.
G5 == Graph({B1, C1, C2}, {Import(B1, C1, 3)}, {Together(B1, C1), Together(B1, C2)}, {}, {}, <<>>)
MCGraphs == {G1, G2}

Under(dir) == {[dir |-> dir, rest |-> "**"]}
Plain(n) == [PlainComponent EXCEPT !.paths = Under(<<src, n>>)]
Base ==
  [mode |-> "new-violations", unassigned |-> "warn", coupling |-> "low",
   components |->
     (1 :> [Plain(1) EXCEPT !.depends_on = 2 :> FALSE, !.max_cyclomatic = 5, !.min_coverage = 50,
                            !.external_deny = {[kind |-> "prefix", part |-> <<8>>],
                                               [kind |-> "suffix", part |-> <<3>>]},
                            !.deny_capabilities = {"network"}]
      @@ 2 :> [Plain(2) EXCEPT !.interface = {B1}, !.deny_capabilities = {"time"}]
      @@ 3 :> [Plain(3) EXCEPT !.slices = TRUE])]

With(c, n, field, value) == [c EXCEPT !.components[n][field] = value]

\* Every way in which 1 and 2 may speak about the imports between them.
Relations ==
  {With(With(With(With(Base, 1, "depends_on", on), 1, "cannot_depend_on", cannot), 1, "must_depend_on", must),
        2, "consumed_by", by) :
     on \in {<<>>, 2 :> FALSE, 2 :> TRUE}, cannot \in {{}, {2}}, must \in {{}, {2}, {3}},
     by \in {Anyone, {}, {1}, {3}}}

Closed == With(With(Base, 1, "depends_on", <<>>), 3, "consumed_by", {})
\* A component under a new name: its accepted violations belong to another file.
Renamed == [Base EXCEPT !.components = (4 :> Base.components[1]) @@ Restrict(Base.components, {2, 3})]
Off == [Base EXCEPT !.mode = "off"]
MCContracts == {Base, Renamed, [Base EXCEPT !.mode = "strict"]}
Warn == [With(Base, 1, "cannot_depend_on", {2}) EXCEPT !.mode = "warn"]
MCFirst ==
  {<<NoContract, G1>>, <<NoContract, G3>>, <<Base, G4>>, <<Warn, G2>>, <<Closed, G5>>, <<Off, G3>>} \cup (Relations \X {G2})

\* An application over two layers, and a workspace whose libraries are known by the
\* name of a directory anywhere below another.
Layered ==
  [mode |-> "warn", unassigned |-> "ignore", coupling |-> "off",
   components |-> (1 :> [PlainComponent EXCEPT !.paths = Under(<<src, 1>>), !.depends_on = 2 :> FALSE]
                   @@ 2 :> [PlainComponent EXCEPT !.paths = Under(<<src, 2>>)]
                   @@ 3 :> [PlainComponent EXCEPT !.paths = Under(<<src, 3>>), !.slices = TRUE,
                                                  !.depends_on = 2 :> FALSE])]
Below(dir, names, length) == [dir |-> dir, rest |-> "below", names |-> names, length |-> length]
Workspace ==
  [Layered EXCEPT !.components =
     1 :> [PlainComponent EXCEPT !.paths = {Below(<<3>>, {at_x}, 7)}]
     @@ 2 :> [PlainComponent EXCEPT !.paths = {Below(<<3>>, {31}, 6)}]
     @@ 3 :> [PlainComponent EXCEPT !.paths = {Below(<<3>>, {32}, 6)} \cup Under(<<2>>), !.depends_on = 2 :> FALSE]]
MCTemplates ==
  <<[contract |-> Layered, first |-> [n \in 1 .. 3 |-> [dir |-> <<src, n>>, rest |-> "**"]]],
    \* Its third component is there also by a name that roots are not found by.
    [contract |-> Workspace, first |-> <<Below(<<3>>, {at_x}, 7), Below(<<3>>, {31}, 6), Below(<<3>>, {32}, 6)>>]>>

\* Of the directories the names of containers are the longest.
MCStringLength ==
  [d \in UNION {{SubSeq(f.dir, 1, n) : n \in 0 .. Len(f.dir)} :
                 f \in {A1, B1, C1, CX, Elsewhere}} |->
     MapThenSumSet(LAMBDA i : IF d[i] \in MCContainers THEN 9 ELSE 3, DOMAIN d)]

MCJsTs == {A1, A2, B1, B2, C1, C2, Elsewhere}

MCCapabilities == fetch :> "network"
MCFileName == [n \in {<<1>>, <<2>>, <<3>>, <<4>>, <<RootModule>>} \cup ({3} \X {31, 32}) |->
                 IF Len(n) = 1 THEN IF n[1] = 2 THEN 1 ELSE n[1] ELSE 10]

================================================================================
