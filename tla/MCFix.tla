--------------------------------- MODULE MCFix ---------------------------------
(***************************************************************************)
(* Files of up to MaxLen lines from a small vocabulary, where u is used    *)
(* elsewhere, or manifests of up to two sections, in both orders, each on  *)
(* one line or over several.                                               *)
(***************************************************************************)
EXTENDS Fix, ManifestFix

CONSTANTS a, b, u, MaxLen, MaxPackage, Forms

Stmt(form, names, bad) == [form |-> form, names |-> names, bad |-> bad]
Row(before, mark, after) == [before |-> before, mark |-> mark, after |-> after]
Plain == Stmt("plain", {}, FALSE)
Bad == Stmt("plain", {}, TRUE)

Code == {Row(Plain, "none", Nothing), Row(Bad, "none", Nothing)}
Comments == {Row(Plain, "ignore", Nothing), Row(Bad, "ignore", Nothing),
             Row(Nothing, "next", Nothing), Row(Plain, "next", Nothing),
             Row(Plain, "tight", Nothing)}
Exports == {Row(Stmt("decl", {a}, FALSE), "none", Nothing),
            Row(Stmt("decl", {a, u}, FALSE), "none", Nothing),
            Row(Stmt("decl", {a, b}, FALSE), "none", Nothing),
            Row(Stmt("list", {a}, FALSE), "none", Nothing),
            Row(Stmt("list", {b}, FALSE), "ignore", Nothing),
            Row(Stmt("list", {b}, FALSE), "none", Nothing),
            Row(Stmt("list", {b, u}, FALSE), "none", Nothing),
            Row(Stmt("manual", {b}, FALSE), "none", Nothing)}
Blocks == {Row(Nothing, "block", Nothing), Row(Nothing, "block", Plain)}

MCContents ==
  UNION {[1 .. n -> (Code \cup Comments \cup Exports \cup Blocks)] : n \in 1 .. MaxLen}
MCNames == {a, b, u}
MCUsed == {u}

--------------------------------------------------------------------------------
MCPackages == 1 .. MaxPackage
MCSections == {"dependencies", "devDependencies"}

Orders == UNION {{s \in [1 .. n -> MCPackages] : IsInjective(s)} : n \in 0 .. MaxPackage}

Item(kind, section, keys, comma) == [kind |-> kind, section |-> section, keys |-> keys, comma |-> comma]
Brace(comma) == Item("close", "none", {}, comma)
MultiLine(section, keys, comma) ==
  <<Item("section", section, {}, FALSE)>>
  \o [i \in DOMAIN keys |-> Item("entry", "none", {keys[i]}, i < Len(keys))] \o <<Brace(comma)>>
OneLine(section, keys, comma) == <<Item("inline", section, Range(keys), comma)>>

Written(section, comma) ==
  (IF "multi" \in Forms THEN {MultiLine(section, keys, comma) : keys \in Orders} ELSE {})
  \cup (IF "inline" \in Forms THEN {OneLine(section, keys, comma) : keys \in Orders} ELSE {})

\* A manifest of two sections has a name; the last line closes the manifest itself.
NameLine == OneLine("other", <<>>, TRUE)
MCManifests ==
  {block \o <<Brace(FALSE)>> : block \in UNION {Written(s, FALSE) : s \in MCSections}}
  \cup UNION {{NameLine \o first \o second \o <<Brace(FALSE)>> :
                 first \in Written(s, TRUE), second \in Written(t, FALSE)}
              : <<s, t>> \in {p \in MCSections \X MCSections : p[1] # p[2]}}

\* A repository of source files, or one of manifests.
MCInit ==
  \/ /\ Init
     /\ manifest = <<>> /\ unlisted = {} /\ unused = {} /\ applied = FALSE
     /\ base = <<>> /\ copy = <<>> /\ reported = {}
  \/ /\ ManifestInit
     /\ disk = [f \in Files |-> Missing]
     /\ findings = {} /\ indexed = disk /\ edited = {}
     /\ run = NotRunning /\ open = Closed /\ report = {} /\ edits = 0

MCNext ==
  \/ Next /\ UNCHANGED manifestVars
  \/ ManifestNext /\ UNCHANGED vars

MCSpec == MCInit /\ [][MCNext]_<<vars, manifestVars>>

================================================================================
