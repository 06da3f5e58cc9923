------------------------------ MODULE ManifestFix ------------------------------
(***************************************************************************)
(* `ovecc fix` on a package.json.  The manifest is read as lines.          *)
(* Missing dependencies are declared one at a time, each with a write of   *)
(* its own; then the unused ones are removed one after the other in memory *)
(* and written once.  Each edit is kept only if the result still parses.   *)
(* A package is a number, its place in the alphabet.                       *)
(***************************************************************************)
EXTENDS Naturals, SequencesExt, FiniteSets

CONSTANTS
  Sections,      \* the sections of a manifest, "dependencies" among them
  Packages,
  Manifests      \* well-formed manifests, what the file may hold at first

\* A line is [kind, section, keys, comma].  kind: "section" opens a section,
\* "inline" is one on a single line, "entry" is one package, "close" a brace;
\* comma: the line ends with one.
Entry(package, comma) == [kind |-> "entry", section |-> "none", keys |-> {package}, comma |-> comma]

\* An item is followed by a comma, unless a brace closes what it is in.
Parses(m) ==
  \A n \in 1 .. Len(m) - 1 :
    m[n].kind # "section" => (m[n].comma <=> m[n + 1].kind # "close")

IsHeader(line, section) == line.kind \in {"section", "inline"} /\ line.section = section

\* The first of some places, or where to stop if there is none.
First(places, none) == IF places = {} THEN none ELSE Min(places)

section_start(m, section) == First({i \in DOMAIN m : IsHeader(m[i], section)}, Len(m) + 1)
closing_brace(m, from) == First({i \in from .. Len(m) : m[i].kind = "close"}, Len(m) + 1)

Refused == [ok |-> FALSE, manifest |-> <<>>]
Kept(m) == IF Parses(m) THEN [ok |-> TRUE, manifest |-> m] ELSE Refused

--------------------------------------------------------------------------------
(* Removal and insertion of a key. *)

\* Faulty variant: a comma left by the last entry stays.
without_entry_keeping_comma(m, start, key) == RemoveAt(m, key)

\* The entry before a removed last one loses its comma.
without_entry(m, start, key) ==
  IF ~ m[key].comma /\ key > start + 1
  THEN RemoveAt([m EXCEPT ![key - 1].comma = FALSE], key)
  ELSE RemoveAt(m, key)

\* The section ends at the first line that starts with a brace.
remove_manifest_key(m, section, package) ==
  LET start == section_start(m, section)
      end == closing_brace(m, start)
      key == First({i \in start + 1 .. end - 1 : m[i].kind = "entry" /\ m[i].keys = {package}}, end)
  IN IF start > Len(m) \/ key >= end THEN Refused ELSE Kept(without_entry(m, start, key))

\* Before the first entry with a greater key, or at the end.
insertion_point(m, start, end, package) ==
  First({i \in start + 1 .. end - 1 : \E k \in m[i].keys : k > package}, end)

\* A section that is absent, on one line or empty is left to be edited by hand.
insert_manifest_key(m, section, package) ==
  LET start == section_start(m, section)
      end == closing_brace(m, start + 1)
      at == insertion_point(m, start, end, package)
  IN IF \/ start > Len(m) \/ m[start].kind = "inline"
        \/ end > Len(m) \/ end = start + 1
     THEN Refused
     ELSE IF at = end
     THEN Kept(InsertAt([m EXCEPT ![end - 1].comma = TRUE], end, Entry(package, FALSE)))
     ELSE Kept(InsertAt(m, at, Entry(package, TRUE)))

--------------------------------------------------------------------------------
(* What a manifest is at first: a section that is edited and goes over     *)
(* several lines has entries up to its brace, and is there once.           *)

\* The sections that are edited go over several lines each.
Multiline(m) == \A n \in DOMAIN m : m[n].kind = "inline" => m[n].section \notin Sections

ManifestLines ==
  [kind : {"section", "inline", "entry", "close"}, section : Sections \cup {"none", "other"},
   keys : SUBSET Packages, comma : BOOLEAN]
Closes(m, n, last) ==
  n < last /\ m[last].kind = "close" /\ \A i \in n + 1 .. last - 1 : m[i].kind = "entry" /\ \E p \in Packages : m[i].keys = {p}
Sectioned(m) ==
  \A n \in DOMAIN m :
    m[n].kind = "section" /\ m[n].section \in Sections => \E last \in DOMAIN m : Closes(m, n, last)
Distinct(m) ==
  \A n, k \in DOMAIN m :
    /\ m[n].kind = "section" /\ m[k].kind = "section"
    /\ m[n].section \in Sections /\ m[n].section = m[k].section
    => n = k
WellFormed(m) == Parses(m) /\ Sectioned(m) /\ Distinct(m)

ASSUME ManifestAssumption ==
  \A m \in Manifests : m \in Seq(ManifestLines) /\ (Multiline(m) => WellFormed(m))

--------------------------------------------------------------------------------
VARIABLES
  manifest,   \* the file
  unlisted,   \* packages imported and not declared, still to be declared
  unused,     \* <<section, package>> still to be removed
  applied,    \* the option
  base, copy, \* the manifest as last read, and as edited in memory
  reported    \* set of [fix, package, section, status]; "write failed" is a skip

manifestVars == <<manifest, unlisted, unused, applied, base, copy, reported>>

\* The packages of every section, as the index parses them from JSON.
BlockOf(m, n) == {i \in DOMAIN m : n < i /\ i < closing_brace(m, n)}
Keys(m, section) ==
  UNION {IF m[n].kind = "inline" THEN m[n].keys ELSE UNION {m[i].keys : i \in BlockOf(m, n)}
         : n \in {i \in DOMAIN m : IsHeader(m[i], section)}}
Declared(m) == UNION {Keys(m, s) : s \in Sections}

ManifestInit ==
  /\ manifest \in Manifests
  /\ unlisted \in SUBSET (Packages \ Declared(manifest))
  /\ unused \in SUBSET {u \in Sections \X Packages : u[2] \in Keys(manifest, u[1])}
  /\ applied \in BOOLEAN
  /\ base = manifest /\ copy = manifest
  /\ reported = {}

Report(fix, section, package, status) ==
  reported' = reported \cup {[fix |-> fix, section |-> section, package |-> package, status |-> status]}

fixed_or_planned == IF applied THEN "fixed" ELSE "planned"

\* Without a version in a lockfile nothing is declared.
fix_unlisted_dependency ==
  /\ \E p \in unlisted :
       LET edited == insert_manifest_key(manifest, "dependencies", p)
       IN /\ unlisted' = unlisted \ {p}
          /\ \/ /\ Report("declare", "dependencies", p, "skipped")
                /\ UNCHANGED manifest
             \/ /\ edited.ok
                /\ manifest' = IF applied THEN edited.manifest ELSE manifest
                /\ Report("declare", "dependencies", p, fixed_or_planned)
  /\ base' = manifest' /\ copy' = manifest'
  /\ UNCHANGED <<unused, applied>>

\* The removals of one manifest, in the order of the findings.
fix_unused_dependency ==
  /\ unlisted = {}
  /\ \E s \in Sections, p \in Packages :
       LET edited == remove_manifest_key(copy, s, p)
       IN /\ <<s, p>> \in unused
          /\ unused' = unused \ {<<s, p>>}
          /\ copy' = IF applied /\ edited.ok THEN edited.manifest ELSE copy
          /\ Report("remove", s, p, IF edited.ok THEN fixed_or_planned ELSE "skipped")
  /\ UNCHANGED <<manifest, unlisted, applied, base>>

\* One write; if it fails nothing was fixed.
write_manifest ==
  /\ unlisted = {} /\ unused = {} /\ copy # manifest
  /\ \/ manifest' = copy /\ UNCHANGED reported
     \/ /\ UNCHANGED manifest
        /\ reported' = {[r EXCEPT !.status = IF r.fix = "remove" /\ @ = "fixed" THEN "write failed" ELSE @] : r \in reported}
  /\ copy' = manifest'
  /\ UNCHANGED <<unlisted, unused, applied, base>>

ManifestNext == fix_unlisted_dependency \/ fix_unused_dependency \/ write_manifest

ManifestSpec == ManifestInit /\ [][ManifestNext]_manifestVars

--------------------------------------------------------------------------------
(* Properties. *)

\* A section over several lines can lose any set of its entries in any order,
\* the last one among them: the commas never make the edit fail, so a dry run
\* and an applied one agree.
RemovalsSucceed ==
  Multiline(base) => \A r \in reported : r.fix = "remove" => r.status # "skipped"

================================================================================
