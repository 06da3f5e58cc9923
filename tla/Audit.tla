--------------------------------- MODULE Audit -----------------------------------
(***************************************************************************)
(* The audit of the packages of the lock file against the advisories on    *)
(* disk.  Versions are numbers in their order and Unparsable those that    *)
(* are none; an event of a range says from which version a package is      *)
(* affected (`introduced`, 0 from the first one on), from which it no      *)
(* longer is (`fixed`) or which is the last one (`last_affected`).         *)
(***************************************************************************)
EXTENDS Naturals, Sequences, FiniteSets, SequencesExt, FiniteSetsExt, Sets

Unparsable == 99
NoVersion == 100      \* of a linked package

\* A key of the lock file is a folder and the way to a package that is installed below it;
\* that of a folder itself has none.  Only the folder of the repository is read.
Npm == "npm"
RootFolder == ""
parse_npm_lockfile(lock) ==
  {[ecosystem |-> Npm, name |-> Last(k.path), version |-> k.version, is_direct |-> Len(k.path) = 1] :
   k \in {x \in lock : x.folder = RootFolder /\ x.path # <<>> /\ x.version # NoVersion}}

event_rank(event) == IF event.kind = "introduced" THEN 0 ELSE 1

\* Faulty variant: the events are applied in the order of the advisory.
InOrder_listed(events) == events

\* By version, and what is introduced there first; those without a version come last.
InOrder(events) ==
  LET before(i, j) == \/ events[i].version < events[j].version
                      \/ events[i].version = events[j].version /\ event_rank(events[i]) < event_rank(events[j])
                      \/ events[i].version = events[j].version /\ event_rank(events[i]) = event_rank(events[j]) /\ i < j
      order == Sorted(DOMAIN events, before)
  IN [k \in DOMAIN order |-> events[order[k]]]

version_in_semver_range(version, range) ==
  LET apply(affected, event) ==
        IF event.version = Unparsable THEN affected
        ELSE CASE event.kind = "introduced" /\ version >= event.version -> TRUE
               [] event.kind = "fixed" /\ version >= event.version -> FALSE
               [] event.kind = "last_affected" /\ version > event.version -> FALSE
               [] OTHER -> affected
  IN range.type = "SEMVER" /\ FoldLeft(apply, FALSE, InOrder(range.events))

\* By its list of versions or by a range; a version that is none is in no range.
is_affected(version, affected) ==
  \/ version \in affected.versions
  \/ version # Unparsable /\ \E range \in affected.ranges : version_in_semver_range(version, range)

Concerns(affected, package) == affected.ecosystem = package.ecosystem /\ affected.package = package.name

\* One finding for each package and advisory.
audit(packages, osv) ==
  {[package |-> x[1], advisory |-> x[2].id] : x \in
     {y \in packages \X osv : \E affected \in y[2].affected : /\ Concerns(affected, y[1])
                                                             /\ is_affected(y[1].version, affected)}}

--------------------------------------------------------------------------------
(* Reference: the versions in a range. *)

Introduces(event, version) ==
  event.version # Unparsable /\ event.kind = "introduced" /\ version >= event.version
Ended(event, version) ==
  /\ event.version # Unparsable
  /\ \/ event.kind = "fixed" /\ version >= event.version
     \/ event.kind = "last_affected" /\ version > event.version

\* Something was introduced up to the version, and nothing since then has ended it.
InRange(version, range) ==
  /\ range.type = "SEMVER"
  /\ \E i \in DOMAIN range.events :
       /\ Introduces(range.events[i], version)
       /\ \A j \in DOMAIN range.events :
            Ended(range.events[j], version) => range.events[j].version < range.events[i].version

Affects(affected, version) ==
  \/ version \in affected.versions
  \/ version # Unparsable /\ \E range \in affected.ranges : InRange(version, range)

\* A package is reported for an advisory exactly if its version is listed or in a range.
AuditIsExact(packages, osv) ==
  audit(packages, osv) =
    {[package |-> x[1], advisory |-> x[2].id] : x \in
       {y \in packages \X osv : \E affected \in y[2].affected : /\ Concerns(affected, y[1])
                                                               /\ Affects(affected, y[1].version)}}

================================================================================
