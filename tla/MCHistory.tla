-------------------------------- MODULE MCHistory --------------------------------
(***************************************************************************)
(* Five paths in four directories, two commits to start with, one of them  *)
(* too large to count for co-changes, and an empty database or one that an *)
(* older version left: with a commit that is not classified, and whose     *)
(* changes were dropped.                                                   *)
(***************************************************************************)
EXTENDS History

MCPaths == {11, 12, 21, 31, 41}
MCFix == [type |-> "none", words |-> <<"correction", "other", "defect">>]
MCTypo == [type |-> "none", words |-> <<"correction", "housekeeping", "other">>]
MCMessages == {MCFix, MCTypo}

MCFirstLog ==
  LET Touched(paths) == {Change(p, NoPath, <<1, p>>) : p \in paths}
  IN <<CommitAt(1, Touched({11, 21}), MCFix), CommitAt(2, Touched({11, 21, 41}), MCTypo)>>

EmptyDb == [commits |-> <<>>, changes |-> {}, co_changes |-> {}]
OldDb == [EmptyDb EXCEPT !.commits = (1 :> [at |-> 1, message |-> MCFix, fix |-> Unclassified])]
MCFirstDbs == {EmptyDb, OldDb}

--------------------------------------------------------------------------------
(* What is measured once the newest commit is indexed.  A path is number   *)
(* 10d + n of directory d, which is also its component and its module.     *)

ComponentOf == [p \in DOMAIN files |-> p \div 10]
Facts == ChangeFacts(db, ComponentOf, ComponentOf, <<>>)

ShapesAgree(c, facts, history) ==
  LET report == build_change_shape([p \in {d.path : d \in c.changes} |-> 1], TRUE, facts, history)
      row == CHOOSE r \in history : r.sha = c.sha
      rank == rank_change(row.shape, history)
  IN /\ report.files = row.shape.files /\ report.rank.files = rank.files
     /\ report.components = {row.shape.components} /\ report.rank.components = rank.components
     /\ facts.fix_mass # <<>> =>
          report.fix_mass_share = {row.shape.fix_mass_share} /\ report.rank.fix_mass_share = rank.fix_mass_share

\* No measured value is below another and ranked above it; the largest is at the top.
Ordered(history) ==
  LET ranks == {[shape |-> r.shape, rank |-> rank_change(r.shape, history)] : r \in history}
      value(share) == CHOOSE v \in share : TRUE
      over(share, other) == other[1] * share[2] <= share[1] * other[2]
      orders(at_least(_, _), rank(_)) ==
        \A x \in ranks :
          /\ (\A y \in ranks : at_least(x.shape, y.shape)) => value(rank(x))[1] = value(rank(x))[2]
          /\ \A y \in ranks : at_least(x.shape, y.shape) => over(value(rank(x)), value(rank(y)))
  IN /\ orders(LAMBDA s, t : s.files >= t.files, LAMBDA x : x.rank.files)
     /\ orders(LAMBDA s, t : s.components >= t.components, LAMBDA x : x.rank.components)
     /\ orders(LAMBDA s, t : over(s.fix_mass_share, t.fix_mass_share), LAMBDA x : x.rank.fix_mass_share)

MeasuresOf ==
  LET touches == {t \in Touches(db) : t[2] \in DOMAIN files}
      churn(m) == Cardinality({t[1] : t \in {u \in touches : u[2] \div 10 = m}})
      size(m) == Cardinality({p \in DOMAIN files : p \div 10 = m})
  IN [m \in Range(ComponentOf) |->
        [churn |-> churn(m), coupling |-> 1, complexity |-> 2 * size(m), fan_in |-> IF m = 4 THEN 2 ELSE 0,
         fan_out |-> IF m = 4 THEN 0 ELSE 1, fragmentation |-> size(m), violations |-> 0]]

\* A module that is worse in one measure and better in none is listed before.
WorseFirst(measures, limit) ==
  LET listed == compute_hotspots(measures, limit)
      worse(m, n) == /\ \A k \in DOMAIN Weights : measures[m][k] >= measures[n][k]
                     /\ \E k \in DOMAIN Weights : measures[m][k] > measures[n][k]
  IN \A i \in DOMAIN listed : \A m \in DOMAIN measures :
       worse(m, listed[i]) => m \in Range(SubSeq(listed, 1, i - 1))

\* A commit under review is measured and ranked as the history has it, a larger change never
\* ranks lower, and the debt ranking agrees with its measures.
RanksFollowMeasures ==
  Fresh =>
    LET facts == Facts
        history == history_shapes(db, facts)
        c == Last(log)
    IN /\ {d.path : d \in c.changes} \subseteq DOMAIN files => ShapesAgree(c, facts, history)
       /\ facts.fix_mass # <<>> => Ordered(history)
       /\ WorseFirst(MeasuresOf, 3)

--------------------------------------------------------------------------------

FileOf(p) == [dir |-> <<p \div 10>>, name |-> p % 10]
Core == 41
MCFileAt == [p \in MCPaths |-> FileOf(p)]
MCMeasuresAt == [p \in MCPaths |-> [complexity |-> 5, abstract |-> 0, total |-> IF p = Core THEN 2 ELSE 0]]

\* All import the file of the core.
MCImportsAmong(paths) ==
  LET row(p) == [source |-> p \div 10, target |-> 4, kind |-> "import", external |-> FALSE,
                 from |-> FileOf(p), to |-> FileOf(Core), line |-> 1]
      importers == IF Core \in paths THEN Sorted(paths \ {Core}, <) ELSE <<>>
  IN [i \in DOMAIN importers |-> row(importers[i])]

MCConfig ==
  [component_depth |-> 0, exclude_names |-> {}, exclude_dirs |-> {}, component_roots |-> {},
   hub_percentile |-> 90, unstable_doud |-> 30, evolutionary_min_history |-> 5,
   zone_min_types |-> 2, zone_distance |-> 70, god_percentile |-> 90, god_min_files |-> 2,
   dense_min_components |-> 3, dense_medium |-> 20, dense_high |-> 40,
   hotspot_min_churn |-> 2, hotspot_min_complexity |-> 5, hotspot_limit |-> 3,
   change_coupling_min |-> 2, min_confidence |-> 56]

================================================================================
