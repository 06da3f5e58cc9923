---------------------------------- MODULE Lcov -----------------------------------
(***************************************************************************)
(* The coverage that a trace file reports: a sequence of records, each a   *)
(* tag with what follows it.  A section is about one file, from `SF` to    *)
(* `end_of_record` or the next `SF`; sections about a file are merged.     *)
(***************************************************************************)
EXTENDS Naturals, Sequences, FiniteSets, SequencesExt, FiniteSetsExt

Outside == "outside"          \* a file of another checkout
Nothing == [file |-> Outside, lines |-> {}, functions |-> {}, declared_lines |-> {}, declared_functions |-> {}]

\* <<what, hits>>: the most often it was hit in any run.
Hit(counts, key, hits) ==
  {c \in counts : c[1] # key} \cup {<<key, Max({hits} \cup {c[2] : c \in {x \in counts : x[1] = key}})>>}
or(mine, other) == IF mine # {} THEN mine ELSE other

\* Faulty variant: the last section of a file wins.
merge_last(section, other) == other

merge(section, other) ==
  [section EXCEPT !.lines = FoldSet(LAMBDA c, s : Hit(s, c[1], c[2]), @, other.lines),
                  !.functions = FoldSet(LAMBDA c, s : Hit(s, c[1], c[2]), @, other.functions),
                  !.declared_lines = or(@, other.declared_lines),
                  !.declared_functions = or(@, other.declared_functions)]

Close(w) ==
  IF w.current.file = Outside THEN w
  ELSE LET known == {s \in w.files : s.file = w.current.file}
       IN [w EXCEPT !.current = Nothing,
                    !.files = (@ \ known) \cup {FoldSet(LAMBDA s, x : merge(s, x), w.current, known)}]

\* The part of a pair <<found, hit>> that a total gives.
Declare(declared, part, count) ==
  LET known == IF declared = {} THEN <<0, 0>> ELSE CHOOSE d \in declared : TRUE
  IN {IF part = "found" THEN <<count, known[2]>> ELSE <<known[1], count>>}

Record(w, r) ==
  CASE r.tag = "end_of_record" -> Close(w)
    [] r.tag = "SF" -> [Close(w) EXCEPT !.current = [Nothing EXCEPT !.file = r.key]]
    [] w.current.file = Outside -> w
    [] r.tag = "DA" -> [w EXCEPT !.current.lines = Hit(@, r.key, r.count)]
    [] r.tag = "FN" -> [w EXCEPT !.current.functions = Hit(@, r.key, 0)]
    [] r.tag = "FNDA" -> [w EXCEPT !.current.functions = Hit(@, r.key, r.count)]
    [] r.tag = "LF" -> [w EXCEPT !.current.declared_lines = Declare(@, "found", r.count)]
    [] r.tag = "LH" -> [w EXCEPT !.current.declared_lines = Declare(@, "hit", r.count)]
    [] r.tag = "FNF" -> [w EXCEPT !.current.declared_functions = Declare(@, "found", r.count)]
    [] r.tag = "FNH" -> [w EXCEPT !.current.declared_functions = Declare(@, "hit", r.count)]
    [] OTHER -> w

\* What is counted, or what the file says if it has no detail.
Totals(counts, declared) ==
  IF counts = {} /\ declared # {} THEN CHOOSE d \in declared : TRUE
  ELSE <<Cardinality(counts), Cardinality({c \in counts : c[2] > 0})>>

parse_lcov(records) ==
  LET w == Close(FoldLeft(Record, [current |-> Nothing, files |-> {}], records))
  IN {[path |-> s.file, lines |-> Totals(s.lines, s.declared_lines),
       functions |-> Totals(s.functions, s.declared_functions)] : s \in w.files}

================================================================================
