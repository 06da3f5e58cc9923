-------------------------------- MODULE Clones ---------------------------------
(***************************************************************************)
(* Families of duplicated code: runs of at least MinTokens tokens that are *)
(* the same in several places.  `files` is the sequence of the files by    *)
(* their paths, each the sequence of its tokens with their lines; a place  *)
(* is a file and the index of a token, and windows of MinTokens tokens are *)
(* compared as they are (their fingerprints do not collide).               *)
(***************************************************************************)
EXTENDS Naturals, Sequences, FiniteSets, SequencesExt, FiniteSetsExt, Sets

CONSTANTS MinTokens, MinLines, CrossFileOnly
ASSUME WindowsAreNotEmpty == MinTokens \in Nat \ {0} /\ MinLines \in Nat /\ CrossFileOnly \in BOOLEAN

Place(file, pos) == [file |-> file, pos |-> pos]
Precedes(a, b) == a.file < b.file \/ (a.file = b.file /\ a.pos < b.pos)
In_order(places) == Sorted(places, Precedes)
Files(places) == {p.file : p \in places}

\* The places where a window starts.
window_fingerprints(files) ==
  UNION {{Place(f, pos) : pos \in {p \in DOMAIN files[f] : p + MinTokens - 1 <= Len(files[f])}} : f \in DOMAIN files}
Window(files, p) == [k \in 1 .. MinTokens |-> files[p.file][p.pos + k - 1].token]
index_windows(files, p) == {q \in window_fingerprints(files) : Window(files, q) = Window(files, p)}

\* Faulty variant: in the order of the files.
rank_seeds_by_file(files) == In_order(window_fingerprints(files))

\* What most files share comes first, then in the order of the files.
rank_seeds(files) ==
  LET reach == [p \in window_fingerprints(files) |-> Cardinality(Files(index_windows(files, p)))]
  IN Sorted(DOMAIN reach, LAMBDA a, b : reach[a] > reach[b] \/ (reach[a] = reach[b] /\ Precedes(a, b)))

spans_two_files(members) == Cardinality(Files(members)) >= 2

\* How many windows follow on each other in the same way at every member.
maximal_run(files, members) ==
  LET moved(k) == {Place(m.file, m.pos + k) : m \in members}
      shared(w) == \A k \in 0 .. w - 1 : /\ moved(k) \subseteq window_fingerprints(files)
                                        /\ Cardinality({Window(files, p) : p \in moved(k)}) = 1
      longest == Max({Len(files[f]) : f \in DOMAIN files})
  IN Max({w \in 1 .. longest : shared(w)})

Instance(files, p, tokens) ==
  [file |-> p.file, pos |-> p.pos, start_line |-> files[p.file][p.pos].line,
   end_line |-> files[p.file][p.pos + tokens - 1].line, tokens |-> tokens]

\* Faulty variant: copies that overlap are kept.
Disjoint_all(instances) == instances

\* Of copies that overlap, the first.
Disjoint(instances) ==
  FoldLeft(LAMBDA kept, i : IF kept # <<>> /\ Last(kept).file = i.file /\ i.start_line <= Last(kept).end_line THEN kept
                            ELSE Append(kept, i),
           <<>>, instances)

\* The copies that are long enough.
build_instances(files, members, tokens) ==
  LET all == [k \in 1 .. Cardinality(members) |-> Instance(files, In_order(members)[k], tokens)]
  IN Disjoint(SelectSeq(all, LAMBDA i : i.end_line - i.start_line + 1 >= MinLines))

\* From one seed: its family, and the windows that no other family starts with.
Family(files, w, seed) ==
  LET members == index_windows(files, seed) \ w.consumed
      windows == maximal_run(files, members)
      tokens == windows - 1 + MinTokens
      instances == build_instances(files, members, tokens)
      covered == {Place(m.file, m.pos + k) : m \in members, k \in 0 .. windows - 1}
  IN IF seed \in w.consumed \/ Cardinality(members) < 2 \/ (CrossFileOnly /\ ~spans_two_files(members)) THEN w
     ELSE [consumed |-> w.consumed \cup covered,
           families |-> IF Len(instances) < 2 \/ (CrossFileOnly /\ ~spans_two_files(Range(instances))) THEN w.families
                        ELSE w.families \cup {[tokens |-> tokens, instances |-> instances]}]

detect(files) ==
  FoldLeft(LAMBDA w, seed : Family(files, w, seed), [consumed |-> {}, families |-> {}], rank_seeds(files)).families

--------------------------------------------------------------------------------
(* What a repository mostly does, and who does otherwise: in which         *)
(* direction files of two roles depend on each other, and files of which   *)
(* role use the database.  A file is its role and a number; shares are     *)
(* percentages.                                                            *)

NoRole == "none"
Roles == <<"controller", "service", "repository">>   \* some of those of the code, in its order
role_of(file) == file.role
RoleLess(a, b) == \E i, j \in DOMAIN Roles : Roles[i] = a /\ Roles[j] = b /\ i < j

REPORT_THRESHOLD == 70
VIOLATION_THRESHOLD == 85
MIN_EXAMPLES == 3

severity_for(matching, total) == IF matching * 100 > VIOLATION_THRESHOLD * total THEN "violation" ELSE "warning"
Convention(kind, roles, matching, total) == [kind |-> kind, roles |-> roles, matching |-> matching, total |-> total]
Deviation(example, severity) == [example |-> example, severity |-> severity]
Reportable(matching, total) == total >= MIN_EXAMPLES /\ matching * 100 >= REPORT_THRESHOLD * total

\* The dependencies from files of one role to files of another.
examples(dependencies, a, b) == {d \in dependencies : role_of(d.source) = a /\ role_of(d.target) = b}

learn_dependency_direction(dependencies) ==
  LET roles == {Roles[k] : k \in DOMAIN Roles}
      count(p) == Cardinality(examples(dependencies, p[1], p[2]))
      back(p) == <<p[2], p[1]>>
      dominant == {p \in roles \X roles : /\ p[1] # p[2] /\ count(p) > 0
                                          /\ (count(p) > count(back(p)) \/ (count(p) = count(back(p)) /\ RoleLess(p[1], p[2])))
                                          /\ Reportable(count(p), count(p) + count(back(p)))}
  IN [conventions |-> {Convention("dependency_direction", p, count(p), count(p) + count(back(p))) : p \in dominant},
      deviations  |-> UNION {{Deviation(<<d.source, d.target>>, severity_for(count(p), count(p) + count(back(p)))) :
                              d \in examples(dependencies, p[2], p[1])} : p \in dominant}]

\* One of the roles with the most files; the code takes any.  Files without a role count too.
learn_database_access(files, dominant) ==
  LET of(role) == {f \in files : role_of(f) = role}
      total == Cardinality(files)
      matching == Cardinality(of(dominant))
  IN IF ~Reportable(matching, total) THEN [conventions |-> {}, deviations |-> {}]
     ELSE [conventions |-> {Convention("database_access", <<dominant>>, matching, total)},
           deviations  |-> {Deviation(<<f>>, severity_for(matching, total)) :
                            f \in {x \in files : role_of(x) \notin {dominant, NoRole}}}]
Dominant(files) ==
  LET count(role) == Cardinality({f \in files : role_of(f) = role})
      present == {role_of(f) : f \in files} \ {NoRole}
  IN {r \in present : \A s \in present : count(s) <= count(r)}

================================================================================
