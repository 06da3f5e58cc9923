# A TLA+ model of Ovecc

Ovecc is a code-intelligence tool: `ovecc index` extracts files, modules,
dependencies, symbols and calls from a repository into a DuckDB database, and
the other commands (architecture, review, gate, diagnose, blast, fix, ...)
answer from that database.  This directory holds TLA+ modules of it, TLC
configurations that check them on small instances, and proofs, checked by
TLAPS, of what holds for every instance.  `PROJECT.json` maps every definition
to the source lines it translates and lists the hazards of the code, each at
the line where it bites and with the properties that would notice.

## 1. Inventory

Everything is a Rust workspace under `crates/`.

| component | state it keeps | operations | hard behaviour | what makes it correct |
|---|---|---|---|---|
| `ovecc-core`: contract, coverage | a baseline of accepted debt, one file per component | load and validate a contract, assign components, freeze, ratchet; parse a tracefile | files are rewritten one by one, and the contract and the index move meanwhile | a gate passes only what was accepted; the baseline only shrinks |
| `ovecc-core`: facts, ids, configuration | none | `stable_id`, configuration | none of its own | ids are injective in their parts |
| `ovecc-parser` | a stack of open scopes, for one file | one adapter per language: contents to facts | scopes pushed and popped by hand; facts depend on the path | each fact belongs to the scope around it |
| `ovecc-indexer`, discovery and parsing | the parse cache, a directory of entries by content hash | discover, `process_file`, `ParseCache::load/store` | worker threads without locks; files edited while read; failed writes and renames; crashes | no torn entry published; facts filed under their own content; every parsed content cached |
| `ovecc-indexer`, resolution | none | `resolve_dependencies`, `resolve_facts` | rows of the previous run feed the next (`retained_imports`); imports matched by the ends of paths | deterministic; parse failures keep earlier imports; no import moves between unrelated files |
| `ovecc-indexer`, the run | a phase and what it has read | `index_repository` | separate transactions; tree, history and tracefile move meanwhile; stops between any two | tables agree; a re-run repairs the rest |
| `ovecc-db`, sync | rows, graph and snapshot tables | `sync_current_index` | a differential update whose deletes recompute edge ids from persisted columns | the graph mirrors the rows; equal to a rebuild |
| `ovecc-db`, history | commits, changes, co-changes | `upsert_git_facts`, `set_fix_classification`, `replace_*`, queries over renames | commits amended, files renamed, runs interrupted, versions of the classifier | counts follow the file, verdicts stay |
| `ovecc-db`, migrations | `ovecc_schema`, one row per applied version | `migrate_to_latest` | a stop between two migrations | each applied once, in order |
| `ovecc-graph` | none | cycles, impact, blast radius, clusters (ACDC), diagnosis, clones, conventions | depth and count limits; order of the input | equal to definitions over paths, within the limits |
| `ovecc-rules` | none | dead code, boundary rules, smells | reachability through re-exports, files that do not parse | what is reported unused may be removed |
| `ovecc-dataflow` | none | taint search | a function reached twice, before and after a request is read | exactly the flows within the bound |
| `ovecc-audit` | advisories on disk | lockfile inventory, version matching | ends of ranges, events in any order | half-open ranges |
| `ovecc-git` | none | history walk, fix classifier | window and count limits | every commit once |
| `ovecc-cli`, `fix` | the files it edits | `fix --apply` | stale findings against edited files; partial failure of a batch of edits | re-verify before writing; report what is on the disk |
| `ovecc-cli`, `review` and `gate` | none (compares two snapshots) | `build_review_report`, `build_gate_report` | lines move, snapshots of an uncommitted tree | what a change introduced is charged, what it moved is not |
| `ovecc-cli`, `mcp` and the rest; `ovecc-ai`, `xtask`, `npm/`, `docs/`, fixtures | none | requests, rendering, prompt text, packaging | none | not modelled |

The components meet at two places.  The *database*: a run of the indexer writes
it, every other command reads it; DuckDB locks the file for the process that
has it open, so a reader never sees the inside of a run, only what a finished
or stopped run left.  The *working tree*: the indexer reads it over several
seconds while editors and git change it, and `fix` writes it.  There are no
callbacks; the only threads are rayon's, in parsing.

## 2. The modules

| module | stands for | role |
|---|---|---|
| `IndexSync` | `sync_current_index` (`sync.rs`, `code_facts.rs`) | one atomic action for each committed transaction |
| `IndexContract` | what the index promises | abstract specification: every run rebuilds from nothing |
| `Extraction` | what a run extracts from a tree, under which ids | pure operators |
| `Reindex` | `Extraction` and `IndexSync` composed over an edited tree | edits and runs alternate |
| `IndexRun` | `index_repository` | the steps of a run, with the world moving and the process stopping |
| `ParseCache` | `process_file` and `ParseCache` | worker threads sharing the cache directory |
| `Imports` | which files are indexed, under which module; where an import leads | pure operators |
| `SyntaxTree` | the trees that tree-sitter and oxc hand out | external |
| `GenericAdapter`, `TypeScript`, `Oxc` | the three walks of `ovecc-parser` | pure operators, one fold over a tree |
| `Fix`, `ManifestFix` | `fix` on source files, on a `package.json` | reads, edits in memory and writes, over findings of an older file |
| `Rules`, `Findings` | dead code, rules, smells; `index_repository` from facts to the table of findings | pure operators; index runs, edits and fixes by the findings |
| `ModuleGraph` | couplings, impact, loops, blast radius | pure operators |
| `Cycles` | the report of cycles, with Tarjan's algorithm | one action for each turn of its loop |
| `Acdc`, `Diagnose` | recovered subsystems, named smells of components | pure operators |
| `Contract` | the architecture contract, its rules and templates | pure operators |
| `ArchitectureCheck` | `architecture init`, `check`, `check --freeze`, `diff` and the baseline | commands that write file by file, and may stop |
| `GitHistory`, `History` | ingestion, classification, co-changes, the shape of a change; an index kept of a moving branch | pure operators; commits, renames, amends, interrupted runs |
| `Review` | snapshots, `review`, `gate` | edits, commits and index runs, any answer of git |
| `TaintFlow`, `Clones`, `Audit`, `Lcov` | taint search; duplicates and conventions; advisories; tracefiles | pure operators |
| `Sets` | table operations (`existing_ids`, appenders that skip known ids, deletes by id), sorting, closure | helpers |
| `*_proofs` (`IndexSync`, `IndexRun`, `ParseCache`, `Fix`, `ArchitectureReview`, `Closure`, `Findings`, `GraphHistory`) | | theorems |
| `MCReindex`, `MCParseCache`, `MCFix`, `MCGraph`, `MCArchitecture`, `MCFindings`, `MCHistory`, `MCReview`, `MCAnalyses` | | instances for TLC |

The modules that are pure operators are used where their input changes: an
analysis of the graph in `MCGraph`, dead code in `Findings`, and the searches
that read one thing and answer in `MCAnalyses`, whose only behaviour is that an
input grows node by node along a grammar, or fact by fact.

### The index: IndexSync, IndexContract, Extraction, Reindex

Each variable is a table; a row is a record of the columns that later runs read
or that edges are derived from.  An id in the code is a SHA-256 over the
NUL-separated parts that identify the row (`stable_id`), so it is modelled as
the tuple of those parts: equal exactly when the parts are equal, and with the
kind of row as its first part.  What is *not* in an id matters as much as what
is: a dependency's id leaves out the source module and the target file, a
call's id leaves out the callee, a symbol's id holds its line.

`sync_current_index(x)` takes an extraction `x` and does what the transaction
does: `compute_index_delta` is `files_to_add` ... `dependencies_to_remove`;
`apply_index_deletes` and `delete_stale_code_facts` are the `deleted_*`
operators; the appenders are `appended_nodes` and `appended_edges`, which skip
ids seen before in the batch exactly where the code does.  A primary-key
conflict makes the transaction fail as a whole; `KeyConflict` states when, so
it is a guard.  That the guard never stops a run is proved: `NeverPoisoned` for
any extraction, `CanAlwaysCommit` for what the code extracts.  Timestamps are the number of the sync.

`IndexContract` has no diff: `Rebuild(x)` sets the tables to what `x` says.
`ImplementsContract` says that `IndexSync` implements it under the mapping that
projects dependencies, calls, APIs and schema objects to their ids.  The
projection is the honest part: the full rows are *not* those of a rebuild.

A file's content in `Extraction` is a record of what resolution looks at:
whether it parses, the line of its one function, and what it imports, calls,
registers and reads.  `Reindex` starts every run from an arbitrary tree and
feeds the persisted dependency rows back as `previous`, the one loop of the
program that persists from run to run.

### The run: IndexRun, ParseCache, History

`IndexRun` abstracts a table to the version of the tree (or number of commits)
it was computed from.  One action for each read and each transaction, in program
order: contract, code, manifests, tracefile, lockfiles, the manifests again, and
the tracked files that are not indexed.  The findings of a run are the record of
these reads (`run.read`), which may be of seven different trees.  The tree and the
history may change before every step, and `Stop` ends the process between any two.

In `ParseCache` every worker has a program counter over the calls of
`process_file` and `ParseCache::store`: read, load, parse, create the temporary
file, fill it, rename it, and where that fails, remove the entry and rename
again.  A rename over an existing file may replace it or fail, which covers the
platforms the comment in the code distinguishes.  `Crash` loses the run and may
tear any entry, since nothing is flushed.  An adapter's result is the pair of
the content and of what it takes from the path (`Kind`).

`History` is the run again, seen from git: a branch on which files are edited,
created, renamed and deleted and commits amended, and runs that parse, ingest,
sync and count co-changes, with an interruption between the last three.  A
change of the log remembers which file it touched, whatever its name was; the
code never sees that, the properties compare with it.  A file is known by when
and where it was created (`<<day, path>>`).  The first log is a branch of plain
commits (`FirstHistory`), and the first databases have ingested nothing of it
(`FirstDatabases`).  What is compared with the file is premised on histories that
the code can follow: no run is interrupted, no path was reused, no file was
renamed more often than `MaxRenames` (`Settled`) or came back to a name
(`Returned`).
`GitHistory` has the
classifier of fixes (words by their class, verdicts in tenths), the recursive
view of renames, and the ranks of a change.  `History` also extends `Diagnose`:
what `diagnose` reads is the index, its churn and its co-changes
(`InputOfDiagnosis`), over code that the constants `FileAt`, `MeasuresAt` and
`ImportsAmong` give.

### Facts: SyntaxTree, GenericAdapter, TypeScript, Oxc, Imports

A tree is the sequence of its nodes in preorder, a node on a line of its own,
with the kind, field, name, receiver and form that the walks look at.  Each walk
is a fold over the nodes with the state of the code: the stack of open scopes,
the names of the enclosing types and functions, the name that waits for a
function (`pending_name`), and the facts so far.  Tables of names (capability
modules, dangerous calls) are represented by some of each class.

In `Imports` a path is the sequence of its segments and an extension.  It has
the walk over the tree with its filters (`discover_source_files`), the module of
a directory and the depth that is suggested for one, the candidate list of each
language in its order, the suffix index with its rules of ambiguity, and the
crates and packages of a workspace as the manifests name them, searched to
`MaxDepth`.  The oxc resolver is a library: of a relative path it probes what
`Probes` lists, for the rest its answer is an input.

### Findings and fixes: Rules, Findings, Fix, ManifestFix

A tree is a set of statements; `Rules` has what is found in them, `Findings` the
pipeline: all analyses, then less weight in tests, then suppressions, then one
row for each id, and `fix_*` steps that edit the tree by those rows.

`Fix` is about what happens to one file.  A line is the statement before its
comment, the comment when it is an `ovecc-ignore` directive, and the statement
behind it.  `Index` computes the findings of a content, `Edit` moves lines
afterwards, also while a fix is under way.  `Begin` chooses the options;
`fix_unused_file`, then `fix_unused_exports`, then `fix_stale_suppressions`
take the groups; a group is one read, one `edit_lines` for each finding from
the bottom up, one `write_file`, which may fail and leave the old file or a
prefix of the new one.

`ManifestFix` keeps of a manifest the lines the code tells apart: the header of
a section, an entry, a closing brace, a section on one line, each with its
comma.  `Parses` is what `serde_json` checks of these.  A search for a line, as
the code's loops do it, is the `First` of the places where it may be.  The
lockfile and the search for the nearest manifest are a choice: a version is
found or not.

### The graph: ModuleGraph, Cycles, Acdc, Diagnose

Names are numbers, so that they have the order the code sorts by.  `Cycles` is
Tarjan's algorithm as written, with its frames `[node, pos]`; the enumeration
of elementary cycles by length, its two limits, the rotation to the smallest
name and the choice of witnesses follow.  Its blast radius reads the persisted
graph, which never changes and is a constant (`graph_nodes`, `graph_edges`); the
queue holds paths, and `MaxPaths` cuts the answer only: impact keeps the paths found
first, blast radius those whose labels sort first.  `Acdc` has the support library, the
skeleton by dominators and the adoption of orphans; `Diagnose` the smells with
their thresholds, shares in percent.

### Architecture: Contract, ArchitectureCheck

A glob is a directory with what may follow: anything, or a name at any depth below
it (`libs/**/feature/**`), and weighs as many names and letters as the code counts.
Roots are ranked by the length of their text (`string_length`).
A contract is a record of every rule the code knows; `classify_edges` gives the
verdicts over imports, capabilities, complexity, co-changes and coverage,
`contract_findings` what is reported of them under a mode and a baseline, and
`contract_view` what `architecture show` tells about a file.
`ArchitectureCheck` lets people edit the contract and index other code between
commands.  A command computes what the baseline should become, removes the
files that are not to stay, writes the others in the order of their names, and
reports; `Stop` may leave a file empty.  The owner of an entry decides its file,
and two owners may share one (`baseline_file_name`).  `accepted` is a history
variable: the violations that a freeze took and every completed check found.

### Review

A file is a sequence of lines: comments, branches, secrets, headers of functions,
and imports.  `index` takes a snapshot: the findings with their identities (their
rank in the group of one rule, severity, file and function), the imports, the
metrics that the gate compares (`REGRESSION_METRICS`) and the loops.
`attested_change_ranges` gives *each* set of lines that git may call changed (any
longest common subsequence), so that the properties hold whichever diff algorithm
answers; where only comments differ there is nothing to report (`Attested`).  A
review has, beside what is new, the copies of code that were added, the drift of
the metrics, and the risk that follows from all of it.

### Searches: TaintFlow, Clones, Audit, Lcov

Each is the function that the code calls, over facts that `MCAnalyses` lets grow.
In `TaintFlow` a visit is a pair of a symbol and of whether the input of a request
came with it (`<<node, carried>>`); the queue holds the ways to them.

## 3. Runs

| run | checks | bounds |
|---|---|---|
| `reindex` | `GraphMirrorsRows` `EdgesResolve` `CanAlwaysCommit` `ImplementsContract` `NoOpWhenUnchanged` `ParseFailureRetains` | 2 files, two layouts of modules, 3 runs, unlimited edits |
| `index_run` | `StoreAgrees` `Converges` | 2 edits, 1 commit, 1 stop |
| `parse_cache` | `EntriesAreSound` `CachedAfterRun` | 2 workers, 3 files, 2 contents, 1 crash |
| `parse_cache_path` (violated) | `PathIndependent` | the same |
| `fix` | `FixedIsGone` `FreshIsNotSkipped` `RemovalsSucceed` `ReportsWhatIsOnDisk` | a file of up to 2 lines out of 17, 1 edit, any number of runs; manifests of up to 2 sections, in both forms and orders, behind a line that is neither, and 3 packages |
| `graph` | `ComponentsExact` `CyclesExact` `BlastExact` `ClustersAreContainment` `LoopsAreDiagnosed` | every graph of runtime imports over 4 modules; every choice of 11 imports over 3 modules of several files, in both orders; up to 7 loops of up to 3 modules listed for each component, 2 hotspots and 2 paths shown; blast radius to depths 1 and 3 |
| `architecture` | `VerdictsAgree` `SuggestionHolds` `GateSound` `BaselineOnlyShrinks` `FreezeSettles` | 3 components, one sliced, two files each; 5 graphs; contracts with every form of rule, a renamed component, and every mode; two templates, one of layers and one of libraries known by a name at any depth, with a component of two globs |
| `findings` | `DeadCodeExact` `ReportIsComplete` `ClumpsExact` `FixKeepsImports` | an entry point, a barrel, a leaf and a script, every choice of their statements from a list; 1 edit, any number of fixes; the first and the last property where no file mixes ways to import another (`Unmixed`) |
| `history` | `HistoryFollowsFiles` `VerdictsAreKept` `RanksFollowMeasures` `HistoryOnlyRaises` | 5 paths, 4 commits, 5 days, a window of 3; diagnoses shown from a confidence of 56 |
| `review` | `IntroducedIsCharged` `MovedIsNotCharged` `NewCyclesCharged` | 3 modules of up to 5 lines, 3 edits, 2 snapshots, one loop listed for each component; ids in an order that is not that of the lines |
| `review_worktree` (violated) | `WorktreeIsReviewed` | the same |
| `analyses` | `FactsAttributed` `ComplexityExact` `WarningsExact` `StructureExact` | trees of up to 4 nodes of six grammars, of oxc up to 7 where they begin with an `if` in a loop; up to 5 facts of a flow, 3 events of an advisory, 7 tokens, 7 examples, 5 records of a trace, small indexes with imports into them |

What the properties say is in the comment above each.  In short:

* *The index* mirrors itself, can always be written, equals a rebuild, and an
  unchanged tree changes nothing.
* *The store* agrees with itself between any two transactions, and a run that
  is allowed to finish brings everything up to date.
* *The cache* never holds a torn or misfiled entry that is served, and loses
  none to racing workers.
* *A fix* does what it reports, and no import of live code breaks by it.
* *The analyses* are compared with definitions that share nothing with the code:
  cycles and flows with sets of paths, up to the limits of what is shown, dead code with chains of re-exports,
  complexity with the nodes around a node, facts with the scope a reader would
  name, clones with their text, churn with the file behind the names.
* *The gate* lets through only what somebody accepted, and a *review* charges
  what a change introduced and nothing that it moved.

*Why the bounds are enough.*  The sync compares one persisted state with one
extraction; a leftover needs a run that creates a row, one that should remove
it, and one that meets it: three.  Two files give every relation the ids speak
of (source and target, declared and called, same or other module).  In a run,
two edits give three versions, so that persisted, read and current version can
all differ, within one run too, and a stop leaves the tables of two runs side by
side for the next one.  Two workers
and three files of one content give a writer, a racing writer and a later
reader.  Two lines of a source file let the removal of one move the other; two
sections of a manifest let a search run from one into the other, three packages
have a first, a middle and a last.  Four modules are the fewest with two
components of the graph that have two modules each, and with overlapping
elementary cycles of different lengths.  Three components are the fewest for a
rule that a third one breaks, five graphs lead from debt to less, to other, to
none and back, and two files with one baseline name meet an owner that left.  A
barrel between an entry point and a leaf is the shortest chain, and the script
breaks it or does not parse.  Four commits let a file be renamed, changed with
another, renamed again and counted; the window of three days drops the first
of them.  A review needs two snapshots, of a commit or of a tree, and an edit
on each side of one.  In a tree of four nodes a scope can open, nest, close
and be followed by what must not be charged to it.  Limits of the code (20
cycles, depth 12, 10 hotspots, 30 files of a commit, ...) are constants, set so
that the instances come to either side of them: four modules have loops of four
where three is the limit, more than seven loops of up to three, and more than two
hotspots; a review may list one loop of a component that has several; a commit has
three files where two are the limit; there are more than two sites of evidence.
Seven tokens are the fewest in which a text that two files share comes before
another one that they share, so that the order of the files matters.

`CONSTRAINT Compared` of the review runs leaves out states that no property
reads: edits before the first index, and what comes after the last snapshot
and belongs to no comparison.

`CHECK_DEADLOCK FALSE` is set where a bound of the model (snapshots, commits,
edits) ends the behaviours, and where one input is judged and nothing follows.

*Fairness.*  Only `IndexRun` states any: `WF_vars(RunStep)`.  A run is a
sequential program that does not wait for anybody, so each step is eventually
taken; that the command is run again is the assumption under which "re-running
repairs" can be said at all.  Edits, commits and stops have no
fairness and the number of stops is bounded, as convergence needs.

## 4. What the models show about the code

Two runs end in a violation:

1. **parse_cache_path.**  Cache entries are said to be path-independent; the
   Rust adapter's `mod` specifiers and the choice of adapter depend on the path.
2. **review_worktree.**  With a commit and an uncommitted edit between two
   snapshots, git is asked about the two commits, and a defect of the edit is
   dropped as one that moved, although the head snapshot indexed it.

More consequences of the code are in the modules; properties are stated so that
they say what holds beside them.

*Index.*  A run reads the tree seven times and locks nothing: findings of
dependencies, hygiene and tracked files may be of a later tree than the code of
their snapshot.  What holds is `SnapshotsDoNotOverlap`: they are of a tree before
the code of the next snapshot.  A function that moves gets a new symbol id, while calls of it in
unchanged files keep their row and their edge to the old one.  A file that moves
to another module keeps its dependency rows, which go on naming the module it
came from.  The indexer's README speaks of one transaction, the code uses
several.

*Fix.*  `export const a = 1, u = 2;` with `a` unused loses the export of `u`
too, since the symbol of a finding is not compared.  A removed export line moves
the lines below; the suppression group, still counting as the index did, may
strip a directive in force.  A section of a manifest on one line has no closing
line, so that a removal runs into the section below.  What follows a stale
`/* ovecc-ignore */` on its line goes with it.

*Findings.*  A namespace import and a named one of the same specifier become one
edge with names, and no longer credit the whole file; a name that a file imports
from one file and re-exports from another counts as passed on.  `DeadCodeExact`
and `FixKeepsImports` hold where no file does either (`Unmixed`).  Without that
premise TLC refutes both: a file that has `import { b }` and `import * as` of one
leaf makes the leaf's other exports unused, and `fix` then removes one that a
barrel still passes on by `export *`.  A suppression on one of
several lines of evidence silences the finding.  Metrics are counted before
suppressions.  Two calls of a command on one line are one finding, and so are two
classes of one name in a file: the ids of smells have no line, although
`finalize_findings` says that an id encodes the location.  A repeated finding is
numbered in the order of the ids (`hash`), which is not that of the lines: which one
of several alike a review names as new is left open, how many is not.

*Parsers.*  In the oxc walk `pending_name` outlives its declarator and may name
a later anonymous function; the level of nesting that a nested function is said
to add to its parent has no effect.  The generic walk counts a chain of
`else if` deeper than oxc does, where its comment says that they agree.  An arrow
function in a class field is no frame of the TypeScript walk, and an anonymous
default export is called `<anonymous>`.

*Imports.*  Relative imports of Python and Rust are matched by the ends of paths
over the whole repository, and `self::b` in a file that is no `mod.rs` is looked
for beside the file.  Paths are made relative by a prefix without its separator
(also in tracefiles).

*Graph.*  A component whose loops are all longer than twelve modules is counted, ranked
and called a risk, but no loop of it is listed, and none witnesses its diagnosis.
Blast radius sorts its paths by label before it cuts them, so that a direct
dependent may be left out; impact keeps the nearest, and `BlastExact` asks that of
impact alone.  The comment of `resolve_target` says that it returns none when several
nodes match (blast.rs:109); it returns the first of them, which the comment in its body
describes, and so does the model: `BlastExact` asks only that the name printed for a
node leads to one of the same label.

*Clones.*  The comment at dupes.rs:166 says that the families do not depend on the
order of the files.  They do where a text that as many files share comes before a
shared window: of `b a b` and `a b a b`, with windows of two tokens on lines of
their own, the first order gives one family and leaves the first `a b` of the second
file in no copy, the other order gives two.  `StructureExact` therefore asks for the
window only where nothing of the kind comes before it, and MCAnalyses has both
orders of these files.

*Searches.*  Of two flows with one source, sink and label, one is kept, whatever
kinds they are; a function that runs a command and calls `eval` keeps the latter
label.  Packages that are installed below the folder of a workspace member are not
audited.  Advisory files that exist are not fetched again, also when a
crash cut them.  A convention is "violated" above its threshold, where the
comment says at or above.

*Architecture, review, history.*  A ratchet that corrects nothing leaves entries
in the file of a former owner.  The gate compares counts, so that one cycle for
another passes.  Type-only imports that become runtime ones close no new loop
for a review.  Amended commits stay in the database beside their successors, and
a file that comes back to a name it had loses the changes in between.

## 5. Proofs

`tlapm` checks all of the following from scratch.

**IndexSync_proofs**, for every set of extractions that satisfies
`ExtractionsAssumption` (a batch has one row per file, module and call id; ids
of different kinds differ; equal symbol ids mean the same file) and
`ColumnsAssumption` (rows of files and modules have the compared columns):

* `TypeCorrect`, `KeysHold`: types and primary keys of the tables.
* `NodesMirror`, `EdgesMirror`: `nodes` and the mirrored `edges` are exactly
  those that the persisted rows derive.  Per table, `TableSync` computes the ids
  after a sync; `DeletedByKind` says a delete by id reaches the rows of its own
  kind only.  The second is not inductive alone: an access edge must not share
  an id with a mirrored one, so it is proved with `AccessShape`.
  `GraphMirrors` joins them.
* `EdgesHang`: the edges of containment, declaration and handlers end at nodes
  that exist (`EdgesResolve`), from `Rooted` rows and `HandlesSync`.
* `Refines`: `Spec => ImplementsContract`, the refinement of `IndexContract`.
  `SyncRebuilds` maps a step of the sync to `Rebuild` of the same extraction:
  `TreeSync`, `SymbolSync` and `AccessSync` say of a table that the rows kept
  and appended are those of the extraction; mirrored edges follow from the
  invariants of before.
* `NeverPoisoned`: no state that is reached has a `KeyConflict` with any
  extraction.  Appended nodes and edges are new (`FreshKeyed`, `FreshEdges`),
  since what is left over after the deletes belongs to other rows, which have
  other ids.

*The loop of runs*, in the same module, for any trees, layouts, edits and number of runs.
`ReindexAssumption` says what `Extractions` is: it has what a run extracts from
any tree with any persisted rows, and a dependency's imports are part of its id.

* `ExtractIsWellFormed`, `ExtractionsFit`: what `Extract` yields satisfies what
  the theorems above assume, so that they are about this code.
* `RunsAreSyncs`: the loop that feeds the persisted rows into the next run
  implements `IndexSync`, by the invariant `Loop` (what is persisted came from
  an extraction of the last indexed tree).  `LoopMirrors` and `LoopCommits` carry
  `GraphMirrorsRows`, `EdgesResolve`, `ImplementsContract` and `CanAlwaysCommit`
  over to it.
* `FailureRetains`: `ParseFailureRetains`.  A file that does not parse keeps the
  imports of its last successful parse.
* `SecondRunIsNoOp`: `NoOpWhenUnchanged`.  The invariant `SettledOnceIndexed` says
  that the tables are those that an extraction of the indexed tree, from the rows
  it left behind, yields again; the retained imports make this more than equal
  inputs giving equal outputs.

**IndexRun_proofs**, for any number of edits, commits and stops: `TypeCorrect`
(with `HasRead`: after parsing, a run has read the code) and `StoreConsistent`:
`StoreAgrees`.  The strengthening says what a run has read at each step, in order
(`RunReadsInTurn`); that what is persisted was known before the running run read
anything, until it writes its own findings (`PersistedIsKnown`); and that from the
sync to the findings step the newest snapshot is the run's own (`RunMatchesStore`).

**ParseCache_proofs**, for any set of workers, files, contents and process ids,
under `CacheAssumption` and `FactsAssumption` (parsing is a function of path and
content; the cache key is the content): `TypeCorrect`, `CacheSound`
(`EntriesAreSound`) and `CacheComplete` (`CachedAfterRun`).  They share one
inductive invariant.  `Employed` ties each worker's phase to the file it holds,
`Held` says what a worker in the middle of a file knows, `MissedOnly` that only
a worker that missed the cache stores, and `Pending` that a parsed content is in
the cache, failed to be written, or is still being stored.

**Fix_proofs**, for any files, contents, edits, interleavings of an editor and
failed writes; `FixAssumption` only gives files their shape, and several lines may export
one name, as merged declarations and overloads do:

* `HonestReports`: `ReportsWhatIsOnDisk`.  The invariant says that an open file's
  findings are its own (`Grouped`), that a dry run fixes nothing and an applied
  one plans nothing (`DoneByOption`), and that the variables are records and
  functions (`Shape`).
* `FixesTheRightLine`: `FixedIsGone`, and `SkipsWithCause`: `FreshIsNotSkipped`.
  Neither is inductive.  `FixInv` adds that findings were found where they say
  (`AsFound`); that the lines in memory map, in order, to the lines read, less what is
  reported as fixed, and that up to the lowest finding left nothing has moved
  (`Tracked`, `InPlace`); and that an edit leaves the lines above it, and the line
  itself unless another finding of that line was handled, as they were read
  (`LeftAsRead`).  The last two are what taking findings from the bottom up is for.
  `WithoutOneMore` says what a fix makes of a line that other fixes have shortened,
  `LinesWithoutOne` how the map follows a line that goes.

The removals from a manifest, in the same module: `RemovalsNeverFail`, that is
`RemovalsSucceed`, for any sections and packages, under `ManifestAssumption`: at first a manifest parses, if
its edited sections go over several lines, each with entries up to its brace and
once.  Keys that occur twice are legal JSON and are left out.
`StillRemovable` says that the manifest stays of that form and that whatever is
still to be removed is an entry of a section of the copy (`Held`).
`RemovalWorks` shows that a search for such an entry finds one, that the commas
are right without it (`CommasAfterRemoval`), and that nothing else is lost;
`InsertionWorks` says of a declaration that it adds one line.

**ArchitectureReview_proofs**.  *Architecture*, for any contracts, graphs, templates and names of
baseline files, assuming that a repository is finite (`FiniteDebt`) and that an
import of something external leads to no indexed file (`IndexedGraphs`, which also
says that there are finitely many files and imports, each file in a directory whose
text has a length, as that of the root has, `EmptyRoot`):

* `GateIsSound`: `GateSound`.  The invariant (`Accepted`) is that every entry of
  the store, also of a half-written one, and every entry that a command is about
  to write belongs to an accepted violation.  It needs that an entry has one
  owner (`AllSourced`, `OneOwner`), since the store is read without the names of
  its files.
* `BaselineShrinks`: `BaselineOnlyShrinks`.
* `FreezesSettle`: `FreezeSettles`, from `RewrittenIsDebt`.  A ratchet is skipped
  when the counts agree; `CountTells` says that then all stored entries are
  still violations.
* `ReadingsAgree`: `VerdictsAgree`.  The same rules are read by four functions
  (`classify_internal`, `absence_findings`, `declared_edges`, `contract_view`).
  `OneVerdict` says that an import has one verdict, `DeclaredIsOpen` and
  `DeclaredRules` when it is a declared one, `AbsencesAgree` and `ShowHolds` that
  the findings and the view of a file say the same.  Only that the contract is a
  valid one is used of the state.
* `SuggestionsHold`: `SuggestionHolds`, for any templates that say of imports only
  which layer depends on which, by globs of a directory or of a name below one
  (`TemplatesAreLayers`, as the four of the code do; the nx workspace has the latter).
  `RootIsTried` says that a template cannot fit under a directory that
  `candidate_roots` leaves out, `BestIsRecognized` that among finitely many fits one
  is not beaten (`HigherIsTransitive`, of fractions), `BoundIsChecked` that after
  `rebind` the contract is valid and the check's divergences are the imports that the
  fit did not allow.  The premise `Recognizable` is needed, since `anchor_segments`
  reads only the first glob of a component: `fsd` and `bulletproof-react` meet it,
  `clean-architecture` does not, so that one with its layers under the second names
  (`use-cases`, `entities`) and below the root of the repository is not suggested.

*Review*, for any trees, edits, commits and any answer of git, assuming only that a
tree has a sequence of lines for each module (`TreesAreFiles`) and that findings at
two lines have two ids, in whatever order (`IdsDiffer`):

* `ChangesAreCharged`: `IntroducedIsCharged`.  The lines that git does not report
  are those of the base that it kept, in their order (`KeptFrom`, `Follows`), so
  that a line that is not reported has a line of the base, and headers follow as
  lines do: a line is in the function that its line of the base was in.  A group of
  findings that grew has a new rank; a secret more in a function is on a reported
  line; a function without a reported line is as complex as it was.  That a common
  subsequence is the *longest* is not needed: any answer of git that is a diff at
  all charges what a change introduced.

**Closure_proofs**, for any finite graph.  The library's induction theorems take
an operator and cannot be used, but induction for a *set* of numbers can be proved
from the well-foundedness of `<` (`AllNumbers`, by `LeastNumber`), and carries
what is needed of recursion here.

* `ClosureIsLeast`: the bounded search finds the least set that contains its start
  and that no edge leaves.  That a recursive function exists must be shown
  (`WithinExists`); a set that does not grow in a step stays (`ClosedStays`), and
  one that grows outgrows the nodes (`GrowthIsBounded`).
* `EndsAreLeast`: so do chains that are no longer than there are nodes, which is
  how the properties say it; `ClosureIsEnds` joins the two.
* `NumbersInOrder` and `ElementsInOrder`: a finite set of numbers, or one with any
  other strict order, has a sequence in which each element stands once.
* `FoldExists`: the fold that the library defines over sets of places exists, for
  any table of its steps; `PlacesInTurn` follows it from the left.
* `QueueIsExact`: a breadth-first search that queues what it has not seen reaches
  what chains reach, each by a shortest one.  The invariant of its queue
  (`QueueMoves`) says that the queued paths are paths of the graph with distinct
  ends, by length; that the successors of what was taken are queued; and that the
  length of a path is the distance of its end.  Two searches of the code use it, the
  blast radius and the flows.

**Findings_proofs**, for any finite trees, rules, thresholds, edits and fixes, under
`FindingsAssumption` (lines and columns are numbers, a security pattern is of one
of the parser's kinds, a statement stands in a file of the tree):

* `NothingIsLost`: `ReportIsComplete`.  `RawFindings` is why no finding hides
  another one: what the rules find under one id has one evidence.  For most rules
  the id names the line (`Sited`); the evidence for a boundary or a ban follows
  from the modules or the pattern in its id; of the imports of one missing file
  the first one counts; and the smells are made one for each id before anything
  is suppressed (`SmellsAreKeyed`).  `ReportIsSplit` says what a report consists
  of, and `ReportWithoutStale` uses that no rule looks at a suppression
  (`SameRules`, `SameDeadCode`, `SameSmells`).
* `ClumpsAreExact`: `ClumpsExact`, from `MembersAreTakers`.
* `UnusedIsUnused`: `DeadCodeExact`.  The code passes usage from `<<file, name>>`
  to `<<file, name>>`; the property follows one name through files.
  `UsedAreConsumed` and `ConsumedAreUsed` show that both are least sets of the
  same steps, for which `Unmixed` is needed; `BrokenOnlyUses` compares a tree with
  the one whose files all parse, and `ReportedDeadCode` leads from what is flagged
  to the report.
* `FixesKeepImports`: `FixKeepsImports`.  Until an edit, a tree is part of the one
  that was indexed (`FixInv`), so that what an import in use leads to now was
  consumed then (`ImportsLeadToConsumed`) and is not among what may be removed
  (`FixedWasDead`).

Two details of the code carry the first one: a boundary has its modules in its id,
not only its name, and `analyze` of the smells drops the second of two classes of
one name in a file, whose id has no line, before a suppression can silence one
of them and not the other.

*Flows*, for any facts of routes, calls, sources and sinks that satisfy `AreFacts`
(finitely many routes and calls, symbols are numbers), with any positive
`FlowDepth`:

* `FlowsAreFound`: `FlowsAreExact`, the half of `WarningsExact` about flows: a
  route is reported to reach a sink exactly when a chain of calls within the depth
  leads from its handler to it on which something reads the request, once for each
  label, and by a shortest such chain.  `analyze` walks over
  visits, of which there are at most two for each symbol (`VisitsAreFew`), so that
  the search ends.  `WayIsInCode` says that a queued way is a chain of calls and
  carries the input when something on it reads the request, `WayIsSearched` that
  every chain ends where the search comes.  `SoonestExists` and `FindingsOfRoute`
  choose among the ways to one sink, as the code does.

*Advisories*, whose events have a kind and a version (`AreEvents`):

* `AdvisoriesAreMatched`: `AuditIsExact`, the other half.  The code sorts the events
  and folds over them, the property knows no order: `EventsAreOrdered` says what
  the sorting does, `AffectedAtTheEnd` what is left of the fold, and since of one
  version what introduces comes before what ends, the two agree (`RangesAreExact`).

**GraphHistory_proofs**, on what a review reads beside the code.  *Loops and radii*,
for any finite set of modules and any sequences of dependencies
(`ModulesAreFinite`, `InputsAreSequences`):

* `ComponentsAreExact`: `ComponentsExact`.  Tarjan's search closes the strongly
  connected components of two modules or more, each once, and nothing else.
  `ClosureIsLeast` gives reachability its laws (`HasPathIsLeast`,
  `HasPathIsTransitive`); `KosarajuFindsComponents` says that the components of the
  summary are classes of modules that reach each other, and `SuccessorsAreTargets`
  that the ordered successors of a module are the targets of its runtime edges.
* `CyclesInvariance` is the inductive invariant (`SearchInv`).  The frames cut the
  stack into segments (`Segment`); a frame reaches its segment and is reached from
  it (`Linked`); its low link is the index of an open module that it reaches
  (`Attained`), and no edge that was followed leads to an open module below that
  link (`Explored`); no edge leaves what is closed (`Closing`).  When a low link
  equals the index, the segment is therefore closed but for what is closed already,
  so that it is a component (`CloseStep`); when it is smaller, a frame below is on
  a loop with this one and takes the segment over (`ReturnStep`).
* `SearchIsExact`: the search of the blast radius over any finite graph has, of
  every node within the depth, one path, and a shortest one; `BlastIsExact`:
  `BlastExact`, from it, for what is said of a radius: its nodes, their distances,
  and which are cut.  The persisted graph is any in which nodes have ids and edges
  join ids (`NodesHaveIds`, `EdgesJoinIds`, `RadiusOfNodes`).

*History*, for any commits, renames, amends, interrupted runs and versions of the
classifier, under `HistoryBounds`, `PathsAreNumbers`, `FirstHistory` and
`FirstDatabases`:

* `VerdictsKept`: `VerdictsAreKept`.
* `FilesAreFollowed`: `HistoryFollowsFiles`.  What the history says of a path (its
  churn, its sets of changes, what it changes with and the evidence for that) is
  what happened to the file that has the path now.  The invariant (`BranchInv`,
  theorem `BranchInvariance`) says that the log is a branch: a change continues a
  file where the one before left it, and each path has one owner (`LastAt`,
  `Continues`, `IsHistory`); that the rows are those of whole commits (`RowsFit`,
  `RowsUpTo`, `RowsAreOfLog`); and that the index holds the files of the newest
  commit that was ingested.  `WalkArrives` is the heart of it: a walk along the
  renames of the rows ends where the file is now, since each of its steps is one
  more rename of that file (`RenamesBy`), of which there are no more than the code
  follows.  Counting is then about one set of rows said in two ways
  (`ChurnCounts`, `SetsAre`, `CoChangesAre`, `PairsAreCoupled`,
  `EvidenceIsStored`).
* `HistoryRaises`: `HistoryOnlyRaises`, for any files, imports, measures and
  configuration (`HistoryIsSomething`: a diagnosis of the evolution asks for some
  churn; `DependenciesAreListed`).  The graph of components is the same with a
  history and without one (`SameStructure`, `GraphsHaveOneStructure`), so the loops
  and hubs are (`SameLoops`, `SameHubs`); a zone of pain is one by its shape, and
  what changed in it only makes it worse (`ZonesAreByShape`, `Louder`); without
  churn and pairs no detector of the evolution speaks (`SilentWithoutHistory`).  How
  confident a smell of the structure is, and so whether it is shown, does not depend on
  the history (`ConfidenceIsStructural`).

**Only model-checked:**

* `CyclesExact` (which loops are listed, and their witnesses),
  `ClustersAreContainment` and `LoopsAreDiagnosed`: what they compare is a fold, an
  enumeration or a sum over a graph, with limits in between.  Induction over a set
  of numbers (`AllNumbers`) reaches such definitions one at a time, as it did the
  searches; it has not been carried out for these.
* `NewCyclesCharged` and `MovedIsNotCharged`: both need that what the enumeration
  lists are loops, and the first also what its limits leave out.
* `FactsAttributed`, `ComplexityExact`, `StructureExact`: folds over the nodes of a
  tree with a state of several parts.  The two halves of `WarningsExact` are proved
  for any input; the run's property is about its own tables.
* `RanksFollowMeasures`: sums and shares over a log.
* `Converges` is liveness.

Liveness, ENABLED, induction principles that take an operator, and RECURSIVE
operators are beyond the prover.

## 6. Plan

Done: the index with its run, cache and refinement; fixes; the analyses of the
graph; architecture; findings; history; review; parsers and searches.

Proved: all properties of the runs `reindex`, `parse_cache`, `fix`,
`findings` and `architecture`; of `index_run` the safety properties; of `graph` the
search for components and the blast radius; of `history` that it follows files,
keeps verdicts and only adds to a diagnosis; of `review` that what a change
introduces is charged; of `analyses` the flows and the advisories.

Left, in this order:

1. Proofs: that what the enumeration of cycles lists are loops, and with it
   `MovedIsNotCharged`; that an insertion into a manifest keeps
   the order of its entries.
2. Fetching advisories with its crashes, and the session of the MCP server.
3. Entry points and hygiene, so that `Rules` need not take them as constants.
4. Migrations with a stop between two of them.

## 7. Not modelled

* Character-level work: lexing, the look of secrets, close names
  (`closest_targets`), version syntax.
* What does not decide anything: rendering, wording, remedies, confidences other
  than those that `diagnose` compares with its minimum, hints, the names and counts of parameters outside of clumps, the comparison of mean ages (its two sides are
  measured differently; the hazard is listed).
* Components without state or behaviour of their own: configuration, ids,
  migrations (a list of SQL statements), entry points, hygiene and tracked
  secrets (conventions of frameworks, matched as text; of manifests, `Imports`
  has where they are looked for and which names they give), calibration and self check, the
  MCP server (every request opens the database, answers and forgets), prompt
  text, release tooling, npm wrappers, documentation.
* The network, and DuckDB beyond atomic transactions, primary keys and the
  exclusive lock of its file.
