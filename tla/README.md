# LoomGraph in TLA+

Formal models of LoomGraph (`src/loomgraph`): the program that turns a
repository's exported symbols and calls into a per-workspace SQLite graph, keeps
it up to date from git, embeds it for semantic search, compares two git refs and
answers questions about the graph; and of the evaluations kept beside it
(`evals/`), the protocol by which an agent's use of `branch-diff` is measured.
This directory holds the TLA+ modules, the TLC configurations that check them
and the proofs that TLAPS checks.

## 1. Inventory

### Components, their state and their operations

| Component | State | Operations | Model |
|---|---|---|---|
| graph store (`storage/sqlite_store.py`) | tables `entities`, `relations`, `vec_node_descriptions`, `meta` | `insert_custom_kg`, `create_entity`, `create_relation`, `delete_all`, `delete_entities`, `delete_by_source`, `write_embeddings`, `set_meta`, queries | `GraphStore` |
| ingest pipeline (`core/graph_export_ingest.py`, `core/embedding_pipeline.py`) | local to a run: export, changed files, symbols to embed and to delete | `ingest`, `ingest_incremental`, `persist_resolved_ratio` | `GraphIngest` |
| commands (`cli/_indexing.py`, MCP `refresh`) | one process each | `index`, `update`, `refresh` | `GraphIngest`, `WorkspaceSync` |
| git access (`core/git.py`) | HEAD~1, HEAD, the working tree | the changed-file queries, ref resolution, worktrees | `GraphIngest`, `SnapshotProvision`, `WorkspaceSync` |
| export reader (`io/export_reader.py`) | none | `map_entity`, `map_edge` | `GraphIngest` |
| branch-diff provisioning (`cli/_branch_diff.py`) | one database per ref, four tags in its meta table | `branch-diff`, `index --at-ref` | `SnapshotProvision` |
| workspace names (`storage/factory.py`) | none | sanitising a name into a database file | `SnapshotProvision` (`DbOf`) |
| embedding provider (`embedding/resolve.py`, `cli/_backfill.py`, `cli/_search.py`) | meta key `embedding_provider` | resolve, `embed-backfill`, `search` | `EmbeddingSpace` |
| codegraph backend (`io/codegraph_reader.py`, `_update_codegraph`) | backend and fingerprint in meta; a database of its own | snapshot, fingerprint noop, routing, names and edges | `WorkspaceSync`, `CodegraphReader` |
| post-commit hook (`_hooks_templates/post-commit`) | none | starts `update`, in front or in the background, or skips | `WorkspaceSync` |
| branch diff and compare (`core/branch_diff.py`, `core/compare.py`) | none | a report about two loaded graphs | `BranchDiff` |
| impact (`core/impact/`) | none | changed lines to symbols, callers, risk | `ImpactAnalysis` |
| graph questions (`cli/_search.py`, `core/deps.py`, `core/topology.py`) | none | `graph`, `deps`, `topology` | `GraphQueries` |
| debt and git history (`core/git_parser.py`, `core/debt_analyzer.py`) | none | `git log` reader, penalties, score, grade | `DebtHistory` |
| review adapter (`evals/deepswe/claude_orientation.py`) | one packet per run | flags, instruction, stream summary, one packet builder per protocol version | `ReviewPackets`, `ReviewRuns` |
| review contracts (`evals/temporal_review_*fixtures.py`, `*materialize.py`) | manifests, checkouts | load, evaluate an answer, materialize | `ReviewContracts`, `ReviewPackets` |
| review pilots and audits (`evals/run_temporal_review_*`, `audit_temporal_review_*`) | an output directory | probe the model, run the cohort, audit it, gate the expansion | `ReviewPilots`, `ReviewAudits` |
| trends, charts, configuration, network clients, argument parsing, the rest of `evals/`, `scripts/`, skills | files, settings | formatting, thresholds, I/O | not modelled |

`PROJECT.json` lists every component with its status.

### How they interact

Commands are separate processes: a terminal, the git hook (synchronous or in
the background), an MCP server's calls.  They share nothing but the SQLite
file of the workspace, and they do not lock it beyond one transaction: each
store method is a transaction, and everything between two store calls
(codeindex export, git queries, embedding) runs unlocked.  branch-diff writes
databases of its own, whose names are also the names of the user's default
workspaces (`<repo>:<branch>`).  The hook is one more process, started by a
commit.  The meta table carries decisions from one command to the next: the
resolution ratios, the extraction backend, the snapshot tags, the embedding
provider.

### What is hard

- Steps of two commands between each other's transactions.
- The working tree and the refs move while a command runs; the export, the diff
  and the ref resolution are three looks at them.
- A command dies between clear and insert, between rows and tags, between
  recording a provider and embedding; embedding failures are swallowed.
- Decisions recorded once and obeyed later, over content that changed since.
- vec0 has no unique key, so rows and vectors agree only by discipline.
- Two extraction backends share one store: one incremental by file, the other
  all or nothing, and the record of which it was is written after the rows.
- A report is trusted for what it does not say: no broken chain, no caller, low
  risk, no difference.
- Nine protocol versions of one evaluation live side by side; packet, driver
  and audit judge the same run three times, and must agree.

`PROJECT.json` has every hazard at its line, with the properties that are about it.

### What makes each component correct

- Store: at most one vector per name, no vector without its row, two
  connectivity queries that agree.
- Pipeline: an incremental run leaves exactly the export's symbols for what it
  covered, a rebuild exactly the export; nothing that still exists is deleted; an
  empty export never empties a workspace; ratios are those of the full export.
- Provisioning: a diff compares the two commits it was asked for; the user's
  index is never emptied; two refs never share a database.
- Embedding: all vectors of a workspace and every query against them are of one
  space, and the recorded choice is obeyed.
- Workspace: one backend's rows at a time, and the record names it; a noop only
  over a current store; a workspace catches up with every commit.
- Analyses: each report says exactly what its question means, or the exceptions
  are known and named.
- Reviews: a complete packet stands on one certified comparison; a fault stops the
  pilot and is never counted as a result; the audit finds what the pilot found;
  an agent that follows the protocol completes.

## 2. Modules

`GraphStore` models the four tables and one action per write method.  A table
is a function from its primary key (`entities`, `relations`, `meta`) or a set
of rows (`vecs`).  A relation's key is `<<src, tgt, keywords>>` as in the UNIQUE
constraint.  `Like` is the relation `source_id LIKE 'file%'`, given as a constant so
that prefixes and patterns are not assumed away.

`GraphIngest` extends it with the repository (`base`, `head`, `work`) and the
commands.  A command is a process `w` with a program counter `pc[w]`:

    index   : export -> (clear) -> embed -> insert -> meta -> done
    update  : export -> diff -> scan/rows* -> (gc) -> embed -> insert -> meta -> done
    refresh : export -> scan/rows* -> (gc) -> embed -> insert -> meta -> done

`BeginUpdate` is the diff gate, taken before the export; `Diff` is the second
look at git, after it.  `ScanSourceIds` and `ScanRows` are the two reads per
changed file, `Gc`, `Clear`, `Insert` and `PersistMeta` the store transactions.
`Edit` and `Commit` are the developer.  `Abort` covers a kill, a lock timeout and
an embedding error that must not be swallowed.

`SnapshotProvision` models branch-diff and `index --at-ref` per call: resolve
the refs, decide a database for each by the decision table (`Verdict`), export
from a worktree, `Clear`, `Insert`, four `Tag` transactions, compare.  What a
database holds is the set of exports its rows come from.  The user's `index` and
`update` of a checked-out branch is `UserIndex`, on the same databases.

`EmbeddingSpace` extends `GraphStore` with the four commands that use an
embedding client.  `Resolve`, `Guard` and `Probe` are the three store accesses
of `resolve_embedding_client`; `Insert`, `Write` and `Knn` use the client.  An
embedding is abstracted to the provider it comes from.

`SnapshotCache` is the abstract specification of branch-diff's databases: a cache
whose slots show one whole export or nothing, and whose callers are served what
they asked for when they began.  `SnapshotProvision` implements it
(`ImplementsCache`) under this mapping: a database shows an export when its rows
are those of that export alone, and nothing otherwise (`Shows`); it is spoiled
when something other than provisioning touched it since its last rebuild
(`Spoiled`); a call asks for the exports of the commits it resolved (`Asked`) and
is served while it compares (`Served`).

`WorkspaceSync` is `GraphIngest` seen from further away: content is by file, and in
exchange there are both backends, the record of backend and fingerprint, the hook,
partial commits, merges and checkouts.  A command goes through

    index            : export -> (clear) -> insert -> backend -> (fp)
    update codeindex : route -> gate -> export -> look -> gc -> insert
                       or, on a changed configuration, -> clear -> insert
    update codegraph : route -> export -> peek -> clear -> insert -> backend -> fp
    refresh          : export -> gc -> insert, or a forced rebuild

`Commit` contains the hook's decision, and an update in front blocks the next
commit.  A rebuild keeps meta, so the record and the rows part between the clear
and the record of the new fingerprint; `taint` names what has happened to them.

The commands that only read are behaviours of one step (`Answering`): a question,
then its answer.  `ReadingCommands` has one action for each; what the product's answers
promise is in `Analyses`, what the evaluations' promise in `ReviewRuns` and
`ReviewAudits`.  The questions are two
snapshots (`BranchDiff`), two codegraph databases (`CodegraphReader`), the stored nodes
and calls with changed symbols, the names these are parsed under and the lookups that
fail, or an edit script with the file that is checked out (`ImpactAnalysis`), edges, a
layout or a topology (`GraphQueries`), a log or a debt (`DebtHistory`); the answers are those
modules' operators, which follow the code's passes, folds and early ends.  Each
property compares the answer with a second definition written from what the command
promises: walks for the breadth-first searches, sets of commits for the log's
automaton, a difference of call relations for `branch-diff`.

The evaluations have the same form.

- `ReviewPackets`: what the adapter makes of one event stream.
  `summarize_stream` is the summary, an `evaluate_v*` judges the answer against the
  task, and each `build_temporal_review_v*_packet` is a ladder of rungs of which the
  first that holds gives the status and, from version 3 on, may stop the pilot.
- `ReviewContracts`: a contract is the set of its defects; a loader refuses
  those it looks for.  The `materialize_v*` say what becomes of the checkout.
- `ReviewRuns`: one run: flags, the schema they select, what the instruction
  demands, the packet.
- `ReviewPilots`: the driver.  A pilot is what the driver meets: the registered
  identity of the model, the cells in the order they run, the cell in which it
  is killed.  The answer is what its output directory is left with.
- `ReviewAudits`: the nine audits, which start from that directory and rebuild
  every row, and the expansion gate.

The versions are separate definitions, as they are separate files in the code; where
one version's code calls the previous one's, so does its definition.

The MC modules give the constants small values.  The theorems are in `GraphStoreProofs`,
`GraphIngestProofs` (types, ownership, the store's refinement), `IngestOutcomeProofs`
(what a finished command leaves), `EmbeddingSpaceProofs`, `SnapshotProvisionProofs`,
`WorkspaceSyncProofs`, `AnalysesProofs` (all commands that only read) and
`ReviewProofs`.

History variables (`disturbed`, `synced`, `embedFailed`, `taint`, `past`, `back`,
`raced`, `detached`) are read by properties only, never by a guard.

### Abstractions

- Symbol ids are unique in an export and every symbol has a description.
- The git index tracks HEAD's files, edits are unstaged until a commit of all
  changes, a new file is untracked until then.  HEAD~1 always exists.
- Ambiguous edges are not exported, so the internal ratio counts the empty set;
  a ratio is kept as the set of edges it counts; the value of the backend key
  in `GraphIngest` is not told apart.
- `sorted(changed_files)` is any order.
- codegraph workspaces are in `WorkspaceSync`, not in `GraphIngest`.
- In `SnapshotProvision` the worktree, codegraph's size and time gates and the
  export are one step that succeeds or ends the call without a write; codegraph's
  provenance keys, which nothing there reads, are left out.
- In `WorkspaceSync` a row is the version of its file at the export, with the
  version of the configuration; symbols, vectors and the names that shadow each
  other are `GraphIngest`'s.
- Lists of a report are sets, before sorting and caps.  Scores, weights and ratios
  are whole tenths or hundredths.
- In `compare` the four reads are one.
- In `impact` every symbol is in a file and module of its own, which the affected modules
  count; a class that has its module's name, whose methods `_qualify_symbol_name`
  takes for qualified already, is left out.
- A log line of a path with three or more `|`, or a header whose author has one,
  makes the reader's `int()` raise (core/git_parser.py:149) and leaves no history,
  like a failing git.  `DebtHistory.ReadLine` has paths with one or two.
- The fingerprint of a codegraph database is a stamp that grows with every sync; the code
  compares counts and the latest `updated_at`.
- An artifact of a pilot is as it was registered or not; hashes, times, costs and
  texts are left out.  A tool response is its form, its refs, its content status,
  its certificate and which locus it shows.
- In `EmbeddingSpace` the probe is one with the record of its answer, reading the
  network being no access to shared state.

## 3. Runs

Every run checks deadlock off: commands end, and with the bounds used up the
system stops.

| Run | Shows | Bounds |
|---|---|---|
| `store` | any sequence of store writes keeps one vector per name, connectivity queries that agree, and no new vector without a row | 2 names, 2 sources, all arguments |
| `ingest` | what a finished command leaves, with edits, commits and deaths between any two steps (embeddings fail in `stale_vector` and in the theorems) | 1 process, 6 trees over 3 files and the config |
| `ingest_par` | what no interleaving of two commands can break | 2 processes, 3 trees |
| `provision` | branch-diff compares what it was asked to, keeps the user's index and the two sides apart, and implements the cache | 2 refs with one database name, 2 commits, 2 calls, a move, a user index, earlier snapshots and indexes of every kind |
| `space` | one embedding space per workspace, the record is obeyed, queries are in the space | 2 processes, 3 commands, 1 change of configuration, legacy vectors |
| `sync` | one backend per store, idle and noop mean current, and every commit is caught up with | 2 sources, a document and the config; 2 processes; 4 events; hook automatic or disabled; at most 1 file in front |
| `analyses` | each answer of a reading command, of the review adapter, its pilots and audits, against a second definition | see below |
| `like_gc` | violated: the GC deletes symbols the export has | 1 command |
| `deleted_file` | violated: update does not collect the symbols of a file deleted since the index | 1 edit, 1 command |
| `stale_vector` | violated: a failed embedding leaves the vector of the old content | 1 process |
| `leak` | violated: working-tree rows in a ref diff | 1 user index |
| `mixed_space` | violated: an auto command mixes two spaces | 3 commands |

The bounds are the smallest that contain the interesting cases: a file whose path is
a LIKE prefix of another (`w.ts`, `w.tsx`) and one that is not (`k.ts`), a symbol
that moves and changes, one that disappears, a file created and deleted, a config
that hides a language, an empty tree; two refs whose names sanitise to one
database (`f/x`, `f-x`), a database already tagged for this or the other ref, at
this or another commit, by this or the other backend; workspaces with vectors
and no record.  Each property has a mutant, a plausible bug in one definition that the
run must find, so none holds because its case is never reached.

`sync` has two sources because a commit of one is small (the hook waits for it) and a
commit of two is large (it does not); a document that no backend reads makes a commit
that the hook may count and the store must not miss; four events are enough to edit,
commit a part, commit again and check out or die.  The events are the developer's
steps and the deaths; commands are not counted.

`analyses` enumerates questions: snapshots of two entities that move, change, come and
go, with a hash or none; databases of five nodes with an overload, a homonym
in another file and an import; every subset of six calls with cycles around two changed
symbols, and of four with namesakes, a symbol not stored yet, calls known by their text
only and lookups that fail; edit scripts of up to five lines over three symbols,
checked out as the diff left them, one line longer or (for short ones) as anything,
gone or not parsed; walks through a cycle
to depth 3; entities in one, two or no common directory; a class with its
constructor, with utility and noise names; logs of three commits with a path
that has a `|`; debts around every threshold.  The thresholds of the risk level, the
tool budget and the navigation cap are constants (2 and 4, 3 and 2 in the run,
3 and 10, 5 and 4 in the code), with the assumptions between them the code keeps.
Event streams have up to three steps of any kind besides runs as they are meant to
be; pilots have two tasks, eight cells, one of which may go astray early or in the
middle, and the driver is killed in the third or the fifth cell, or not.

`provision` has one process besides the user; two processes multiply its states
beyond a run of minutes.  The definitions (`Holders`, `Overlap`) and the proofs are
for any number.

Type invariants are not among the runs' properties: they are theorems (section 5), and
a state outside its types is found by the other properties.

### What the properties of the reviews say

- `OneCallCertifies`: a complete treatment packet stands on one comparison the tool
  returned, of the frozen commits, with the expected status, that shows the locus;
  from version 3 on every comparison precedes the answer and is good.  Calibrations,
  which have no task, are outside it.
- `FaultsStopThePilot`: from version 3 on the pilot stops at a fault of the protocol
  and at nothing else.
- `RightAgentCompletes`: whoever does what instruction, schema and the appended
  requirement say, with a truthful tool, gets a complete packet.
- `PilotStopsAtFirstFault`: results exist only when no cell went wrong, and no cell
  is run after the first that did.
- `AuditConfirms`: an audit's row is valid only for a complete packet, and a complete
  packet is confirmed if a baseline did not use the tool (in version 2: got no
  object from it), the warm repeat of a treatment reused its snapshots (from version 3
  on) and the answer is the last result (from version 6 on).
- `HonestCohortPasses`: a cohort in which everybody did as told ends with results,
  confirmed, eligible for the expansion.

The audits differ: the first has no check of the cohort's root and counts
only branch-diff calls; the second needs the pilot's results; from the third on a
stopped, unfinished or changed cohort is refused, and one already audited (versions
3 to 7; 8 and 9 write nothing).  A row is valid when packet, working tree, raw
trace, tool trace, semantics and certificate agree and the warm repeat reused its
snapshots; version 4 adds the model's identity, 6 the retained answer, 9 the
fingerprint of the run.  The gate asks for three valid pairs, one of every task, and
no unresolved or malformed answer.

### The violated runs

- `like_gc`.  `ingest_incremental` (graph_export_ingest.py:324) finds a file's old
  symbols by `source_id LIKE 'file%'`, so `w.ts` also gets those of `w.tsx`, finds
  them missing in the new export of `w.ts` and deletes them.
- `deleted_file`.  `get_changed_files` filters `ACMR` (git.py:82), so a deleted
  file is never scanned, although `update` promises to collect deleted symbols.  The
  trace starts from an index of `w.ts`, `w.tsx` and `k.ts`; one uncommitted edit deletes
  `w.tsx`, and `update` leaves its symbols.
- `stale_vector`.  A row upserted while its embedding fails keeps its old vector,
  although the pipeline's docstring says the column stays empty.  Equal hashes and
  backfill's gate keep it that way.
- `leak`.  The snapshot `<repo>:<ref>` is the user's workspace of that branch too.
  `index` leaves the tags, and the next branch-diff reuses its rows.
- `mixed_space`.  An explicit provider is not recorded and a clear keeps the meta
  table, so an old record survives a re-index in another space and the next auto
  command obeys it.

### Further disagreements

These were met while modelling; the models have what the code does.

Workspaces and commands:

- The docstring of `assess_export` says `index` warns and still writes, while `index`
  ends with an error (`_indexing.py:397-406`).
- The docstring of the codegraph noop (`_indexing.py:592-603`), "graph already current",
  is false after a rebuild of the recorded snapshot that died behind its clear and
  after codeindex wrote to the workspace: the exceptions of `NoopIsCurrent`.
- The gate's comment (`_indexing.py:870-877`) has every change of the configuration
  demand a clear rebuild, but the `git diff` behind it lists no untracked file
  (`_indexing.py:246`): a configuration that is new and not yet committed hides or
  shows files, and `update` goes on incrementally.  `UpdateConverges` asks for a
  tracked configuration (`ConfigTracked`).
- "Explicit --backend always wins and is recorded" (`_workspace_backend`): `update
  --backend codeindex` on a codegraph workspace is never recorded, the exception
  `override` of `OneBackend`.
- In `SnapshotProvision` a mark `override` may outlive the call that set it: `index
  --at-ref -w` dies between the tags ref and sha, a rebuild of another call dies, and
  the ref returns to the old commit.

Analyses:

- `impact --depth` above 2 has no effect, and a caller of one changed symbol that was
  first met as an indirect caller of another is not expanded (`CallersComplete`).
- `impact main..HEAD` without `--base` is read as a commit, although the help text
  names it.
- `impact` looks a symbol of a .py file up as codeindex names it and any other as it was
  parsed.  So .py symbols on a codegraph workspace and others on a codeindex one
  never match an entity (`OtherLanguage`); a codegraph node is found if no other has
  its qualified name, and where it has none the callers of a namesake may be
  reported (`Meant`).  A symbol that cannot be looked up may be called low risk.
- A read of the relations that fails passes for no callers (analyzer.py:207-210), and
  may be called low risk: `LowMeansFewCallers` promises few callers only of symbols
  looked up under their entities' names.
- Symbols are looked for in the file that is checked out, whichever commit, range or
  `--staged` was asked about (extractor.py:57,138-141); a file that is gone or not
  parsed has no changed symbol (138, 233-250); and deleted lines have numbers of the
  old file (145).  `AttributionIsExact` says what is true under each.
- codegraph names depend on homonyms anywhere in the database, so an addition can
  break chains between kept nodes (`FalseBreaksAreHomonyms`).
- A git log path with `|` stores the commit in front of it twice (`CommitsCountedOnce`).
- `debt --with-git` with a failing git counts as a score of 100 in place of
  topology; "more signal = strictly lower score" ends at the caps
  (`WorseNeverScoresBetter` has "not higher").
- Hubs of utility modules are excluded in the fallback of `topology` only
  (`FallbackAgrees`).
- An excluded import node with the raw name of an entity counts as resolvable in
  `branch-diff`.

Evaluations:

- Version 7's audit requires `model_categories_valid` in the registered identity, which
  version 7's pilot never registers: every cohort is refused.
- Version 8 compares raw occurrences of the model's labels although its document
  allows duplicates; version 9 does not.
- From version 6 on the retained result is the last of the stream, with an answer or
  not, and a stream without one makes the whole cohort unauditable.
- The first audit forgets the tool budget; the second does not see a baseline's
  branch-diff call that returned no JSON object.
- A run without an answer hides faults of the protocol behind a status that does not
  stop the pilot.  The locus may be shown by a namesake.  No loader looks whether it
  is in the checkout; version 2's dropped checks of version 1's.  A failed
  materialization blocks its retry.  A failing `git status` counts as clean in the
  first two drivers.  From version 3 to 7 a warm repeat that raises ends the driver.

## 4. Fairness

`WorkspaceSync` assumes `WF_vars(Step(p))` for every process: a command that was
started and is not killed runs to its end, which is what the scheduler of the machine
gives a process, and no step of a command waits for another one's (SQLite's busy
timeout ends in a death, which is an event).  The developer and `Die` are
under no fairness.  Under it `CatchesUp` holds: a store behind the last commit becomes
current without anybody running a command, unless what the store has can no longer be
told (`Trusted`): commands overlapped, one died, the hook skipped a commit, edits
were thrown away after a refresh, or rows were appended.  `Trusted` has no exception
for edits, partial commits, merges or changed configurations.

The other specifications assume no fairness, and only safety is checked of them.

## 5. Proofs

The proof modules are checked by TLAPS for all values of the constants that satisfy
the named assumptions of their modules (`StoreAssumption`, `IngestAssumption`,
`SpaceAssumption`, `ProvisionAssumption`, `SyncAssumption`, `AnalysesAssumption`,
`ReviewAssumption`, `PilotAssumption`): any numbers of files, symbols, trees, refs,
commits and concurrent commands, any LIKE relation in which a file matches its own
source ids, any function from refs to databases, any finite codegraph database, with
deaths and failures or without.  TLC evaluates the assumptions in the runs.  Those that
are more than a type say:

- `IngestAssumption`, `SyncAssumption`: a repository has finitely many files, and a file
  has finitely many references.  The trees themselves may be infinitely many.
- `AnalysesAssumption`, of the questions: a changed file's lines are kept, added or
  removed, in a new file added, and a symbol owns a block of them, in the diff as in
  the checkout (`IsEdit`); graphs, layouts and codegraph databases are finite, and
  calls are between stored nodes (`IsImpact`, `IsLayout`, `IsTopology`); git prints a
  commit once with its files behind it (`IsHistory`); depths and thresholds are
  natural numbers, the low threshold below the high one.
- `ReviewAssumption`, of the runs (`IsQuestion`): call ids are unique and a response
  follows its call; contract versions are 1 to 9; the oldest surface asks for an
  available comparison; the navigation cap is one below the tool budget.
- `PilotAssumption` (`IsPilot`): the driver asks for runs of its own version, and probes
  the model at least once.

| Module | Theorem | Statement |
|---|---|---|
| `GraphStoreProofs` | `StoreTypeCorrect` | `StoreSpec => []StoreTypeOK` |
| `GraphStoreProofs` | `StoreOneVector` | `StoreSpec => []OneVectorPerName` |
| `GraphStoreProofs` | `OrphansHaveNoDegree` | `StoreSpec => []OrphanIffNoDegree`: the orphan report is exactly the entities of degree zero |
| `GraphStoreProofs` | `WritesOrphanNoVector` | `StoreSpec => NoNewOrphanVectors`: no write takes the row of a vector away |
| `GraphIngestProofs` | `TypeCorrect` | `Spec => []TypeOK` |
| `GraphIngestProofs` | `VectorsAlwaysOwned` | `Spec => []VectorsOwned`: no vector without its row |
| `GraphIngestProofs` | `ImplementsStore` | `Spec => [][StoreNext]_storeVars`: every step of a command is a write method of the store with arguments in its domain, or leaves the store alone |
| `GraphIngestProofs` | `StableSymbolsSurvive` | `Spec => StableSurvives`: a symbol every tree declares, in a file no other path shadows, is removed by a clear rebuild only |
| `IngestOutcomeProofs` | `EmptyExportWipesNothing` | `Spec => NoWipeOnEmptyExport`: what empties a store is a clear or a GC of a run whose export is not empty |
| `IngestOutcomeProofs` | `VectorsMatchRows` | `Spec => []VectorMatchesRow`: until an embedding fails, a vector is that of the content and place its row has |
| `IngestOutcomeProofs` | `RebuildsAreExact` | `Spec => []RebuildExact`: an undisturbed rebuild leaves its export and nothing else |
| `IngestOutcomeProofs` | `RatiosAreOfFullExport` | `Spec => []RatioOfFullExport`: the ratios an undisturbed run leaves count its whole export |
| `IngestOutcomeProofs` | `IncrementalRunsAreExact` | `Spec => []IncrementalExact`: an undisturbed incremental run leaves exactly the export's symbols and all its relations for what it covered |
| `IngestOutcomeProofs` | `UpdatesConverge` | `Spec => []UpdateConverges`: an update of the index of HEAD~1 ends with the working tree's symbols of every tracked file that is there |
| `EmbeddingSpaceProofs` | `TypeCorrect` | `Spec => []TypeOK` |
| `EmbeddingSpaceProofs` | `OneSpaceHolds` | `Spec => []OneSpace`: all vectors are of the recorded space, unless two first choices raced or an explicit provider wrote against the record |
| `EmbeddingSpaceProofs` | `QueriesInSpace` | `Spec => []QueryInSpace`: a search on auto stays in its space, with the same exceptions |
| `EmbeddingSpaceProofs` | `StickyHolds` | `Spec => Sticky`: the record, once made, stays, unless a choice is recorded over a store written since it was read |
| `SnapshotProvisionProofs` | `Types` | `Spec => []TypeOK` |
| `SnapshotProvisionProofs` | `DiffsAreFresh` | `Spec => []DiffsItsRefs`: a comparison reads the exports of the commits its call resolved, if nothing but provisioning touched its databases |
| `SnapshotProvisionProofs` | `RefsApart` | `Spec => []SidesApart`: two different refs of a call never share a database, unless another call, the user or `-w` interfered |
| `SnapshotProvisionProofs` | `UserIndexIsKept` | `Spec => UserIndexKept`: the decision table never empties a database that has the user's index |
| `SnapshotProvisionProofs` | `Refines` | `Spec => ImplementsCache`: the calls implement `SnapshotCache` |
| `WorkspaceSyncProofs` | `Types` | `Spec => []TypeOK` |
| `WorkspaceSyncProofs` | `NeverMixed` | `Spec => []OneBackend` |
| `WorkspaceSyncProofs` | `RecordIsRight` | `Spec => []RecordNamesRows`: between commands the record names the backend of the rows |
| `WorkspaceSyncProofs` | `NoopKeepsSnapshot` | `Spec => NoopIsCurrent`: an update that ends at an equal fingerprint leaves the snapshot it found |
| `WorkspaceSyncProofs` | `IdleWorkspaceIsCurrent` | `Spec => []IdleIsCurrent`: between commands the store has what the last commit promises, or one of the named exceptions is on record |
| `AnalysesProofs` | `NoChainIsLost` | `Spec => []BrokenChainsComplete`: every call whose callee is gone is reported |
| `AnalysesProofs` | `NoSilentChange` | `Spec => []EmptyDiffMeansSame` |
| `AnalysesProofs` | `CompareSeesRows` | `Spec => []CompareMissesOnlyDangling` |
| `AnalysesProofs` | `BreaksOfKeptNodes` | `Spec => []FalseBreaksAreHomonyms` |
| `AnalysesProofs` | `ScoreIsMonotone` | `Spec => []WorseNeverScoresBetter` |
| `AnalysesProofs` | `ChangesAreAttributed` | `Spec => []AttributionIsExact`: changed lines are attributed to their symbols where the checkout has the diff's new side in place, deletions excepted as the property says; an unparsed file has none |
| `AnalysesProofs` | `CallersAreFound` | `Spec => []CallersComplete`: none that should not be listed; all direct callers of what was looked up under its entity's name, and those within two calls with the property's exceptions |
| `AnalysesProofs` | `LowRiskIsLow` | `Spec => []LowMeansFewCallers`: no core change and no empty answer of a sparse store is called low, nor many callers if all lookups were of entities and succeeded |
| `AnalysesProofs` | `GraphIsReach` | `Spec => []TraversalIsReach`: the breadth-first search finds what a walk of its depth reaches |
| `AnalysesProofs` | `StructureIsFound` | `Spec => []DepsFindsStructure`: the depth is the first that tells two modules apart, and the counts of the module pairs are those of their calls |
| `AnalysesProofs` | `TopologiesAgree` | `Spec => []FallbackAgrees` |
| `AnalysesProofs` | `HistoryIsCounted` | `Spec => []CommitsCountedOnce` |
| `ReviewProofs` | `FaultsStop` | `Spec => []FaultsStopThePilot`: from version 3 on a packet stops the pilot at a fault of the protocol and at nothing else |
| `ReviewProofs` | `PilotsStop` | `Spec => []PilotStopsAtFirstFault`, for cohorts of any length |
| `ReviewProofs` | `OneCallIsEnough` | `Spec => []OneCallCertifies`, for streams of any length |
| `ReviewProofs` | `ProtocolCanBeFollowed` | `Spec => []RightAgentCompletes`: no rung of any version's ladder stops who follows the instruction |
| `ReviewProofs` | `AuditsConfirm` | `Spec => []AuditConfirms` |
| `ReviewProofs` | `HonestCohortsPass` | `Spec => []HonestCohortPasses` |

The store's invariants are inductive, and its connectivity queries agree on any tables.
The pipeline's need a strengthening,
`IInv`: types; every stored row is a row some tree exports (`RowsExported`); a run's
scan holds source ids of the file it scans, and what it has collected agrees with
its export and names no stable symbol to drop (`RunInv`).  Without the second
part, an old row could claim a source id in another file, and the diff of that
file would drop a symbol that still exists; that is where the assumption that
`Owner` and `FileOf` agree is used, and why the theorem excludes shadowed files.
The proof is one step per action: a write method is first reduced to what it does
to the tables (`StepIsStoreCall`, `GraphTablesChange`, `GcRows`), then each part of
`IInv` is shown for those effects.

What a finished command leaves (`IngestOutcomeProofs`) needs invariants that follow an
undisturbed run through its steps, each saying what the store has at this step.
For every run: `ExportHeld` (past the gate of empty exports, the export is not empty) and
`MetaHeld` (a ratio that is no longer queued has its value).  For a rebuild:
`RebuildHeld` (the store is empty behind the clear, and the export behind the insert).
For an incremental run: `ScanShape` (what is still to scan is part of what changed),
`ScanView` (what a scan has read is what the store has, and a file behind it has its
leftover symbols marked to drop and its new or changed ones marked to write),
`Covered` (behind the GC, a covered file has no symbol that is gone, and the
others are in the store or about to be written) and `Exact` (behind the insert, it has the
export's).  Shadowed files break `Covered`, which is why the property excludes
them.  `UpdateConverges` adds `Untouched` and `SyncHeld`: the files the diff
does not name have the rows of the index the update started on.  `VectorsMatchRows` needs no such
strengthening, and no absence of other commands: a write whose every row has its
embedding replaces row and vector together (`BatchKeepsMatch`), whatever the scan
before it saw.

For `EmbeddingSpace` the strengthening follows the three store accesses of
`resolve_embedding_client`.  `Window`: between finding nothing recorded and
recording a choice, record and table are as they were read unless somebody
wrote, which the history variable `disturbed` tells; in particular the table
is still empty when `Probe` records.  `Chosen`: a client nobody configured is
the recorded one, until two first choices race.  `Ready`: a search and a backfill
have a client when they use it.  `OneSpace` needs all three: an insert adds vectors
of its client only, and `Chosen` or the absence of `detached` makes that client
the recorded one; `Window` is what makes a first record true of the table.

For `SnapshotProvision` (`Inv`): a database nobody marked has at most one holder
(`OneHolder`); commits of calls and tags are or were their refs' (`Resolved`,
`TagsKnown`); a call's keys are written in order and are its own (`Writing`), over a
snapshot its ref had left (`Leaving`); what is in a database while it is filled and
between two calls (`Filled`, `Stored`); a side once up to date stays so (`Sided`); a
database about to be emptied has nothing of the user's (`Claimed`).  The crash
between clear and tags is the reason for `Leaving` and `Stored`: the old tags
survive over an empty or half filled database, and are harmless because the commit
they name is no longer the ref's, until the ref goes back (`back`).  The refinement
shows for every step that the mapped slots are filled, emptied or spoiled
as `SnapshotCache` allows, or do not change.

For `WorkspaceSync` (`Inv`): fingerprints grow and name one tree (`Stamps`); commands of
two backends are crossed only when they overlap (`Crossing`); a rebuild that nobody
overlaps has the store to itself (`Solitude`); rows are of the recorded backend, but
for a command about to record another (`Partition`); and a recorded fingerprint that is
the latest one stands for its very snapshot (`Fingerprint`).  `IdleIsCurrent` needs
the other direction, what the store must have (`InStep`): an edit makes a version nobody
has seen (`Versioned`); a store is at most one commit behind while an update looks
(`Behind`); what a running command will not write is in the store already (`Promises`);
and what it exported of the clean files is HEAD's (`Own`).

For the analyses and the reviews the invariant is that an answer is what its operator
computes (`AnswersInv`); the rest is about the operators.

- `branch-diff` and the score: set algebra over the report, and monotonicity of each
  penalty through its caps (`Measured` and the lemmas before it).
- Loops.  The library's induction theorems take an operator, which none of the provers
  can instantiate.  The least counterexample takes its place: a set of natural
  numbers that is not empty has a least member (`LeastNumber`), so the steps at which
  something fails have a first one.  From it come the equation of a fold
  (`FoldExists`, `FoldInduction`), sums over finite sets (`SumFold`, `PartitionSum`), the
  breadth-first search layer by layer (`SearchOf`, `LayersReach`: what has been visited
  after some layers is what a walk of at most so many steps reaches), the callers symbol by symbol
  (`CallersOneByOne`), and the lines of a diff with the two counters of its reader
  (`LinesOneByOne`, `LineNumbers`).
- `deps`: the settled depth is a least number; the module pairs partition the calls.
- The log: its automaton splits the lines at the headers, and the commits it has for a
  file and the commits that have the file are in bijection (`FS_Bijection`).
- Packets.  A builder is a ladder of which the first rung that holds decides, so a
  status says that its rung holds and all before it do not.  `FaultsStop` goes through the
  ladders once (`Strict`, `Stopping`, `Failures`, `Stages`), `OneCallIsEnough` through the rungs
  below `complete`, and `ProtocolCanBeFollowed` shows for each rung above it that an agent that
  does as told (`Follows`) does not meet it.
- Pilots and audits.  The driver's cells are a least-number argument again: the first
  cell that goes wrong is the last that is run.  `AuditsConfirm` shows that what an audit
  rebuilds is what the adapter had (`Retraced`, `Confirms`), version by version;
  `HonestCohortsPass` that no check of driver, adapter, audit or gate refuses an honest
  cohort.

Every invariant and every action property that a passing run checks is stated by a
theorem.  Model-checked only: `CatchesUp`, since liveness under fairness is out of the
prover's reach; and the violated properties, whose counterexamples are TLC's.
`ReviewProofs` and `AnalysesProofs` prove of each operator what the properties
need, not all it does: report order, caps and totals are not modelled at all.

## 6. Plan

Done: `GraphStore`, `GraphIngest`, `EmbeddingSpace`, `SnapshotProvision` with
`SnapshotCache`, `WorkspaceSync`, the analyses, the reviews, and the proofs of section 5.

What is left, in this order:

1. `provision` with two processes, which the proofs cover and no run does.
2. The four reads of `compare` one by one, against a concurrent update.
3. The files of hook installation and removal, with the backup of a custom hook.
4. Trend snapshots.
5. An abstract specification of the pipeline (an index that shows one tree or is behind
   it), implemented by `GraphIngest` when nobody overlaps; `RebuildExact`, `IncrementalExact` and
   `UpdateConverges` are its steps.

## 7. Not modelled

- Network clients and the embedding model: their outcomes (a vector, a failure)
  are choices of the pipeline's model.  The nearest-neighbour arithmetic.
- SQLite's own locking and recovery: a store method is a transaction.  Its limit on host
  parameters (sqlite_store.py:553) is a failed transaction like any other, and
  those are deaths here.
- `workspace delete`, which unlinks database, WAL and SHM one by one
  (`_workspace.py:144`) while an update may hold them open; import and export.
- Trend snapshots of one second, of which the second overwrites the first
  (trends.py:57), alerts and charts.
- `hooks install` over a custom hook and its backup (`_hooks.py:119`).
- `overview`, `similar` and `orientation`, which format what other queries return;
  report caps, sorting, wording; issue texts, bus factor, coupling and whitelist
  details of topology and debt.
- Argument parsing, envelopes, defaults that differ between CLI and MCP, the MCP
  transport, loading of settings.  Some commands that only read create an empty
  database for a workspace that does not exist; no model has a workspace that
  does not exist.
- In `evals/`: capability observations, the target cohort and its summaries, the omp
  adapter.  They are benchmarks and statistics over finished runs, without a
  protocol like that of the reviews.  `scripts/` and the skills.
- Two hazards of `PROJECT.json` have no property: the refusal of every branch-diff of
  a commit after a rebuild that died before its tag (a user has to delete a
  workspace; nothing in the code ever does), and edges of unchanged files whose
  target comes or goes, which the incremental contract excludes.
