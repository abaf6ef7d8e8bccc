---------------------------- MODULE GraphIngest -----------------------------
(***************************************************************************)
(* The graph-export ingest pipeline over one workspace: `index`, `update`  *)
(* and the MCP `refresh` (cli/_indexing.py) reading a git working tree     *)
(* through codeindex and writing the workspace's GraphStore with ingest or *)
(* ingest_incremental (core/graph_export_ingest.py).                       *)
(*                                                                         *)
(* Each command is a process of its own (the terminal, the post-commit     *)
(* hook, an MCP call).  Every store call is one transaction; between two   *)
(* calls the working tree may be edited or committed, another command may  *)
(* write the same workspace, and the process may die.                      *)
(***************************************************************************)
EXTENDS GraphStore, Sequences

CONSTANTS
    Writers,       \* command processes
    Versions,      \* versions a file may have
    NoFile,        \* "the file does not exist"
    Trees,         \* the working trees the repository goes through
    Config,        \* the graph-affecting config file (.codeindex.yaml)
    Ignored,       \* config version -> files whose language is not enabled
    Owner,         \* name -> file its module-qualified id belongs to
    Decl,          \* file -> version -> the entity rows codeindex exports
    Refs,          \* file -> version -> (<<caller, callee>> -> source_id)
    RawOf,         \* callee -> the call expression of an unresolved edge
    FileOf,        \* source_id -> file (_file_of)
    HashOf,        \* content -> content_hash, or NoHash
    NoHash,
    EmbeddingOf,   \* content -> its embedding
    PathArgs,      \* file sets `refresh <path>` may expand to
    EmbedMayFail,  \* embedding is off, fails, or returns zero vectors
    MayAbort,      \* a process may die or raise in the middle of a run
    MaxRuns,       \* bound on the number of commands started
    MaxEdits       \* bound on the number of edits of the working tree

FileVersion == Versions \cup {NoFile}

ASSUME IngestAssumption ==
    /\ NoFile \notin Versions
    /\ Config \in Files
    /\ Trees \subseteq [Files -> FileVersion]
    /\ Ignored \in [FileVersion -> SUBSET Files]
    /\ IsFiniteSet(Files)
    /\ Owner \in [Names -> Files]
    /\ FileOf \in [Sources -> Files]
    /\ \A f \in Files, v \in Versions :
          /\ IsTable(Decl[f][v], Names, EntityRow)
          /\ \A n \in DOMAIN Decl[f][v] : Owner[n] = f /\ FileOf[Decl[f][v][n].source] = f
          /\ IsTable(Refs[f][v], Names \X Names, Sources) /\ IsFiniteSet(DOMAIN Refs[f][v])
    /\ RawOf \in [Names -> Endpoints]
    /\ \A f \in Files, v \in Versions : \A p \in DOMAIN Refs[f][v] :
          {<<p[1], p[2], "calls">>, <<p[1], RawOf[p[2]], "calls">>} \subseteq EdgeKeys
    /\ EmbeddingOf \in [Contents -> ValidEmbeddings]
    /\ \A s \in Sources : <<FileOf[s], s>> \in Like
    /\ PathArgs \subseteq SUBSET Files
    /\ EmbedMayFail \in BOOLEAN /\ MayAbort \in BOOLEAN
    /\ MaxRuns \in Nat /\ MaxEdits \in Nat
    /\ {"resolved_ratio", "internal_unresolved_ratio", "external_unresolved_ratio",
        "extraction_backend"} \subseteq MetaKeys
    /\ \A ks \in SUBSET EdgeKeys : ks \in MetaValues

VARIABLES
    base, head, work,   \* HEAD~1, HEAD and the working tree
    pc,                 \* writer -> where its command is
    job,                \* writer -> "index", "update" or "refresh"
    mode,               \* writer -> "rebuild", "upsert" or "incremental"
    snap,               \* writer -> the tree its export was taken from
    changed,            \* writer -> changed_files
    todo,               \* writer -> changed files not yet diffed
    scan,               \* writer -> the file being diffed and its source_ids
    fresh,              \* writer -> to_embed: symbols to embed and upsert
    drop,               \* writer -> to_delete: symbols gone from the export
    attached,           \* writer -> symbols that carry an embedding
    left,               \* writer -> meta keys still to write
    runs, edits,        \* bounds
    disturbed,          \* history: another writer wrote during the run
    synced,             \* history: the store was the index of base when the
                        \* run began, and neither store nor tree has moved
    embedFailed         \* history: some symbol was written without its vector

treeVars  == <<base, head, work>>
runVars   == <<pc, job, mode, snap, changed, todo, scan, fresh, drop, attached, left>>
histVars  == <<disturbed, synced, embedFailed>>
vars == <<storeVars, treeVars, runVars, runs, edits, histVars>>

-----------------------------------------------------------------------------
(* What codeindex exports from a tree, and the reader's mapping of it.     *)

SourceFiles == Files \ {Config}

Visible(t) == {f \in SourceFiles : t[f] # NoFile} \ Ignored[t[Config]]

ExportEntities ==
    [t \in Trees |->
        [n \in {m \in Names : /\ Owner[m] \in Visible(t)
                              /\ m \in DOMAIN Decl[Owner[m]][t[Owner[m]]]} |->
            Decl[Owner[n]][t[Owner[n]]][n]]]

ExportNames(t) == DOMAIN ExportEntities[t]

ExportRefs(t) == {p \in Names \X Names :
                    /\ p[1] \in ExportNames(t)
                    /\ p \in DOMAIN Refs[Owner[p[1]]][t[Owner[p[1]]]]}

\* Mutant: every unresolved edge points at one sentinel.
MapEdgeSentinel(t, p) ==
    <<p[1], IF p[2] \in ExportNames(t) THEN p[2] ELSE "__unresolved__", "calls">>

\* map_edge: a resolved edge points at the entity, an ambiguous or unresolved
\* one at the call expression
MapEdge(t, p) ==
    <<p[1], IF p[2] \in ExportNames(t) THEN p[2] ELSE RawOf[p[2]], "calls">>

ExportRelations ==
    [t \in Trees |->
        [k \in {MapEdge(t, p) : p \in ExportRefs(t)} |->
            LET p == CHOOSE q \in ExportRefs(t) : MapEdge(t, q) = k
            IN  Refs[Owner[p[1]]][t[Owner[p[1]]]][p]]]

\* Mutant: an empty export is written through.
SafeAlways(t) == TRUE

\* assess_export: only a non-empty export may be written
Safe(t) == ExportNames(t) # {}

\* compute_resolution_breakdown, each ratio kept as the edge set it counts.
\* The model exports no ambiguous edge.
Resolved(t) == {k \in DOMAIN ExportRelations[t] :
                  k[1] \in ExportNames(t) /\ k[2] \in ExportNames(t)}

MetaValueOf(key, t) ==
    CASE key = "resolved_ratio"            -> Resolved(t)
      [] key = "external_unresolved_ratio" -> DOMAIN ExportRelations[t] \ Resolved(t)
      [] OTHER                             -> {}

RatioKeys == <<"resolved_ratio", "internal_unresolved_ratio", "external_unresolved_ratio">>

-----------------------------------------------------------------------------
(* What git reports.  The index tracks the files of HEAD; an edit is       *)
(* unstaged until it is committed, and a new file untracked.               *)

Tracked(f) == IF head[f] = NoFile THEN NoFile ELSE work[f]

\* _diff_names_with_deletions(since = HEAD~1): tree against working tree
DiffNames == {f \in Files : Tracked(f) # base[f]}

\* Mutant: only uncommitted changes count.
GetUncommittedFiles == {f \in Files : Tracked(f) # head[f] /\ Tracked(f) # NoFile}

\* get_changed_files: the same diff without the deleted files
GetChangedFiles == {f \in DiffNames : Tracked(f) # NoFile}

\* get_working_tree_files: git status, untracked included, deleted excluded
GetWorkingTreeFiles == {f \in Files : work[f] # head[f] /\ work[f] # NoFile}

-----------------------------------------------------------------------------
(* A run's local state.  NoScan is the value of scan between two files.    *)

NoScan == [file |-> Config, sids |-> {}]

Idle(w) == pc[w] \in {"idle", "done", "refused"}

Goto(w, l) == pc' = [pc EXCEPT ![w] = l]

KeepTree == UNCHANGED <<treeVars, runs, edits>>

\* history kept by every step of w that writes the store
Writes(w) == /\ disturbed' = [u \in Writers |-> disturbed[u] \/ u # w]
             /\ synced' = [u \in Writers |-> synced[u] /\ u = w]

KeepHist == UNCHANGED histVars

\* A new command: job j in mode m goes to label l with changed-file set c.
Begin(w, j, m, l, c) ==
    /\ Idle(w)
    /\ runs < MaxRuns
    /\ runs' = runs + 1
    /\ Goto(w, l)
    /\ job' = [job EXCEPT ![w] = j]
    /\ mode' = [mode EXCEPT ![w] = m]
    /\ snap' = [snap EXCEPT ![w] = work]
    /\ changed' = [changed EXCEPT ![w] = c]
    /\ todo' = [todo EXCEPT ![w] = {}]
    /\ scan' = [scan EXCEPT ![w] = NoScan]
    /\ fresh' = [fresh EXCEPT ![w] = {}]
    /\ drop' = [drop EXCEPT ![w] = {}]
    /\ attached' = [attached EXCEPT ![w] = {}]
    /\ left' = [left EXCEPT ![w] = <<>>]
    /\ disturbed' = [disturbed EXCEPT ![w] = FALSE]
    /\ synced' = [synced EXCEPT ![w] = j = "update" /\ entities = ExportEntities[base]]
    /\ UNCHANGED <<storeVars, treeVars, edits, embedFailed>>

\* `index`, with and without --clear
BeginIndex(w) ==
    \E m \in {"rebuild", "upsert"} : Begin(w, "index", m, "export", Files)

\* `update`: the diff gate decides before the export.  A config file in the
\* diff demands a clear rebuild; a diff without source files ends the command.
BeginUpdate(w) ==
    \/ Config \in DiffNames /\ Begin(w, "update", "rebuild", "export", Files)
    \/ /\ Config \notin DiffNames
       /\ DiffNames \cap SourceFiles # {}
       /\ Begin(w, "update", "incremental", "export", {})

\* `update --files`, or outside a git repository: no gate, no deletion
BeginUpdateFiles(w) == Begin(w, "update", "upsert", "export", Files)

\* MCP `refresh`: the changed set is read before the export, and an empty
\* one ends the call
BeginRefresh(w) ==
    \/ Begin(w, "refresh", "rebuild", "export", Files)        \* force_full
    \/ /\ GetWorkingTreeFiles # {}
       /\ Begin(w, "refresh", "incremental", "export", GetWorkingTreeFiles)
    \/ \E p \in PathArgs :                                    \* path (_expand_path)
          LET existing == {f \in p : work[f] # NoFile}
          IN  existing # {} /\ Begin(w, "refresh", "incremental", "export", existing)

-----------------------------------------------------------------------------
(* The steps of a run.                                                     *)

\* Mutant: the GC of removed symbols is left out.
AfterScanNoGc(dr) == "embed"

AfterScan(dr) == IF dr = {} THEN "embed" ELSE "gc"

\* run_graph_export and the zero-entity gate behind it
Export(w) ==
    /\ pc[w] = "export"
    /\ snap' = [snap EXCEPT ![w] = work]
    /\ \/ /\ ~Safe(work)
          /\ Goto(w, "refused") /\ UNCHANGED <<todo, fresh>>
       \/ /\ Safe(work) /\ mode[w] # "incremental"
          /\ Goto(w, IF mode[w] = "rebuild" THEN "clear" ELSE "embed")
          /\ fresh' = [fresh EXCEPT ![w] = ExportNames(work)]
          /\ UNCHANGED todo
       \/ /\ Safe(work) /\ mode[w] = "incremental" /\ job[w] = "update"
          /\ Goto(w, "diff") /\ UNCHANGED <<todo, fresh>>
       \/ /\ Safe(work) /\ mode[w] = "incremental" /\ job[w] = "refresh"
          /\ Goto(w, "scan")
          /\ todo' = [todo EXCEPT ![w] = changed[w]]
          /\ UNCHANGED fresh
    /\ UNCHANGED <<storeVars, job, mode, changed, scan, drop, attached, left>>
    /\ KeepTree /\ KeepHist

\* _async_update asks git for the changed files only now, after the export
Diff(w) ==
    /\ pc[w] = "diff"
    /\ changed' = [changed EXCEPT ![w] = GetChangedFiles]
    /\ todo' = [todo EXCEPT ![w] = GetChangedFiles]
    /\ Goto(w, IF GetChangedFiles = {} THEN "embed" ELSE "scan")
    /\ UNCHANGED <<storeVars, job, mode, snap, scan, fresh, drop, attached, left>>
    /\ KeepTree /\ KeepHist

\* get_source_ids(f) for the next changed file
ScanSourceIds(w) ==
    /\ pc[w] = "scan"
    /\ \E f \in todo[w] :
          /\ scan' = [scan EXCEPT ![w] = [file |-> f, sids |-> GetSourceIds(f)]]
          /\ todo' = [todo EXCEPT ![w] = @ \ {f}]
    /\ Goto(w, "rows")
    /\ UNCHANGED <<storeVars, job, mode, snap, changed, fresh, drop, attached, left>>
    /\ KeepTree /\ KeepHist

\* Mutant: file-level GC, the file's symbols go before they are upserted again.
GoneWithFile(old, new) == old

\* symbols of the store that the new export of the file does not have
Gone(old, new) == old \ new

\* both sides carry the same content_hash
SameHash(c, d) == HashOf[c] # NoHash /\ HashOf[c] = HashOf[d]

NewInFile(w, f) == {n \in ExportNames(snap[w]) : FileOf[ExportEntities[snap[w]][n].source] = f}

\* get_entities_by_source, and the per-symbol diff of the file: skip an
\* unchanged symbol, embed a new or changed one, drop one that is gone
ScanRows(w) ==
    LET old == GetEntitiesBySource(scan[w].sids)
        new == NewInFile(w, scan[w].file)
        dropped == drop[w] \cup Gone(old, new)
    IN  /\ pc[w] = "rows"
        /\ fresh' = [fresh EXCEPT ![w] = @ \cup
              {n \in new : n \in old => ~SameHash(entities[n].content,
                                                  ExportEntities[snap[w]][n].content)}]
        /\ drop' = [drop EXCEPT ![w] = dropped]
        /\ scan' = [scan EXCEPT ![w] = NoScan]
        /\ Goto(w, IF todo[w] # {} THEN "scan" ELSE AfterScan(dropped))
        /\ UNCHANGED <<storeVars, job, mode, snap, changed, todo, attached, left>>
        /\ KeepTree /\ KeepHist

\* symbol-level GC
Gc(w) ==
    /\ pc[w] = "gc"
    /\ DeleteEntities(drop[w])
    /\ Goto(w, "embed")
    /\ UNCHANGED <<job, mode, snap, changed, todo, scan, fresh, drop, attached, left>>
    /\ KeepTree /\ Writes(w) /\ UNCHANGED embedFailed

\* ingest(clear=True) empties the store before it embeds
Clear(w) ==
    /\ pc[w] = "clear"
    /\ DeleteAll
    /\ Goto(w, "embed")
    /\ UNCHANGED <<job, mode, snap, changed, todo, scan, fresh, drop, attached, left>>
    /\ KeepTree /\ Writes(w) /\ UNCHANGED embedFailed

\* maybe_embed_entities: disabled, a swallowed failure and zero vectors all
\* leave symbols without an embedding
Embed(w) ==
    /\ pc[w] = "embed"
    /\ \E a \in SUBSET fresh[w] :
          /\ a = fresh[w] \/ EmbedMayFail
          /\ attached' = [attached EXCEPT ![w] = a]
    /\ Goto(w, "insert")
    /\ UNCHANGED <<storeVars, job, mode, snap, changed, todo, scan, fresh, drop, left>>
    /\ KeepTree /\ KeepHist

\* relations whose source_id lies in the changed files (all of them in a
\* full ingest, whose changed is Files)
ChangedRelations(w) ==
    LET rels == ExportRelations[snap[w]]
    IN  Without(rels, {k \in DOMAIN rels : FileOf[rels[k]] \notin changed[w]})

MetaKeysOf(w) == IF job[w] = "index" THEN Append(RatioKeys, "extraction_backend") ELSE RatioKeys

Insert(w) ==
    LET ents == Without(ExportEntities[snap[w]], Names \ fresh[w])
    IN  /\ pc[w] = "insert"
        /\ InsertCustomKg(ents, [n \in attached[w] |-> EmbeddingOf[ents[n].content]],
                          ChangedRelations(w))
        /\ embedFailed' = (embedFailed \/ attached[w] # fresh[w])
        /\ left' = [left EXCEPT ![w] = MetaKeysOf(w)]
        /\ Goto(w, "meta")
        /\ UNCHANGED <<job, mode, snap, changed, todo, scan, fresh, drop, attached>>
        /\ KeepTree /\ Writes(w)

\* Mutant: an update computes the ratio over its changed subset (#158).
MetaValueOfSubset(w, key) ==
    LET rels == DOMAIN ChangedRelations(w)
    IN  CASE key = "resolved_ratio"            -> rels \cap Resolved(snap[w])
          [] key = "external_unresolved_ratio" -> rels \ Resolved(snap[w])
          [] OTHER                             -> {}

MetaValue(w, key) == MetaValueOf(key, snap[w])

\* persist_resolved_ratio over the full export, one transaction per key, and
\* the backend tag of `index`
PersistMeta(w) ==
    /\ pc[w] = "meta"
    /\ SetMeta(Head(left[w]), MetaValue(w, Head(left[w])))
    /\ left' = [left EXCEPT ![w] = Tail(@)]
    /\ Goto(w, IF Tail(left[w]) = <<>> THEN "done" ELSE "meta")
    /\ UNCHANGED <<job, mode, snap, changed, todo, scan, fresh, drop, attached>>
    /\ KeepTree /\ Writes(w) /\ UNCHANGED embedFailed

\* the process is killed, times out on the database lock, or an embedding
\* error that must not be swallowed propagates
Abort(w) ==
    /\ MayAbort
    /\ ~Idle(w)
    /\ Goto(w, "idle")
    /\ changed' = [changed EXCEPT ![w] = {}]
    /\ todo' = [todo EXCEPT ![w] = {}]
    /\ scan' = [scan EXCEPT ![w] = NoScan]
    /\ fresh' = [fresh EXCEPT ![w] = {}]
    /\ drop' = [drop EXCEPT ![w] = {}]
    /\ attached' = [attached EXCEPT ![w] = {}]
    /\ left' = [left EXCEPT ![w] = <<>>]
    /\ UNCHANGED <<storeVars, job, mode, snap>>
    /\ KeepTree /\ KeepHist

-----------------------------------------------------------------------------
(* The developer.                                                          *)

KeepStore == UNCHANGED <<storeVars, runVars, runs, disturbed, embedFailed>>

Edit ==
    /\ edits < MaxEdits
    /\ edits' = edits + 1
    /\ work' \in Trees \ {work}
    /\ UNCHANGED <<base, head>>
    /\ synced' = [w \in Writers |-> FALSE]
    /\ KeepStore

\* git add -A; git commit
Commit ==
    /\ head # work
    /\ base' = head
    /\ head' = work
    /\ UNCHANGED <<work, edits>>
    /\ synced' = [w \in Writers |-> FALSE]
    /\ KeepStore

-----------------------------------------------------------------------------
\* A workspace that is new, or was just indexed.
Init ==
    /\ work \in Trees /\ head = work /\ base = work
    /\ \/ entities = <<>> /\ relations = <<>> /\ vecs = {}
       \/ /\ Safe(work)
          /\ entities = ExportEntities[work]
          /\ relations = ExportRelations[work]
          /\ vecs = VecRows(entities, [n \in DOMAIN entities |-> EmbeddingOf[entities[n].content]])
    /\ meta = <<>>
    /\ pc = [w \in Writers |-> "idle"]
    /\ job = [w \in Writers |-> "index"]
    /\ mode = [w \in Writers |-> "rebuild"]
    /\ snap = [w \in Writers |-> work]
    /\ changed = [w \in Writers |-> {}]
    /\ todo = [w \in Writers |-> {}]
    /\ scan = [w \in Writers |-> NoScan]
    /\ fresh = [w \in Writers |-> {}]
    /\ drop = [w \in Writers |-> {}]
    /\ attached = [w \in Writers |-> {}]
    /\ left = [w \in Writers |-> <<>>]
    /\ runs = 0 /\ edits = 0
    /\ disturbed = [w \in Writers |-> FALSE]
    /\ synced = [w \in Writers |-> FALSE]
    /\ embedFailed = FALSE

Step(w) ==
    \/ BeginIndex(w) \/ BeginUpdate(w) \/ BeginUpdateFiles(w) \/ BeginRefresh(w)
    \/ Export(w) \/ Diff(w) \/ ScanSourceIds(w) \/ ScanRows(w)
    \/ Gc(w) \/ Clear(w) \/ Embed(w) \/ Insert(w) \/ PersistMeta(w)
    \/ Abort(w)

Next == Edit \/ Commit \/ \E w \in Writers : Step(w)

Spec == Init /\ [][Next]_vars
-----------------------------------------------------------------------------
(* Properties.                                                             *)

Labels == {"idle", "export", "diff", "scan", "rows", "gc", "clear", "embed",
           "insert", "meta", "done", "refused"}

\* Type invariant of the store and of every run's local state.
TypeOK ==
    /\ StoreTypeOK
    /\ base \in Trees /\ head \in Trees /\ work \in Trees
    /\ pc \in [Writers -> Labels]
    /\ job \in [Writers -> {"index", "update", "refresh"}]
    /\ mode \in [Writers -> {"rebuild", "upsert", "incremental"}]
    /\ snap \in [Writers -> Trees]
    /\ changed \in [Writers -> SUBSET Files]
    /\ todo \in [Writers -> SUBSET Files]
    /\ scan \in [Writers -> [file : Files, sids : SUBSET Sources]]
    /\ fresh \in [Writers -> SUBSET Names]
    /\ drop \in [Writers -> SUBSET Names]
    /\ attached \in [Writers -> SUBSET Names]
    /\ left \in [Writers -> Seq(MetaKeys)]
    /\ runs \in Nat /\ edits \in Nat
    /\ disturbed \in [Writers -> BOOLEAN]
    /\ synced \in [Writers -> BOOLEAN]
    /\ embedFailed \in BOOLEAN

\* No vector is left without its entity, whatever commands interleave and
\* wherever they die: the upsert and the GC write rows and vectors together.
VectorsOwned == OrphanVectors = {}

\* As long as every embedding succeeded, a symbol's vector is the embedding
\* of the very content and place its row holds, also after concurrent runs
\* and after runs that skipped it as unchanged.
VectorMatchesRow ==
    ~embedFailed => \A v \in vecs :
        /\ v.emb = EmbeddingOf[entities[v.name].content]
        /\ v.source = entities[v.name].source

StoredIn(f) == {n \in DOMAIN entities : FileOf[entities[n].source] = f}

\* f's source_ids match the LIKE prefix of another file of the set
Shadowed(f, fs) == \E g \in fs \ {f}, s \in Sources : FileOf[s] = f /\ <<g, s>> \in Like

SameRow(n, t) == \/ entities[n].content = ExportEntities[t][n].content
                 \/ SameHash(entities[n].content, ExportEntities[t][n].content)

Completed(w, m) == pc[w] = "done" /\ mode[w] = m /\ ~disturbed[w]

\* An incremental run nobody wrote into leaves exactly the export's symbols
\* and all of the export's relations for each file it covered, however
\* different the store was before (aborted runs, older indexes).
IncrementalExact ==
    \A w \in Writers : Completed(w, "incremental") =>
        /\ \A f \in changed[w] : ~Shadowed(f, changed[w]) =>
              /\ StoredIn(f) = NewInFile(w, f)
              /\ \A n \in StoredIn(f) : SameRow(n, snap[w])
        /\ \A k \in DOMAIN ChangedRelations(w) : k \in DOMAIN relations

\* A clear rebuild nobody wrote into leaves the export and nothing else.
RebuildExact ==
    \A w \in Writers : Completed(w, "rebuild") =>
        /\ entities = ExportEntities[snap[w]]
        /\ relations = ExportRelations[snap[w]]

\* git diff lists no untracked file: a config that is new would not rebuild
ConfigTracked == work[Config] = NoFile \/ head[Config] # NoFile

\* `update` keeps the index an index: started on the index of HEAD~1 and left
\* alone, with a config file that is tracked if there is one, it ends with the
\* working tree's symbols for every tracked file that was not deleted.
UpdateConverges ==
    \A w \in Writers :
        pc[w] = "done" /\ synced[w] /\ mode[w] # "upsert" /\ ConfigTracked =>
        \A f \in {g \in Visible(work) : head[g] # NoFile} :
            ~Shadowed(f, changed[w]) =>
                /\ StoredIn(f) = NewInFile(w, f)
                /\ \A n \in StoredIn(f) : SameRow(n, snap[w])

\* The persisted resolution ratios are those of the whole export the last
\* run wrote, also after an update of a few files (#154/#158).
RatioOfFullExport ==
    \A w \in Writers : pc[w] = "done" /\ ~disturbed[w] =>
        /\ meta["resolved_ratio"] = Resolved(snap[w])
        /\ meta["resolved_ratio"] \cup meta["external_unresolved_ratio"]
              = DOMAIN ExportRelations[snap[w]]

\* The row of n in tree t is n's own row, in a file no other path is a LIKE
\* prefix of
StableIn(n, t) ==
    /\ n \in ExportNames(t)
    /\ \A g \in Files : <<g, ExportEntities[t][n].source>> \in Like => g = Owner[n]

\* symbols every tree the repository goes through declares
Stable == {n \in Names : \A t \in Trees : StableIn(n, t)}

\* A symbol that is always in the tree is never garbage-collected: once
\* stored, only a clear rebuild removes it, whatever edits and runs overlap.
StableSurvives ==
    [][ \A n \in Stable : n \in DOMAIN entities /\ n \notin DOMAIN entities' =>
            \E w \in Writers : pc[w] = "clear" /\ pc'[w] = "embed" ]_vars

\* A 0-entity export never empties a non-empty store (#120): what empties it
\* is a run that holds a non-empty export.
NoWipeOnEmptyExport ==
    [][ entities # <<>> /\ entities' = <<>> =>
            \E w \in Writers : pc[w] \in {"clear", "gc"} /\ ExportNames(snap[w]) # {} ]_vars

-----------------------------------------------------------------------------
(* Claims of the repository's text that the code does not keep.            *)

\* ingest_incremental: what GC deletes is "in store but absent from the new
\* export".
GcOnlyRemovesAbsent ==
    \A w \in Writers : pc[w] = "gc" => drop[w] \cap ExportNames(snap[w]) = {}

\* `update` "garbage-collect[s] symbols deleted since the last index".
DeletedSymbolsCollected ==
    \A w \in Writers :
        pc[w] = "done" /\ job[w] = "update" /\ mode[w] = "incremental" /\ synced[w] =>
            DOMAIN entities \subseteq ExportNames(snap[w])

\* "embedding failure logs a warning [...] the vec0 column just stays empty":
\* a vector there is always of the row it stands for.
NoStaleVector ==
    \A v \in vecs : v.emb = EmbeddingOf[entities[v.name].content]
=============================================================================
