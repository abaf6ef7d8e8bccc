--------------------------- MODULE EmbeddingSpace ---------------------------
(***************************************************************************)
(* Which provider embeds a workspace (embedding/resolve.py), for the       *)
(* commands that write vectors (index, update, embed-backfill) and the one *)
(* that queries them (search).  The vectors of two providers are not       *)
(* comparable, so the choice an `auto` command makes is recorded in the    *)
(* workspace's meta table and obeyed from then on.                         *)
(*                                                                         *)
(* An embedding is abstracted to the provider it comes from.  Each command *)
(* is a process; it reads the configuration when it starts, and every      *)
(* store call is a transaction of its own.                                 *)
(***************************************************************************)
EXTENDS GraphStore

CONSTANTS
    Procs,       \* command processes
    RowOf,       \* name -> the entity row its export gives
    None,        \* "no client", "no explicit provider"
    Legacy,      \* the workspace may have vectors from before the record
    MayDie,      \* a command may die or raise between two store calls
    MaxRuns,     \* bound on the number of commands started
    MaxChanges   \* bound on the number of changes of the configuration

Key == "embedding_provider"

Probed == {"ollama", "builtin"}   \* what an auto command may choose

ASSUME SpaceAssumption ==
    /\ Probed \subseteq ValidEmbeddings
    /\ ValidEmbeddings = Embeddings
    /\ Probed \subseteq MetaValues /\ Key \in MetaKeys
    /\ None \notin Embeddings
    /\ RowOf \in [Names -> EntityRow]
    /\ Legacy \in BOOLEAN /\ MayDie \in BOOLEAN
    /\ MaxRuns \in Nat /\ MaxChanges \in Nat

VARIABLES
    setting,    \* the configured provider, None for `auto`
    pc, job,    \* process -> where its command is, and which command
    explicit,   \* process -> the provider configured when it started, or None
    batch,      \* process -> the symbols it embeds
    client,     \* process -> the provider it resolved, or None
    runs, changes,  \* bounds
    disturbed,  \* history: the store was written since the process last read
                \* the record
    raced,      \* history: a choice was recorded after such a write
    detached    \* history: an explicit provider wrote into a workspace whose
                \* record names another one

procVars == <<pc, job, explicit, batch, client>>
envVars  == <<setting, runs, changes>>
histVars == <<disturbed, raced, detached>>
vars == <<storeVars, procVars, envVars, histVars>>

-----------------------------------------------------------------------------
Recorded == IF Key \in DOMAIN meta THEN meta[Key] ELSE None

\* what get_source_ids, the diff and the export of a command come to
Rows(ns) == [n \in ns |-> RowOf[n]]

Idle(p) == pc[p] = "idle"

Goto(p, l) == pc' = [pc EXCEPT ![p] = l]

KeepStore == UNCHANGED storeVars
KeepProc  == UNCHANGED <<job, explicit, batch, client>>

\* history kept by every step of p that writes the store
Writes(p) == disturbed' = [q \in Procs |-> disturbed[q] \/ q # p]

\* the command is over, whatever its outcome; its locals are forgotten
End(p) ==
    /\ Goto(p, "idle")
    /\ explicit' = [explicit EXCEPT ![p] = None]
    /\ batch' = [batch EXCEPT ![p] = {}]
    /\ client' = [client EXCEPT ![p] = None]
    /\ UNCHANGED job

Begin(p, j, l, ns) ==
    /\ Idle(p)
    /\ runs < MaxRuns
    /\ runs' = runs + 1
    /\ Goto(p, l)
    /\ job' = [job EXCEPT ![p] = j]
    /\ explicit' = [explicit EXCEPT ![p] = setting]
    /\ batch' = [batch EXCEPT ![p] = ns]
    /\ client' = [client EXCEPT ![p] = None]
    /\ KeepStore
    /\ UNCHANGED <<setting, changes, histVars>>

\* `index`, with and without --clear
BeginIndex(p) == \E l \in {"clear", "gate"} : Begin(p, "index", l, Names)

\* `update` and `refresh`, with and without symbols to garbage-collect
BeginUpdate(p) == \E ns \in SUBSET Names, l \in {"gc", "gate"} : Begin(p, "update", l, ns)

BeginBackfill(p) == Begin(p, "backfill", "count", {})

BeginSearch(p) == Begin(p, "search", "count", {})

-----------------------------------------------------------------------------
(* Before the provider is needed.                                          *)

Clear(p) ==
    /\ pc[p] = "clear"
    /\ DeleteAll
    /\ Goto(p, "gate")
    /\ Writes(p)
    /\ KeepProc /\ UNCHANGED <<envVars, raced, detached>>

Gc(p) ==
    /\ pc[p] = "gc"
    /\ \E ns \in SUBSET (Names \ batch[p]) : DeleteEntities(ns)
    /\ Goto(p, "gate")
    /\ Writes(p)
    /\ KeepProc /\ UNCHANGED <<envVars, raced, detached>>

\* maybe_embed_entities: embedding is off, or there is nothing to embed
Gate(p) ==
    /\ pc[p] = "gate"
    /\ \/ Goto(p, "insert")
       \/ batch[p] # {} /\ Goto(p, "resolve")
    /\ KeepStore /\ KeepProc /\ UNCHANGED <<envVars, histVars>>

\* backfill leaves an embedded workspace alone, search refuses one that is
\* not embedded
Count(p) ==
    /\ pc[p] = "count"
    /\ \/ /\ (VectorCount > 0) = (job[p] = "search")
          /\ Goto(p, IF job[p] = "search" THEN "resolve" ELSE "targets")
          /\ KeepProc
       \/ /\ (VectorCount > 0) # (job[p] = "search")
          /\ End(p)
    /\ KeepStore /\ UNCHANGED <<envVars, histVars>>

\* backfill: embedding is off or the workspace is empty, or all its symbols
Targets(p) ==
    /\ pc[p] = "targets"
    /\ \/ End(p)
       \/ /\ DOMAIN entities # {}
          /\ batch' = [batch EXCEPT ![p] = DOMAIN entities]
          /\ Goto(p, "resolve")
          /\ UNCHANGED <<job, explicit, client>>
    /\ KeepStore /\ UNCHANGED <<envVars, histVars>>

-----------------------------------------------------------------------------
(* client_for_store and resolve_embedding_client.                          *)

\* where a command goes once it has a client
Use(p) == CASE job[p] = "search" -> "knn" [] job[p] = "backfill" -> "write" [] OTHER -> "insert"

\* Mutants: the record is not read; a recorded `builtin` is not told apart
\* and gets the direct client.
KnownClientNoRecord(p) == explicit[p]
KnownClientDirect(p) == IF explicit[p] # None \/ Recorded = None THEN explicit[p] ELSE "ollama"

\* the explicit provider, else the recorded one
KnownClient(p) == IF explicit[p] # None THEN explicit[p] ELSE Recorded

Resolve(p) ==
    /\ pc[p] = "resolve"
    /\ \/ /\ KnownClient(p) # None
          /\ client' = [client EXCEPT ![p] = KnownClient(p)]
          /\ Goto(p, Use(p))
       \/ /\ KnownClient(p) = None
          /\ Goto(p, "guard")
          /\ UNCHANGED client
    /\ disturbed' = [disturbed EXCEPT ![p] = FALSE]
    /\ KeepStore /\ UNCHANGED <<job, explicit, batch, envVars, raced, detached>>

\* Mutant: vectors of an unknown space do not matter.
SpaceKnownAlways == TRUE

\* no vector is there, so any provider may be chosen
SpaceKnown == vecs = {}

\* EmbeddingSpaceUnknownError ends the command
Guard(p) ==
    /\ pc[p] = "guard"
    /\ \/ SpaceKnown /\ Goto(p, "probe") /\ KeepProc
       \/ ~SpaceKnown /\ End(p)
    /\ KeepStore /\ UNCHANGED <<envVars, histVars>>

\* Mutant: the setting is recorded instead of the choice.
ToRecordSetting(c) == "auto"

ToRecord(c) == c

\* probe_ollama answers or not; the choice is recorded before it is used
Probe(p) ==
    /\ pc[p] = "probe"
    /\ \E c \in Probed :
          /\ SetMeta(Key, ToRecord(c))
          /\ client' = [client EXCEPT ![p] = c]
    /\ Goto(p, Use(p))
    /\ Writes(p)
    /\ raced' = (raced \/ disturbed[p])
    /\ UNCHANGED <<job, explicit, batch, envVars, detached>>

-----------------------------------------------------------------------------
(* What the client is used for.  The call to the provider lies between the *)
(* resolution and these steps; a failure that raises is Die.               *)

\* history: vectors of a space the record does not name
Detaches(p, ns) == ns # {} /\ explicit[p] # None /\ Recorded \notin {None, client[p]}

\* embed, then insert_custom_kg; zero vectors and swallowed failures leave
\* rows without a vector
Insert(p) ==
    /\ pc[p] = "insert"
    /\ \E ns \in SUBSET batch[p] :
          /\ client[p] = None => ns = {}
          /\ InsertCustomKg(Rows(batch[p]), [n \in ns |-> client[p]], <<>>)
          /\ detached' = (detached \/ Detaches(p, ns))
    /\ End(p)
    /\ Writes(p)
    /\ UNCHANGED <<envVars, raced>>

\* backfill: write_embeddings of all targets
Write(p) ==
    /\ pc[p] = "write"
    /\ WriteEmbeddings(Rows(batch[p]), [n \in batch[p] |-> client[p]])
    /\ detached' = (detached \/ Detaches(p, batch[p]))
    /\ End(p)
    /\ Writes(p)
    /\ UNCHANGED <<envVars, raced>>

\* search_similar with the query's embedding
Knn(p) ==
    /\ pc[p] = "knn"
    /\ End(p)
    /\ KeepStore /\ UNCHANGED <<envVars, histVars>>

Die(p) ==
    /\ MayDie
    /\ ~Idle(p)
    /\ End(p)
    /\ KeepStore /\ UNCHANGED <<envVars, histVars>>

\* the user edits embedding.provider
Reconfigure ==
    /\ changes < MaxChanges
    /\ changes' = changes + 1
    /\ setting' \in (Embeddings \cup {None}) \ {setting}
    /\ KeepStore /\ UNCHANGED <<procVars, runs, histVars>>

-----------------------------------------------------------------------------
\* A new workspace, one indexed without vectors, or one embedded before
\* providers were recorded.
Init ==
    /\ relations = <<>> /\ meta = <<>>
    /\ \/ entities = <<>> /\ vecs = {}
       \/ entities = Rows(Names) /\ vecs = {}
       \/ /\ Legacy
          /\ entities = Rows(Names)
          /\ vecs = VecRows(Rows(Names), [n \in Names |-> "ollama"])
    /\ setting \in Embeddings \cup {None}
    /\ pc = [p \in Procs |-> "idle"]
    /\ job = [p \in Procs |-> "index"]
    /\ explicit = [p \in Procs |-> None]
    /\ batch = [p \in Procs |-> {}]
    /\ client = [p \in Procs |-> None]
    /\ runs = 0 /\ changes = 0
    /\ disturbed = [p \in Procs |-> FALSE]
    /\ raced = FALSE /\ detached = FALSE

Step(p) ==
    \/ BeginIndex(p) \/ BeginUpdate(p) \/ BeginBackfill(p) \/ BeginSearch(p)
    \/ Clear(p) \/ Gc(p) \/ Gate(p) \/ Count(p) \/ Targets(p)
    \/ Resolve(p) \/ Guard(p) \/ Probe(p)
    \/ Insert(p) \/ Write(p) \/ Knn(p) \/ Die(p)

Next == Reconfigure \/ \E p \in Procs : Step(p)

Spec == Init /\ [][Next]_vars
-----------------------------------------------------------------------------
(* Properties.                                                             *)

Labels == {"idle", "clear", "gc", "gate", "count", "targets", "resolve", "guard", "probe",
           "insert", "write", "knn"}

\* Type invariant of the store and of every command's locals; the record
\* names a provider a command can build a client for.
TypeOK ==
    /\ StoreTypeOK
    /\ Recorded \in Probed \cup {None}
    /\ setting \in Embeddings \cup {None}
    /\ pc \in [Procs -> Labels]
    /\ job \in [Procs -> {"index", "update", "backfill", "search"}]
    /\ explicit \in [Procs -> Embeddings \cup {None}]
    /\ batch \in [Procs -> SUBSET Names]
    /\ client \in [Procs -> Embeddings \cup {None}]
    /\ runs \in Nat /\ changes \in Nat
    /\ disturbed \in [Procs -> BOOLEAN]
    /\ raced \in BOOLEAN /\ detached \in BOOLEAN

\* All vectors of a workspace with a record are of the recorded space, as
\* long as no two first choices raced and no explicit provider wrote against
\* the record: through clears, swallowed failures, backfills, deaths and
\* changes of the configuration.
OneSpace ==
    ~raced /\ ~detached /\ Recorded # None => \A v \in vecs : v.emb = Recorded

\* A search on `auto` compares its query with vectors of the query's own
\* space, or with none.
QueryInSpace ==
    ~raced /\ ~detached => \A p \in Procs :
        pc[p] = "knn" /\ explicit[p] = None => \A v \in vecs : v.emb = client[p]

\* "Resolved once, recorded, then obeyed": the record never changes, unless
\* the store was written between reading it and recording a choice.
Sticky ==
    [][ Recorded # None /\ ~raced' => Recorded' = Recorded ]_vars

-----------------------------------------------------------------------------
(* A claim of the repository's text that the code does not keep.           *)

\* "The provider choice is sticky per workspace so embedding spaces never
\* silently mix": when an `auto` command writes vectors into a table of one
\* space, the vectors that stay are of its own space.
AutoNeverMixes ==
    \A p \in Procs :
        /\ pc[p] \in {"insert", "write"} /\ explicit[p] = None /\ client[p] # None
        /\ \A v, w \in vecs : v.emb = w.emb
        => \A v \in vecs : v.name \in batch[p] \/ v.emb = client[p]
=============================================================================
