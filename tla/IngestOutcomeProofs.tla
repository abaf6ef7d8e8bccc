------------------------- MODULE IngestOutcomeProofs ------------------------
(***************************************************************************)
(* What a finished ingest run leaves behind, for any number of concurrent  *)
(* commands, any repository history and any LIKE relation: vectors that    *)
(* match their rows, no store emptied by an empty export, the exact result *)
(* of a rebuild, of an incremental run and of `update`, and the ratios of  *)
(* the whole export.                                                       *)
(***************************************************************************)
EXTENDS GraphIngestProofs

-----------------------------------------------------------------------------
(* Steps seen from one writer.                                             *)

\* u's own state is as it was.
RunUnchanged(u) ==
    /\ pc'[u] = pc[u] /\ job'[u] = job[u] /\ mode'[u] = mode[u]
    /\ snap'[u] = snap[u] /\ changed'[u] = changed[u] /\ todo'[u] = todo[u]
    /\ scan'[u] = scan[u] /\ fresh'[u] = fresh[u] /\ drop'[u] = drop[u]
    /\ left'[u] = left[u]

\* Somebody else moved: the store is as it was, or u is marked disturbed; and
\* u is no longer in step with the repository once the tree has moved.
Bystander(u) ==
    /\ RunUnchanged(u)
    /\ \/ /\ UNCHANGED storeVars
          /\ disturbed'[u] = disturbed[u]
          /\ synced'[u] => synced[u] /\ UNCHANGED treeVars
       \/ disturbed'[u] /\ ~synced'[u]

\* One of the four commands begins: its run is new, and its mode decides what
\* its changed set may be.
Begins(u) ==
    \E j \in {"index", "update", "refresh"}, m \in {"rebuild", "upsert", "incremental"},
       c \in SUBSET Files :
        /\ Begin(u, j, m, "export", c)
        /\ m = "rebuild" => c = Files
        /\ m = "incremental" /\ j = "update" => c = {} /\ Config \notin DiffNames

\* The commands differ only in the arguments of Begin.
LEMMA CommandBegins ==
    ASSUME TypeOK, NEW u \in Writers,
           BeginIndex(u) \/ BeginUpdate(u) \/ BeginUpdateFiles(u) \/ BeginRefresh(u)
    PROVE  Begins(u)
<1>1. GetWorkingTreeFiles \in SUBSET Files
  BY DEF GetWorkingTreeFiles
<1>2. \A p \in PathArgs : {f \in p : work[f] # NoFile} \in SUBSET Files
  BY IngestAssumption
<1>3. CASE BeginIndex(u)
  BY <1>3 DEF BeginIndex, Begins
<1>4. CASE BeginUpdate(u)
  BY <1>4 DEF BeginUpdate, Begins
<1>5. CASE BeginUpdateFiles(u)
  BY <1>5 DEF BeginUpdateFiles, Begins
<1>6. CASE BeginRefresh(u)
  BY <1>1, <1>2, <1>6 DEF BeginRefresh, Begins
<1> QED
  BY <1>3, <1>4, <1>5, <1>6

\* A step of another writer leaves u's state alone.
LEMMA OthersKeepRun ==
    ASSUME TypeOK, NEW u \in Writers, NEW w \in Writers, w # u, Step(w)
    PROVE  Bystander(u)
<1> USE DEF TypeOK, Bystander, RunUnchanged, Goto, KeepTree, KeepHist, histVars
<1>1. CASE BeginIndex(w) \/ BeginUpdate(w) \/ BeginUpdateFiles(w) \/ BeginRefresh(w)
  <2>1. PICK j, m, c : Begin(w, j, m, "export", c)
    BY <1>1, CommandBegins DEF Begins
  <2> QED
    BY <2>1 DEF Begin
<1>2. CASE Export(w)
  BY <1>2 DEF Export
<1>3. CASE Diff(w)
  BY <1>3 DEF Diff
<1>4. CASE ScanSourceIds(w)
  BY <1>4 DEF ScanSourceIds
<1>5. CASE ScanRows(w)
  BY <1>5 DEF ScanRows
<1>6. CASE Gc(w)
  BY <1>6 DEF Gc, Writes
<1>7. CASE Clear(w)
  BY <1>7 DEF Clear, Writes
<1>8. CASE Embed(w)
  BY <1>8 DEF Embed
<1>9. CASE Insert(w)
  BY <1>9 DEF Insert, Writes
<1>10. CASE PersistMeta(w)
  BY <1>10 DEF PersistMeta, Writes
<1>11. CASE Abort(w)
  BY <1>11 DEF Abort
<1> QED
  BY <1>1, <1>2, <1>3, <1>4, <1>5, <1>6, <1>7, <1>8, <1>9, <1>10, <1>11 DEF Step

\* Each step is a step of u or finds u a bystander.
LEMMA ActorOrBystander ==
    ASSUME TypeOK, [Next]_vars, NEW u \in Writers
    PROVE  Step(u) \/ Bystander(u)
<1> USE DEF TypeOK, Bystander, RunUnchanged
<1>1. CASE Edit
  BY <1>1 DEF Edit, KeepStore, runVars
<1>2. CASE Commit
  BY <1>2 DEF Commit, KeepStore, runVars
<1>3. CASE UNCHANGED vars
  BY <1>3 DEF vars, runVars, histVars
<1>4. ASSUME NEW w \in Writers, Step(w)
      PROVE  Step(u) \/ Bystander(u)
  BY <1>4, OthersKeepRun
<1> QED
  BY <1>1, <1>2, <1>3, <1>4 DEF Next

-----------------------------------------------------------------------------
(* The zero-entity gate.                                                   *)

\* past the export, a run
Past == {"diff", "scan", "rows", "gc", "clear", "embed", "insert", "meta", "done"}

\* A run past the gate holds a non-empty export.
ExportHeld(u) == pc[u] \in Past => Safe(snap[u])

\* The gate is the only way past the export.
LEMMA ExportHeldStep ==
    ASSUME TypeOK, [Next]_vars, NEW u \in Writers, ExportHeld(u)
    PROVE  ExportHeld(u)'
<1> USE DEF TypeOK, ExportHeld, Past, Goto
<1>1. CASE Bystander(u)
  BY <1>1 DEF Bystander, RunUnchanged
<1>2. CASE BeginIndex(u) \/ BeginUpdate(u) \/ BeginUpdateFiles(u) \/ BeginRefresh(u)
  <2>1. PICK j, m, c : Begin(u, j, m, "export", c)
    BY <1>2, CommandBegins DEF Begins
  <2> QED
    BY <2>1 DEF Begin
<1>3. CASE Export(u)
  BY <1>3 DEF Export
<1>4. CASE \/ Diff(u) \/ ScanSourceIds(u) \/ ScanRows(u) \/ Gc(u) \/ Clear(u) \/ Embed(u)
           \/ Insert(u) \/ PersistMeta(u)
  BY <1>4 DEF Diff, ScanSourceIds, ScanRows, Gc, Clear, Embed, Insert, PersistMeta
<1>5. CASE Abort(u)
  BY <1>5 DEF Abort
<1> QED
  BY <1>1, <1>2, <1>3, <1>4, <1>5, ActorOrBystander DEF Step

\* A 0-entity export never empties a store that has entities: the step that
\* empties it is the clear or the GC of a run whose own export is not empty,
\* and an insert never removes a row.
THEOREM EmptyExportWipesNothing == Spec => NoWipeOnEmptyExport
<1> DEFINE Held == IInv /\ \A u \in Writers : ExportHeld(u)
           NoWipe == entities # <<>> /\ entities' = <<>> =>
                       \E w \in Writers : pc[w] \in {"clear", "gc"} /\ ExportNames(snap[w]) # {}
<1>1. Init => Held
  BY InitInv DEF Init, ExportHeld, Past
<1>2. Held /\ [Next]_vars => Held'
  BY InvStep, ExportHeldStep DEF IInv
<1>3. Held /\ [Next]_vars => [NoWipe]_vars
  <2> SUFFICES ASSUME Held, [Next]_vars, entities # <<>>, entities' = <<>>
               PROVE  \E w \in Writers : pc[w] \in {"clear", "gc"} /\ ExportNames(snap[w]) # {}
    OBVIOUS
  <2>1. PICK w \in Writers : Gc(w) \/ Clear(w) \/ Insert(w)
    BY GraphTablesChange DEF IInv
  <2>2. ~Insert(w)
    <3> SUFFICES ASSUME Insert(w) PROVE FALSE
      OBVIOUS
    <3>1. PICK ents : entities' = Upsert(entities, ents)
      BY InsertBatch DEF IInv, InsertCustomKg
    <3>2. DOMAIN entities' = DOMAIN entities \cup DOMAIN ents
      BY <3>1, UpsertRows
    <3>3. DOMAIN entities = {}
      BY <3>2
    <3> QED
      BY <3>3 DEF IInv, TypeOK, StoreTypeOK, IsTable
  <2>3. pc[w] \in {"clear", "gc"}
    BY <2>1, <2>2 DEF Gc, Clear
  <2> QED
    BY <2>3 DEF ExportHeld, Past, Safe
<1> QED
  BY <1>1, <1>2, <1>3, PTL DEF Spec, NoWipeOnEmptyExport

-----------------------------------------------------------------------------
(* Vectors and rows.                                                       *)

\* what the vector of a row says when it was written with the row
Matches(ents, v) ==
    /\ v.name \in DOMAIN ents
    /\ v.emb = EmbeddingOf[ents[v.name].content]
    /\ v.source = ents[v.name].source

\* A batch whose every row carries its embedding keeps vectors and rows in
\* step: a row it replaces has its vector replaced too.
LEMMA BatchKeepsMatch ==
    ASSUME NEW ents, NEW g, NEW vs,
           IsTable(g, Names, EntityRow),
           \A v \in vs : Matches(ents, v)
    PROVE  \A v \in WriteNodeEmbedding(vs, VecRows(g, [n \in DOMAIN g |-> EmbeddingOf[g[n].content]])) :
              Matches(Upsert(ents, g), v)
<1> DEFINE embs == [n \in DOMAIN g |-> EmbeddingOf[g[n].content]]
           rows == VecRows(g, embs)
<1>1. \A n \in DOMAIN g : embs[n] \in ValidEmbeddings
  BY IngestAssumption DEF IsTable, EntityRow
<1>2. Embeddable(embs) = DOMAIN g
  BY <1>1 DEF Embeddable
<1>3. rows = {[name |-> n, source |-> g[n].source, emb |-> EmbeddingOf[g[n].content]] : n \in DOMAIN g}
  BY <1>2 DEF VecRows
<1>4. \A r \in rows : r.name \in DOMAIN g /\ Matches(g, r)
  BY <1>3 DEF Matches
<1>5. ASSUME NEW n \in DOMAIN g PROVE \E r \in rows : r.name = n
  <2> DEFINE r == [name |-> n, source |-> g[n].source, emb |-> EmbeddingOf[g[n].content]]
  <2>1. r \in rows /\ r.name = n
    BY <1>3
  <2> QED
    BY <2>1
<1> HIDE DEF rows, embs
<1> DEFINE up == Upsert(ents, g)
<1>u. /\ DOMAIN up = DOMAIN ents \cup DOMAIN g
      /\ \A x \in DOMAIN g : up[x] = g[x]
      /\ \A x \in DOMAIN ents \ DOMAIN g : up[x] = ents[x]
  BY UpsertRows
<1> HIDE DEF up
<1>6. ASSUME NEW v \in WriteNodeEmbedding(vs, rows)
      PROVE  Matches(up, v)
  <2>1. CASE v \in rows
    BY <1>4, <1>u, <2>1 DEF Matches
  <2>2. CASE v \in vs /\ \A r \in rows : r.name # v.name
    <3>1. v.name \in DOMAIN ents \ DOMAIN g
      BY <1>5, <2>2 DEF Matches
    <3> QED
      BY <1>u, <2>2, <3>1 DEF Matches
  <2> QED
    BY <1>6, <2>1, <2>2 DEF WriteNodeEmbedding
<1> QED
  BY <1>6 DEF rows, embs, up

\* The batch of a run that lost no embedding.
LEMMA WholeBatch ==
    ASSUME IInv, NEW w \in Writers, Insert(w), attached[w] = fresh[w]
    PROVE  \E g : /\ IsTable(g, Names, EntityRow)
                  /\ entities' = Upsert(entities, g)
                  /\ vecs' = WriteNodeEmbedding(vecs,
                               VecRows(g, [n \in DOMAIN g |-> EmbeddingOf[g[n].content]]))
<1> DEFINE all == ExportEntities[snap[w]]
           g   == Without(all, Names \ fresh[w])
<1>1. snap[w] \in Trees /\ fresh[w] \subseteq DOMAIN all
  BY DEF IInv, TypeOK, RunInv, ExportNames
<1>2. IsTable(all, Names, EntityRow)
  BY <1>1, ExportEntitiesTable
<1>3. IsTable(g, Names, EntityRow)
  BY <1>2, TableWithout
<1>4. DOMAIN g = fresh[w]
  <2>1. DOMAIN g = DOMAIN all \ (Names \ fresh[w])
    BY WithoutRows
  <2> QED
    BY <1>1, <1>2, <2>1 DEF IsTable
<1>5. /\ entities' = Upsert(entities, g)
      /\ vecs' = WriteNodeEmbedding(vecs,
                   VecRows(g, [n \in attached[w] |-> EmbeddingOf[g[n].content]]))
  BY DEF Insert, InsertCustomKg
<1>6. vecs' = WriteNodeEmbedding(vecs,
                VecRows(g, [n \in DOMAIN g |-> EmbeddingOf[g[n].content]]))
  BY <1>4, <1>5
<1> HIDE DEF g
<1> QED
  BY <1>3, <1>5, <1>6

VectorsMatch == ~embedFailed => \A v \in vecs : Matches(entities, v)

\* No step separates a vector from the row it was written with.
LEMMA VectorsMatchStep ==
    ASSUME IInv, [Next]_vars, VectorsMatch
    PROVE  VectorsMatch'
<1> USE DEF VectorsMatch
<1>1. ASSUME NEW w \in Writers, Gc(w) PROVE VectorsMatch'
  BY <1>1, GcRows DEF Gc, Matches
<1>2. ASSUME NEW w \in Writers, Clear(w) PROVE VectorsMatch'
  BY <1>2 DEF Clear, DeleteAll
<1>3. ASSUME NEW w \in Writers, Insert(w) PROVE VectorsMatch'
  <2> SUFFICES ASSUME ~embedFailed'
               PROVE  \A v \in vecs' : Matches(entities', v)
    OBVIOUS
  <2>1. ~embedFailed /\ attached[w] = fresh[w]
    BY <1>3 DEF Insert
  <2> QED
    BY <1>3, <2>1, WholeBatch, BatchKeepsMatch
<1>4. ASSUME UNCHANGED <<entities, relations, vecs>>, embedFailed' = embedFailed
      PROVE  VectorsMatch'
  BY <1>4
<1>5. \/ embedFailed' = embedFailed
      \/ \E w \in Writers : Insert(w)
  <2>1. ASSUME NEW w \in Writers, Begins(w) PROVE embedFailed' = embedFailed
    BY <2>1 DEF Begins, Begin
  <2> QED
    BY <2>1, CommandBegins
    DEF IInv, Next, Step, vars, histVars, Export, Diff, ScanSourceIds, ScanRows, Gc, Clear, Embed,
        PersistMeta, Abort, KeepHist, Edit, Commit, KeepStore
<1> QED
  BY <1>1, <1>2, <1>3, <1>4, <1>5, GraphTablesChange DEF IInv

\* As long as every embedding succeeded, each vector is the embedding of the
\* very content and place its row holds: skipped symbols, concurrent runs and
\* deaths between two calls included.
THEOREM VectorsMatchRows == Spec => []VectorMatchesRow
<1>1. Init => VectorsMatch
  <2> SUFFICES ASSUME Init PROVE \A v \in vecs : Matches(entities, v)
    BY DEF VectorsMatch
  <2>1. CASE vecs = {}
    BY <2>1
  <2>2. CASE vecs = VecRows(entities, [n \in DOMAIN entities |-> EmbeddingOf[entities[n].content]])
    <3> DEFINE embs == [n \in DOMAIN entities |-> EmbeddingOf[entities[n].content]]
    <3>1. \A n \in Embeddable(embs) :
             n \in DOMAIN entities /\ embs[n] = EmbeddingOf[entities[n].content]
      BY DEF Embeddable
    <3> HIDE DEF embs
    <3>2. vecs = VecRows(entities, embs)
      BY <2>2 DEF embs
    <3> QED
      BY <3>1, <3>2 DEF VecRows, Matches
  <2> QED
    BY <2>1, <2>2 DEF Init
<1>2. IInv /\ VectorsMatch /\ [Next]_vars => VectorsMatch'
  BY VectorsMatchStep
<1>3. VectorsMatch => VectorMatchesRow
  BY DEF VectorsMatch, VectorMatchesRow, Matches
<1> QED
  BY <1>1, <1>2, <1>3, Invariance, PTL DEF Spec

-----------------------------------------------------------------------------
(* Rebuilds.                                                               *)

Scanning == {"scan", "rows", "gc"}
Writing  == {"embed", "insert"}
Written  == {"meta", "done"}

\* A rebuild holds the whole export and every file; undisturbed, it writes
\* into an empty store and what it has written is the export.
RebuildHeld(u) ==
    mode[u] = "rebuild" =>
        /\ pc[u] \notin {"diff"} \cup Scanning
        /\ pc[u] \in {"export", "clear"} \cup Writing \cup Written => changed[u] = Files
        /\ pc[u] \in {"clear"} \cup Writing => fresh[u] = ExportNames(snap[u])
        /\ ~disturbed[u] /\ pc[u] \in Writing => entities = <<>> /\ relations = <<>>
        /\ ~disturbed[u] /\ pc[u] \in Written =>
              entities = ExportEntities[snap[u]] /\ relations = ExportRelations[snap[u]]

\* Rows upserted into an empty table are the table.
LEMMA UpsertIntoEmpty ==
    ASSUME NEW S, NEW T, NEW g, IsTable(g, S, T)
    PROVE  Upsert(<<>>, g) = g
<1>1. DOMAIN <<>> \cup DOMAIN g = DOMAIN g
  OBVIOUS
<1>2. Upsert(<<>>, g) = [x \in DOMAIN g |-> IF x \in DOMAIN g THEN g[x] ELSE <<>>[x]]
  BY <1>1 DEF Upsert
<1>3. Upsert(<<>>, g) = [x \in DOMAIN g |-> g[x]]
  BY <1>2
<1>4. g = [x \in DOMAIN g |-> g[x]]
  BY DEF IsTable
<1> QED
  BY <1>3, <1>4

\* Deleting keys a table does not have leaves the table.
LEMMA WithoutNone ==
    ASSUME NEW S, NEW T, NEW f, NEW D, IsTable(f, S, T), DOMAIN f \cap D = {}
    PROVE  Without(f, D) = f
BY DEF IsTable, Without

\* The insert of a rebuild that nobody disturbed makes the store the export.
LEMMA RebuildInserts ==
    ASSUME TypeOK, NEW u \in Writers, Insert(u),
           entities = <<>>, relations = <<>>,
           changed[u] = Files, fresh[u] = ExportNames(snap[u])
    PROVE  /\ entities' = ExportEntities[snap[u]]
           /\ relations' = ExportRelations[snap[u]]
<1> DEFINE all  == ExportEntities[snap[u]]
           rels == ExportRelations[snap[u]]
           away == {k \in DOMAIN rels : FileOf[rels[k]] \notin changed[u]}
<1>1. snap[u] \in Trees
  BY DEF TypeOK
<1>2. IsTable(all, Names, EntityRow) /\ IsTable(rels, EdgeKeys, Sources)
  BY <1>1, ExportEntitiesTable, ExportRelationsTable
<1>3. DOMAIN all \cap (Names \ fresh[u]) = {}
  BY DEF ExportNames
<1>4. Without(all, Names \ fresh[u]) = all
  BY <1>2, <1>3, WithoutNone
<1>5. DOMAIN rels \cap away = {}
  <2>1. \A k \in DOMAIN rels : rels[k] \in Sources
    BY <1>2 DEF IsTable
  <2> HIDE DEF rels
  <2> QED
    BY <2>1, IngestAssumption
<1>6. ChangedRelations(u) = rels
  BY <1>2, <1>5, WithoutNone DEF ChangedRelations
<1>7. /\ entities' = Upsert(<<>>, Without(all, Names \ fresh[u]))
      /\ relations' = Upsert(<<>>, ChangedRelations(u))
  BY DEF Insert, InsertCustomKg
<1> HIDE DEF all, rels, away
<1>8. entities' = all /\ relations' = rels
  BY <1>2, <1>4, <1>6, <1>7, UpsertIntoEmpty
<1> QED
  BY <1>8 DEF all, rels

\* Every step keeps what a rebuild holds.
LEMMA RebuildHeldStep ==
    ASSUME TypeOK, [Next]_vars, NEW u \in Writers, RebuildHeld(u)
    PROVE  RebuildHeld(u)'
<1> USE DEF TypeOK, RebuildHeld, Scanning, Writing, Written, Goto
<1>1. CASE Bystander(u)
  BY <1>1 DEF Bystander, RunUnchanged, storeVars
<1>2. CASE BeginIndex(u) \/ BeginUpdate(u) \/ BeginUpdateFiles(u) \/ BeginRefresh(u)
  <2>1. PICK j, m, c : Begin(u, j, m, "export", c) /\ (m = "rebuild" => c = Files)
    BY <1>2, CommandBegins DEF Begins
  <2> QED
    BY <2>1 DEF Begin
<1>3. CASE Export(u)
  BY <1>3 DEF Export
<1>4. CASE Diff(u) \/ ScanSourceIds(u) \/ ScanRows(u) \/ Gc(u)
  BY <1>4 DEF Diff, ScanSourceIds, ScanRows, Gc
<1>5. CASE Clear(u)
  BY <1>5 DEF Clear, DeleteAll
<1>6. CASE Embed(u)
  BY <1>6 DEF Embed, storeVars, KeepHist, histVars
<1>7. CASE Insert(u)
  <2>1. /\ pc[u] = "insert" /\ pc'[u] = "meta"
        /\ UNCHANGED <<mode, snap, changed, fresh>>
        /\ disturbed[u] => disturbed'[u]
    BY <1>7 DEF Insert, Writes
  <2>2. ASSUME mode[u] = "rebuild", ~disturbed[u]
        PROVE  entities' = ExportEntities[snap[u]] /\ relations' = ExportRelations[snap[u]]
    BY <1>7, <2>1, <2>2, RebuildInserts
  <2> QED
    BY <2>1, <2>2
<1>8. CASE PersistMeta(u)
  BY <1>8 DEF PersistMeta, SetMeta, Writes
<1>9. CASE Abort(u)
  BY <1>9 DEF Abort
<1> QED
  BY <1>1, <1>2, <1>3, <1>4, <1>5, <1>6, <1>7, <1>8, <1>9, ActorOrBystander DEF Step

\* A clear rebuild nobody wrote into leaves the export and nothing else, also
\* when other commands ran before and the process before it died halfway.
THEOREM RebuildsAreExact == Spec => []RebuildExact
<1> DEFINE Held == \A u \in Writers : RebuildHeld(u)
<1>1. Init => Held
  BY DEF Init, RebuildHeld, Scanning, Writing, Written
<1>2. IInv /\ Held /\ [Next]_vars => Held'
  BY RebuildHeldStep DEF IInv
<1>3. Held => RebuildExact
  BY DEF RebuildExact, Completed, RebuildHeld, Written
<1> HIDE DEF Held
<1> QED
  BY <1>1, <1>2, <1>3, Invariance, PTL DEF Spec

-----------------------------------------------------------------------------
(* Ratios.                                                                 *)

Ratios == {"resolved_ratio", "external_unresolved_ratio"}

Queued(u, key) == \E i \in 1 .. Len(left[u]) : left[u][i] = key

\* A ratio an undisturbed run has not queued any more has its value.
MetaHeld(u) ==
    /\ pc[u] = "meta" => left[u] # <<>>
    /\ pc[u] = "done" => left[u] = <<>>
    /\ ~disturbed[u] /\ pc[u] \in Written =>
          \A key \in Ratios :
              Queued(u, key) \/ (key \in DOMAIN meta /\ meta[key] = MetaValueOf(key, snap[u]))

\* Each write takes the head of the queue and leaves the other keys alone.
LEMMA MetaHeldStep ==
    ASSUME TypeOK, [Next]_vars, NEW u \in Writers, MetaHeld(u)
    PROVE  MetaHeld(u)'
<1> USE DEF TypeOK, MetaHeld, Written, Queued, Goto
<1>1. CASE Bystander(u)
  BY <1>1 DEF Bystander, RunUnchanged, storeVars
<1>2. CASE BeginIndex(u) \/ BeginUpdate(u) \/ BeginUpdateFiles(u) \/ BeginRefresh(u)
  <2>1. PICK j, m, c : Begin(u, j, m, "export", c)
    BY <1>2, CommandBegins DEF Begins
  <2> QED
    BY <2>1 DEF Begin
<1>3. CASE Export(u) \/ Diff(u) \/ ScanSourceIds(u) \/ ScanRows(u)
  BY <1>3 DEF Export, Diff, ScanSourceIds, ScanRows, AfterScan
<1>4. CASE Gc(u) \/ Clear(u) \/ Embed(u) \/ Abort(u)
  BY <1>4 DEF Gc, Clear, Embed, Abort
<1>5. CASE Insert(u)
  <2>1. pc'[u] = "meta" /\ left'[u] = MetaKeysOf(u)
    BY <1>5 DEF Insert
  <2>2. /\ MetaKeysOf(u)[1] = "resolved_ratio"
        /\ MetaKeysOf(u)[3] = "external_unresolved_ratio"
        /\ {1, 3} \subseteq 1 .. Len(MetaKeysOf(u))
        /\ MetaKeysOf(u) # <<>>
    BY DEF MetaKeysOf, RatioKeys
  <2> QED
    BY <2>1, <2>2 DEF Ratios
<1>6. CASE PersistMeta(u)
  <2> DEFINE q == left[u]
  <2>1. q \in Seq(MetaKeys) /\ q # <<>>
    BY <1>6 DEF PersistMeta
  <2>2. /\ left'[u] = Tail(q)
        /\ pc'[u] = IF Tail(q) = <<>> THEN "done" ELSE "meta"
        /\ pc[u] = "meta"
        /\ snap' = snap
        /\ disturbed[u] => disturbed'[u]
        /\ meta' = Upsert(meta, [j \in {Head(q)} |-> MetaValueOf(Head(q), snap[u])])
    BY <1>6 DEF PersistMeta, SetMeta, MetaValue, Writes
  <2>3. /\ DOMAIN meta' = DOMAIN meta \cup {Head(q)}
        /\ meta'[Head(q)] = MetaValueOf(Head(q), snap[u])
        /\ \A key \in DOMAIN meta \ {Head(q)} : meta'[key] = meta[key]
    BY <2>2 DEF Upsert
  <2>4. /\ Len(Tail(q)) = Len(q) - 1
        /\ \A i \in 2 .. Len(q) : i - 1 \in 1 .. Len(Tail(q)) /\ Tail(q)[i - 1] = q[i]
        /\ q[1] = Head(q)
    BY <2>1
  <2>5. ASSUME NEW key \in Ratios, ~disturbed[u]
        PROVE  \/ \E i \in 1 .. Len(Tail(q)) : Tail(q)[i] = key
               \/ key \in DOMAIN meta' /\ meta'[key] = MetaValueOf(key, snap[u])
    <3>1. CASE key = Head(q)
      BY <2>3, <3>1
    <3>2. CASE key # Head(q) /\ Queued(u, key)
      <4>1. PICK i \in 1 .. Len(q) : q[i] = key
        BY <3>2
      <4>2. i \in 2 .. Len(q)
        BY <2>1, <2>4, <3>2, <4>1
      <4>3. i - 1 \in 1 .. Len(Tail(q)) /\ Tail(q)[i - 1] = key
        BY <2>4, <4>1, <4>2
      <4> QED
        BY <4>3
    <3>3. CASE key # Head(q) /\ ~Queued(u, key)
      BY <2>2, <2>3, <2>5, <3>3
    <3> QED
      BY <3>1, <3>2, <3>3
  <2> QED
    BY <2>2, <2>5
<1> QED
  BY <1>1, <1>2, <1>3, <1>4, <1>5, <1>6, ActorOrBystander DEF Step

\* The ratios an undisturbed run leaves are those of the whole export, also
\* when it only wrote the relations of a few files.
THEOREM RatiosAreOfFullExport == Spec => []RatioOfFullExport
<1> DEFINE Held == \A u \in Writers : MetaHeld(u)
<1>1. Init => Held
  BY DEF Init, MetaHeld, Written
<1>2. IInv /\ Held /\ [Next]_vars => Held'
  BY MetaHeldStep DEF IInv
<1>3. Held => RatioOfFullExport
  <2> SUFFICES ASSUME Held, NEW u \in Writers, pc[u] = "done", ~disturbed[u]
               PROVE  /\ meta["resolved_ratio"] = Resolved(snap[u])
                      /\ meta["resolved_ratio"] \cup meta["external_unresolved_ratio"]
                            = DOMAIN ExportRelations[snap[u]]
    BY DEF RatioOfFullExport
  <2>1. \A key \in Ratios : ~Queued(u, key)
    BY DEF MetaHeld, Queued
  <2>2. \A key \in Ratios : meta[key] = MetaValueOf(key, snap[u])
    BY <2>1 DEF MetaHeld, Written
  <2>3. /\ meta["resolved_ratio"] = Resolved(snap[u])
        /\ meta["external_unresolved_ratio"] = DOMAIN ExportRelations[snap[u]] \ Resolved(snap[u])
    BY <2>2 DEF Ratios, MetaValueOf
  <2> QED
    BY <2>3 DEF Resolved
<1> HIDE DEF Held
<1> QED
  BY <1>1, <1>2, <1>3, Invariance, PTL DEF Spec

-----------------------------------------------------------------------------
(* Incremental runs: the scan.                                             *)

\* the symbol is to be written, or its stored row already says the same
Kept(u, n) ==
    \/ n \in fresh[u]
    \/ /\ n \in DOMAIN entities
       /\ SameHash(entities[n].content, ExportEntities[snap[u]][n].content)

\* f has been compared: its symbols that are gone are to be dropped, the
\* others are kept.
FileSeen(u, f) ==
    /\ \A n \in DOMAIN entities : Owner[n] = f /\ n \notin ExportNames(snap[u]) => n \in drop[u]
    /\ \A n \in ExportNames(snap[u]) : Owner[n] = f => Kept(u, n)

\* A symbol to be dropped was stored under the LIKE prefix of a changed file
\* and is not in that file's export.
DropSeen(u) ==
    \A n \in drop[u] :
        /\ n \in DOMAIN entities
        /\ \E g \in changed[u] : /\ <<g, entities[n].source>> \in Like
                                 /\ n \in ExportNames(snap[u]) => Owner[n] # g

\* changed files whose rows the run has yet to read
Unseen(u) == IF pc[u] = "rows" THEN todo[u] \cup {scan[u].file} ELSE todo[u]

\* What an incremental run knows of its own lists.
ScanShape(u) ==
    mode[u] = "incremental" =>
        /\ pc[u] # "clear"
        /\ pc[u] \in {"export", "diff"} => fresh[u] = {} /\ drop[u] = {}
        /\ todo[u] \subseteq changed[u]
        /\ pc[u] = "rows" => scan[u].file \in changed[u]
        /\ pc[u] \in {"gc"} \cup Writing \cup Written => todo[u] = {}
        /\ \A n \in fresh[u] : Owner[n] \in changed[u]

\* What an undisturbed incremental run knows of the store while it reads it.
ScanView(u) ==
    mode[u] = "incremental" /\ ~disturbed[u] /\ pc[u] \in Scanning =>
        /\ pc[u] = "rows" => scan[u].sids = GetSourceIds(scan[u].file)
        /\ DropSeen(u)
        /\ \A f \in changed[u] \ Unseen(u) : FileSeen(u, f)

\* After the GC, a covered file has no symbol that is gone.
Covered(u) ==
    mode[u] = "incremental" /\ ~disturbed[u] /\ pc[u] \in Writing =>
        \A f \in changed[u] : ~Shadowed(f, changed[u]) =>
            /\ \A n \in DOMAIN entities : Owner[n] = f => n \in ExportNames(snap[u])
            /\ \A n \in ExportNames(snap[u]) : Owner[n] = f => Kept(u, n)

\* After the insert, it has exactly the export's symbols.
Exact(u) ==
    mode[u] = "incremental" /\ ~disturbed[u] /\ pc[u] \in Written =>
        /\ \A f \in changed[u] : ~Shadowed(f, changed[u]) =>
              \A n \in Names : Owner[n] = f =>
                  /\ n \in DOMAIN entities <=> n \in ExportNames(snap[u])
                  /\ n \in DOMAIN entities => SameRow(n, snap[u])
        /\ \A k \in DOMAIN ChangedRelations(u) : k \in DOMAIN relations

IncrementalHeld(u) == ScanShape(u) /\ ScanView(u) /\ Covered(u) /\ Exact(u)

\* A stored row lies in the file its symbol belongs to.
LEMMA StoredOwner ==
    ASSUME IInv, NEW n \in DOMAIN entities
    PROVE  /\ n \in Names /\ Owner[n] \in Files
           /\ entities[n].source \in Sources
           /\ FileOf[entities[n].source] = Owner[n]
           /\ <<Owner[n], entities[n].source>> \in Like
<1>1. n \in Names /\ entities[n].source \in Sources
  BY DEF IInv, TypeOK, StoreTypeOK, IsTable, EntityRow
<1>2. PICK t \in Trees : n \in ExportNames(t) /\ entities[n] = ExportEntities[t][n]
  BY DEF IInv, RowsExported
<1>3. FileOf[entities[n].source] = Owner[n]
  BY <1>2, ExportEntitiesTable
<1> QED
  BY <1>1, <1>3, IngestAssumption

\* The rows and the new symbols of a file are those that belong to it.
LEMMA FileRows ==
    ASSUME IInv, NEW u \in Writers, NEW f
    PROVE  /\ StoredIn(f) = {n \in DOMAIN entities : Owner[n] = f}
           /\ NewInFile(u, f) = {n \in ExportNames(snap[u]) : Owner[n] = f}
<1>1. snap[u] \in Trees
  BY DEF IInv, TypeOK
<1> QED
  BY <1>1, StoredOwner, ExportEntitiesTable DEF StoredIn, NewInFile

\* The lists of an incremental run agree with its changed set at every step.
LEMMA ScanShapeStep ==
    ASSUME IInv, [Next]_vars, NEW u \in Writers, ScanShape(u)
    PROVE  ScanShape(u)'
<1>t. TypeOK /\ snap[u] \in Trees
  BY DEF IInv, TypeOK
<1> USE DEF TypeOK, ScanShape, Writing, Written, Goto
<1>1. CASE Bystander(u)
  BY <1>1 DEF Bystander, RunUnchanged
<1>2. CASE BeginIndex(u) \/ BeginUpdate(u) \/ BeginUpdateFiles(u) \/ BeginRefresh(u)
  <2>1. PICK j, m, c : Begin(u, j, m, "export", c)
    BY <1>t, <1>2, CommandBegins DEF Begins
  <2> QED
    BY <1>t, <2>1 DEF Begin
<1>3. CASE Export(u)
  BY <1>t, <1>3 DEF Export
<1>4. CASE Diff(u)
  BY <1>t, <1>4 DEF Diff
<1>5. CASE ScanSourceIds(u)
  BY <1>t, <1>5 DEF ScanSourceIds
<1>6. CASE ScanRows(u)
  <2>1. \A n \in NewInFile(u, scan[u].file) : Owner[n] = scan[u].file
    BY FileRows
  <2>2. \E more \in SUBSET NewInFile(u, scan[u].file) :
            fresh' = [fresh EXCEPT ![u] = fresh[u] \cup more]
    BY <1>6 DEF ScanRows
  <2>3. /\ pc[u] = "rows"
        /\ pc'[u] \in {"scan", "gc", "embed"}
        /\ pc'[u] # "scan" => todo[u] = {}
        /\ UNCHANGED <<mode, changed, todo>>
    BY <1>t, <1>6 DEF ScanRows, AfterScan
  <2>4. \A n \in fresh'[u] : n \in fresh[u] \/ n \in NewInFile(u, scan[u].file)
    BY <1>t, <2>2
  <2> QED
    BY <2>1, <2>3, <2>4
<1>7. CASE Gc(u) \/ Clear(u) \/ Embed(u)
  BY <1>t, <1>7 DEF Gc, Clear, Embed
<1>8. CASE Insert(u) \/ PersistMeta(u)
  BY <1>t, <1>8 DEF Insert, PersistMeta
<1>9. CASE Abort(u)
  BY <1>t, <1>9 DEF Abort
<1> QED
  BY <1>t, <1>1, <1>2, <1>3, <1>4, <1>5, <1>6, <1>7, <1>8, <1>9, ActorOrBystander DEF Step

\* The comparison of a file extends what the run has seen by that file: the
\* rows it reads are still the rows whose source_ids it read.
LEMMA ScanRowsSees ==
    ASSUME IInv, NEW u \in Writers, ScanShape(u), ScanView(u), ScanRows(u),
           mode[u] = "incremental", ~disturbed[u]
    PROVE  DropSeen(u)' /\ \A f \in changed[u] \ todo[u] : FileSeen(u, f)'
<1> DEFINE f0  == scan[u].file
           old == GetEntitiesBySource(scan[u].sids)
           new == NewInFile(u, f0)
           same(n) == SameHash(entities[n].content, ExportEntities[snap[u]][n].content)
<1>1. pc[u] = "rows" /\ f0 \in changed[u]
  BY DEF ScanRows, ScanShape
<1>2. /\ scan[u].sids = GetSourceIds(f0)
      /\ DropSeen(u)
      /\ \A f \in changed[u] \ (todo[u] \cup {f0}) : FileSeen(u, f)
  BY <1>1 DEF ScanView, Scanning, Unseen
<1>3. old = {n \in DOMAIN entities : <<f0, entities[n].source>> \in Like}
  BY <1>2 DEF GetEntitiesBySource, GetSourceIds
<1>4. new = {n \in ExportNames(snap[u]) : Owner[n] = f0}
  BY FileRows
<1>5. /\ drop'[u] = drop[u] \cup (old \ new)
      /\ fresh'[u] = fresh[u] \cup {n \in new : n \in old => ~same(n)}
      /\ UNCHANGED <<entities, changed, snap>>
  BY DEF ScanRows, Gone, IInv, TypeOK, storeVars
<1> HIDE DEF old, new, f0
<1>6. DropSeen(u)'
  <2> SUFFICES ASSUME NEW n \in drop'[u]
               PROVE  /\ n \in DOMAIN entities
                      /\ \E g \in changed[u] : /\ <<g, entities[n].source>> \in Like
                                               /\ n \in ExportNames(snap[u]) => Owner[n] # g
    BY <1>5 DEF DropSeen
  <2>1. CASE n \in drop[u]
    BY <1>2, <2>1 DEF DropSeen
  <2>2. CASE n \in old \ new
    BY <1>1, <1>3, <1>4, <2>2
  <2> QED
    BY <1>5, <2>1, <2>2
<1>7. ASSUME NEW f \in changed[u] \ todo[u]
      PROVE  /\ \A n \in DOMAIN entities :
                    Owner[n] = f /\ n \notin ExportNames(snap[u]) => n \in drop'[u]
             /\ \A n \in ExportNames(snap[u]) : Owner[n] = f =>
                    n \in fresh'[u] \/ (n \in DOMAIN entities /\ same(n))
  <2>1. CASE f # f0
    BY <1>2, <1>5, <1>7, <2>1 DEF FileSeen, Kept
  <2>2. CASE f = f0
    <3>1. \A n \in DOMAIN entities : Owner[n] = f0 => n \in old
      BY <1>3, StoredOwner
    <3>2. \A n \in old : n \in DOMAIN entities
      BY <1>3
    <3> QED
      BY <1>4, <1>5, <2>2, <3>1, <3>2
  <2> QED
    BY <2>1, <2>2
<1> QED
  BY <1>5, <1>6, <1>7 DEF FileSeen, Kept

\* What the run has seen stays true until it writes.
LEMMA ScanViewStep ==
    ASSUME IInv, [Next]_vars, NEW u \in Writers, ScanShape(u), ScanView(u)
    PROVE  ScanView(u)'
<1>t. TypeOK
  BY DEF IInv
<1> USE DEF TypeOK, ScanView, Scanning, Unseen, Goto
<1>1. CASE Bystander(u)
  BY <1>1 DEF Bystander, RunUnchanged, storeVars, DropSeen, FileSeen, Kept, GetSourceIds
<1>2. CASE BeginIndex(u) \/ BeginUpdate(u) \/ BeginUpdateFiles(u) \/ BeginRefresh(u)
  <2>1. PICK j, m, c : Begin(u, j, m, "export", c)
    BY <1>t, <1>2, CommandBegins DEF Begins
  <2> QED
    BY <1>t, <2>1 DEF Begin
<1>3. CASE Export(u) \/ Diff(u)
  <2>1. ASSUME mode'[u] = "incremental", pc'[u] \in Scanning
        PROVE  pc'[u] = "scan" /\ todo'[u] = changed'[u] /\ drop'[u] = {}
    BY <1>t, <1>3, <2>1 DEF Export, Diff, ScanShape
  <2> QED
    BY <2>1 DEF DropSeen
<1>4. CASE ScanSourceIds(u)
  <2>1. PICK f \in todo[u] :
           /\ scan'[u] = [file |-> f, sids |-> GetSourceIds(f)]
           /\ todo'[u] = todo[u] \ {f}
    BY <1>t, <1>4 DEF ScanSourceIds
  <2>2. /\ pc[u] = "scan" /\ pc'[u] = "rows"
        /\ UNCHANGED <<entities, mode, snap, changed, fresh, drop, disturbed>>
    BY <1>t, <1>4 DEF ScanSourceIds, storeVars, KeepHist, histVars
  <2>3. /\ todo'[u] \cup {scan'[u].file} = todo[u]
        /\ scan'[u].sids = GetSourceIds(scan'[u].file)
    BY <2>1
  <2>4. (scan[u].sids = GetSourceIds(scan[u].file))'
    BY <2>2, <2>3 DEF GetSourceIds
  <2>5. ASSUME mode[u] = "incremental", ~disturbed[u]
        PROVE  DropSeen(u)' /\ \A g \in changed[u] \ todo[u] : FileSeen(u, g)'
    <3>1. DropSeen(u) /\ \A g \in changed[u] \ todo[u] : FileSeen(u, g)
      BY <2>2, <2>5
    <3> QED
      BY <2>2, <3>1 DEF DropSeen, FileSeen, Kept
  <2> QED
    BY <2>2, <2>3, <2>4, <2>5
<1>5. CASE ScanRows(u)
  <2>1. /\ pc'[u] # "rows" /\ pc[u] = "rows"
        /\ UNCHANGED <<mode, disturbed, changed, todo>>
    BY <1>t, <1>5 DEF ScanRows, AfterScan, KeepHist, histVars
  <2> QED
    BY <1>5, <2>1, ScanRowsSees
<1>6. CASE Gc(u) \/ Clear(u) \/ Embed(u) \/ Insert(u) \/ PersistMeta(u) \/ Abort(u)
  BY <1>t, <1>6 DEF Gc, Clear, Embed, Insert, PersistMeta, Abort
<1> QED
  BY <1>t, <1>1, <1>2, <1>3, <1>4, <1>5, <1>6, ActorOrBystander DEF Step

-----------------------------------------------------------------------------
(* Incremental runs: the writes.                                           *)

\* No symbol of an unshadowed file's export is dropped: its stored row lies in
\* its own file, so another changed file that matched it would shadow the file.
LEMMA KeepsUnshadowed ==
    ASSUME IInv, NEW u \in Writers, DropSeen(u),
           NEW f, ~Shadowed(f, changed[u]),
           NEW n \in ExportNames(snap[u]), Owner[n] = f
    PROVE  n \notin drop[u]
<1> SUFFICES ASSUME n \in drop[u] PROVE FALSE
  OBVIOUS
<1>1. PICK g \in changed[u] : <<g, entities[n].source>> \in Like /\ f # g
  BY DEF DropSeen
<1>2. n \in DOMAIN entities
  BY DEF DropSeen
<1> QED
  BY <1>1, <1>2, StoredOwner DEF Shadowed

\* GC, when there is something to collect, makes the changed files covered.
LEMMA GcCovers ==
    ASSUME IInv, NEW u \in Writers, ScanShape(u), ScanView(u), Gc(u),
           mode[u] = "incremental", ~disturbed[u],
           NEW f \in changed[u], ~Shadowed(f, changed[u])
    PROVE  /\ \A n \in DOMAIN entities' : Owner[n] = f => n \in ExportNames(snap[u])
           /\ \A n \in ExportNames(snap[u]) : Owner[n] = f =>
                  \/ n \in fresh[u]
                  \/ /\ n \in DOMAIN entities'
                     /\ SameHash(entities'[n].content, ExportEntities[snap[u]][n].content)
<1>1. pc[u] = "gc" /\ todo[u] = {}
  BY DEF Gc, ScanShape
<1>2. DropSeen(u) /\ FileSeen(u, f)
  BY <1>1 DEF ScanView, Scanning, Unseen
<1>3. /\ DOMAIN entities' = DOMAIN entities \ drop[u]
      /\ \A n \in DOMAIN entities \ drop[u] : entities'[n] = entities[n]
  BY GcRows
<1>4. \A n \in ExportNames(snap[u]) : Owner[n] = f => n \notin drop[u]
  BY <1>2, KeepsUnshadowed
<1> QED
  BY <1>2, <1>3, <1>4 DEF FileSeen, Kept

\* Every covered file stays covered until the insert.
LEMMA CoveredStep ==
    ASSUME IInv, [Next]_vars, NEW u \in Writers, ScanShape(u), ScanView(u), Covered(u)
    PROVE  Covered(u)'
<1>t. TypeOK
  BY DEF IInv
<1> USE DEF TypeOK, Covered, Writing, Goto
<1>1. CASE Bystander(u)
  BY <1>1 DEF Bystander, RunUnchanged, storeVars, Kept, Shadowed
<1>2. CASE BeginIndex(u) \/ BeginUpdate(u) \/ BeginUpdateFiles(u) \/ BeginRefresh(u)
  <2>1. PICK j, m, c : Begin(u, j, m, "export", c)
    BY <1>t, <1>2, CommandBegins DEF Begins
  <2> QED
    BY <1>t, <2>1 DEF Begin
<1>3. CASE Export(u)
  BY <1>t, <1>3 DEF Export
<1>4. CASE Diff(u)
  <2>1. pc'[u] = IF changed'[u] = {} THEN "embed" ELSE "scan"
    BY <1>t, <1>4 DEF Diff
  <2> QED
    BY <2>1
<1>5. CASE ScanRows(u)
  <2>1. /\ pc[u] = "rows"
        /\ pc'[u] \in Writing => todo[u] = {} /\ drop'[u] = {}
        /\ UNCHANGED <<mode, disturbed, changed, snap>>
    BY <1>t, <1>5 DEF ScanRows, AfterScan, KeepHist, histVars
  <2> SUFFICES ASSUME mode[u] = "incremental", ~disturbed[u], pc'[u] \in Writing,
                      NEW f \in changed[u]
               PROVE  /\ \A n \in DOMAIN entities' : Owner[n] = f => n \in ExportNames(snap[u])
                      /\ \A n \in ExportNames(snap[u]) : Owner[n] = f => Kept(u, n)'
    BY <2>1
  <2>2. FileSeen(u, f)'
    BY <1>5, <2>1, ScanRowsSees
  <2> QED
    BY <2>1, <2>2 DEF FileSeen
<1>6. CASE Gc(u)
  <2>1. /\ UNCHANGED <<mode, changed, snap, fresh>>
        /\ disturbed[u] => disturbed'[u]
    BY <1>t, <1>6 DEF Gc, Writes
  <2> QED
    BY <1>6, <2>1, GcCovers DEF Kept, Shadowed
<1>7. CASE Clear(u)
  BY <1>7 DEF Clear, ScanShape
<1>8. CASE Embed(u)
  BY <1>t, <1>8 DEF Embed, storeVars, KeepHist, histVars, Kept, Shadowed
<1>9. CASE ScanSourceIds(u) \/ Insert(u) \/ PersistMeta(u) \/ Abort(u)
  BY <1>t, <1>9 DEF ScanSourceIds, Insert, PersistMeta, Abort
<1> QED
  BY <1>t, <1>1, <1>2, <1>3, <1>4, <1>5, <1>6, <1>7, <1>8, <1>9, ActorOrBystander DEF Step

\* The rows an insert leaves: the export's for the symbols to be written, the
\* old ones for all others.
LEMMA InsertRows ==
    ASSUME IInv, NEW u \in Writers, Insert(u)
    PROVE  /\ DOMAIN entities' = DOMAIN entities \cup fresh[u]
           /\ \A n \in fresh[u] : entities'[n] = ExportEntities[snap[u]][n]
           /\ \A n \in DOMAIN entities \ fresh[u] : entities'[n] = entities[n]
           /\ fresh[u] \subseteq ExportNames(snap[u])
           /\ DOMAIN relations' = DOMAIN relations \cup DOMAIN ChangedRelations(u)
<1> DEFINE all == ExportEntities[snap[u]]
           g   == Without(all, Names \ fresh[u])
<1>1. /\ entities' = Upsert(entities, g)
      /\ relations' = Upsert(relations, ChangedRelations(u))
  BY DEF Insert, InsertCustomKg
<1>2. snap[u] \in Trees /\ fresh[u] \subseteq DOMAIN all /\ DOMAIN all = ExportNames(snap[u])
  BY DEF IInv, TypeOK, RunInv, ExportNames
<1>3. IsTable(all, Names, EntityRow)
  BY <1>2, ExportEntitiesTable
<1>4. DOMAIN g = DOMAIN all \ (Names \ fresh[u])
  BY WithoutRows
<1>5. DOMAIN g = fresh[u]
  BY <1>2, <1>3, <1>4 DEF IsTable
<1>6. \A n \in fresh[u] : g[n] = all[n]
  BY <1>2 DEF Without
<1> HIDE DEF g, all
<1>7. /\ DOMAIN Upsert(entities, g) = DOMAIN entities \cup DOMAIN g
      /\ \A x \in DOMAIN g : Upsert(entities, g)[x] = g[x]
      /\ \A x \in DOMAIN entities \ DOMAIN g : Upsert(entities, g)[x] = entities[x]
      /\ DOMAIN Upsert(relations, ChangedRelations(u)) = DOMAIN relations \cup DOMAIN ChangedRelations(u)
  BY UpsertRows
<1> QED
  BY <1>1, <1>2, <1>5, <1>6, <1>7 DEF all

\* The insert of an undisturbed run gives each covered file the export's symbols.
LEMMA ExactStep ==
    ASSUME IInv, [Next]_vars, NEW u \in Writers, Covered(u), Exact(u)
    PROVE  Exact(u)'
<1>t. TypeOK
  BY DEF IInv
<1> USE DEF TypeOK, Exact, Written, Goto
<1>1. CASE Bystander(u)
  BY <1>1 DEF Bystander, RunUnchanged, storeVars, SameRow, Shadowed, ChangedRelations
<1>2. CASE BeginIndex(u) \/ BeginUpdate(u) \/ BeginUpdateFiles(u) \/ BeginRefresh(u)
  <2>1. PICK j, m, c : Begin(u, j, m, "export", c)
    BY <1>t, <1>2, CommandBegins DEF Begins
  <2> QED
    BY <1>t, <2>1 DEF Begin
<1>3. CASE Export(u) \/ Diff(u) \/ ScanSourceIds(u) \/ ScanRows(u)
  BY <1>t, <1>3 DEF Export, Diff, ScanSourceIds, ScanRows, AfterScan
<1>4. CASE Gc(u) \/ Clear(u) \/ Embed(u) \/ Abort(u)
  BY <1>t, <1>4 DEF Gc, Clear, Embed, Abort
<1>5. CASE Insert(u)
  <2>1. /\ pc[u] = "insert"
        /\ UNCHANGED <<mode, changed, snap, fresh>>
        /\ disturbed[u] => disturbed'[u]
    BY <1>t, <1>5 DEF Insert, Writes
  <2>2. ChangedRelations(u)' = ChangedRelations(u)
    BY <2>1 DEF ChangedRelations
  <2> SUFFICES ASSUME mode[u] = "incremental", ~disturbed[u]
               PROVE  /\ \A f \in changed[u] : ~Shadowed(f, changed[u]) =>
                            \A n \in Names : Owner[n] = f =>
                                /\ n \in DOMAIN entities' <=> n \in ExportNames(snap[u])
                                /\ n \in DOMAIN entities' => SameRow(n, snap[u])'
                      /\ \A k \in DOMAIN ChangedRelations(u) : k \in DOMAIN relations'
    BY <2>1, <2>2 DEF Shadowed
  <2>3. ASSUME NEW f \in changed[u], ~Shadowed(f, changed[u]), NEW n \in Names, Owner[n] = f
        PROVE  /\ n \in DOMAIN entities' <=> n \in ExportNames(snap[u])
               /\ n \in DOMAIN entities' => SameRow(n, snap[u])'
    <3>1. /\ n \in DOMAIN entities => n \in ExportNames(snap[u])
          /\ n \in ExportNames(snap[u]) => Kept(u, n)
      BY <2>1, <2>3 DEF Covered, Writing
    <3> QED
      BY <1>5, <2>1, <3>1, InsertRows DEF Kept, SameRow
  <2> QED
    BY <1>5, <2>3, InsertRows
<1>6. CASE PersistMeta(u)
  <2>1. /\ pc[u] = "meta"
        /\ UNCHANGED <<entities, relations, mode, changed, snap>>
        /\ disturbed[u] => disturbed'[u]
    BY <1>t, <1>6 DEF PersistMeta, SetMeta, Writes
  <2> QED
    BY <2>1 DEF SameRow, Shadowed, ChangedRelations
<1> QED
  BY <1>t, <1>1, <1>2, <1>3, <1>4, <1>5, <1>6, ActorOrBystander DEF Step

\* The four parts together are inductive.
LEMMA IncrementalHeldStep ==
    ASSUME IInv, [Next]_vars, NEW u \in Writers, IncrementalHeld(u)
    PROVE  IncrementalHeld(u)'
BY ScanShapeStep, ScanViewStep, CoveredStep, ExactStep DEF IncrementalHeld

\* No run starts in the middle.
LEMMA IncrementalHeldInit ==
    ASSUME Init, NEW u \in Writers
    PROVE  IncrementalHeld(u)
BY DEF Init, IncrementalHeld, ScanShape, ScanView, Covered, Exact, Scanning, Writing, Written

\* An undisturbed incremental run ends with exactly the export's symbols and
\* all of the export's relations for each file it covered, however different
\* the store was before: a file that no other changed path shadows loses what
\* is gone, gains what is new and keeps what has the same hash.
THEOREM IncrementalRunsAreExact == Spec => []IncrementalExact
<1> DEFINE Held == \A u \in Writers : IncrementalHeld(u)
<1>1. Init => Held
  BY IncrementalHeldInit
<1>2. IInv /\ Held /\ [Next]_vars => Held'
  BY IncrementalHeldStep
<1>3. IInv /\ Held => IncrementalExact
  <2> SUFFICES ASSUME IInv, Held, NEW u \in Writers, Completed(u, "incremental")
               PROVE  /\ \A f \in changed[u] : ~Shadowed(f, changed[u]) =>
                            /\ StoredIn(f) = NewInFile(u, f)
                            /\ \A n \in StoredIn(f) : SameRow(n, snap[u])
                      /\ \A k \in DOMAIN ChangedRelations(u) : k \in DOMAIN relations
    BY DEF IncrementalExact
  <2>1. pc[u] \in Written /\ mode[u] = "incremental" /\ ~disturbed[u] /\ Exact(u)
    BY DEF Completed, Written, IncrementalHeld
  <2>2. ExportNames(snap[u]) \subseteq Names /\ DOMAIN entities \subseteq Names
    BY ExportEntitiesTable, StoredOwner DEF IInv, TypeOK
  <2> QED
    BY <2>1, <2>2, FileRows DEF Exact
<1> HIDE DEF Held
<1> QED
  BY <1>1, <1>2, <1>3, Invariance, PTL DEF Spec

-----------------------------------------------------------------------------
(* Updates of an index that is in step with the repository.                *)

\* Every file outside the changed set, unless a changed path shadows it, still
\* has the rows of the index of HEAD~1.
Untouched(u) ==
    \A f \in Files \ changed[u] : ~Shadowed(f, changed[u]) =>
        \A n \in Names : Owner[n] = f =>
            /\ n \in DOMAIN entities <=> n \in ExportNames(base)
            /\ n \in DOMAIN entities => entities[n] = ExportEntities[base][n]

\* What an update that is still in step knows of the repository and the store.
SyncHeld(u) ==
    synced[u] =>
        /\ ~disturbed[u] /\ snap[u] = work
        /\ mode[u] = "incremental" =>
              /\ job[u] = "update"
              /\ Config \notin DiffNames
              /\ pc[u] \in Scanning \cup Writing \cup Written => changed[u] = GetChangedFiles
              /\ pc[u] \in {"export", "diff"} \cup Scanning => entities = ExportEntities[base]
              /\ pc[u] \in Writing \cup Written => Untouched(u)

\* GC and insert only touch symbols of changed files and of files those shadow.
LEMMA UntouchedStep ==
    ASSUME IInv, NEW u \in Writers, ScanShape(u), ScanView(u), Gc(u) \/ Insert(u),
           mode[u] = "incremental", ~disturbed[u], Untouched(u)
    PROVE  Untouched(u)'
<1>1. /\ UNCHANGED <<changed, base>>
      /\ pc[u] \in {"gc", "insert"}
  BY DEF Gc, Insert, KeepTree, treeVars
<1> SUFFICES ASSUME NEW f \in Files \ changed[u], ~Shadowed(f, changed[u]),
                    NEW n \in Names, Owner[n] = f
             PROVE  /\ n \in DOMAIN entities' <=> n \in ExportNames(base)
                    /\ n \in DOMAIN entities' => entities'[n] = ExportEntities[base][n]
  BY <1>1 DEF Untouched, Shadowed
<1>2. /\ n \in DOMAIN entities <=> n \in ExportNames(base)
      /\ n \in DOMAIN entities => entities[n] = ExportEntities[base][n]
  BY DEF Untouched
<1>3. CASE Gc(u)
  <2>1. DropSeen(u)
    BY <1>3 DEF Gc, ScanView, Scanning
  <2>2. n \notin drop[u]
    BY <2>1, StoredOwner DEF DropSeen, Shadowed
  <2> QED
    BY <1>2, <1>3, <2>2, GcRows
<1>4. CASE Insert(u)
  <2>1. n \notin fresh[u]
    BY DEF ScanShape
  <2> QED
    BY <1>2, <1>4, <2>1, InsertRows
<1> QED
  BY <1>3, <1>4

\* What the index of HEAD~1 says of the files, the run keeps saying.
LEMMA BaseUntouched ==
    ASSUME IInv, NEW u \in Writers, entities = ExportEntities[base]
    PROVE  Untouched(u)
BY DEF Untouched, ExportNames

\* As long as an update is in step, it stays the update of that repository.
LEMMA SyncHeldStep ==
    ASSUME IInv, [Next]_vars, NEW u \in Writers, ScanShape(u), ScanView(u), SyncHeld(u)
    PROVE  SyncHeld(u)'
<1>t. TypeOK
  BY DEF IInv
<1> USE DEF TypeOK, Goto
<1>1. CASE Bystander(u)
  BY <1>1 DEF Bystander, RunUnchanged, storeVars, treeVars, SyncHeld, Untouched, Shadowed,
              DiffNames, GetChangedFiles, Tracked
<1>2. CASE BeginIndex(u) \/ BeginUpdate(u) \/ BeginUpdateFiles(u) \/ BeginRefresh(u)
  <2>1. PICK j, m, c : /\ Begin(u, j, m, "export", c)
                       /\ m = "incremental" /\ j = "update" => Config \notin DiffNames
    BY <1>t, <1>2, CommandBegins DEF Begins
  <2>2. /\ pc'[u] = "export" /\ snap'[u] = work /\ mode'[u] = m /\ job'[u] = j
        /\ ~disturbed'[u]
        /\ synced'[u] => j = "update" /\ entities = ExportEntities[base]
        /\ UNCHANGED <<entities, base, head, work>>
    BY <1>t, <2>1 DEF Begin, treeVars, storeVars
  <2> QED
    BY <2>1, <2>2 DEF SyncHeld, Scanning, Writing, Written, DiffNames, Tracked
<1>3. ASSUME Step(u), synced'[u],
             ~(BeginIndex(u) \/ BeginUpdate(u) \/ BeginUpdateFiles(u) \/ BeginRefresh(u))
      PROVE  SyncHeld(u)'
  <2>1. /\ synced[u] /\ disturbed'[u] = disturbed[u]
        /\ UNCHANGED <<job, mode, base, head, work>>
        /\ snap'[u] \in {snap[u], work}
    BY <1>t, <1>3 DEF Step, Export, Diff, ScanSourceIds, ScanRows, Gc, Clear, Embed, Insert,
                      PersistMeta, Abort, Writes, KeepTree, KeepHist, treeVars, histVars
  <2>2. ~disturbed[u] /\ snap[u] = work
    BY <2>1 DEF SyncHeld
  <2> SUFFICES ASSUME mode[u] = "incremental"
               PROVE  /\ pc'[u] \in Scanning \cup Writing \cup Written =>
                            changed'[u] = GetChangedFiles
                      /\ pc'[u] \in {"export", "diff"} \cup Scanning =>
                            entities' = ExportEntities[base]
                      /\ pc'[u] \in Writing \cup Written => Untouched(u)'
    BY <2>1, <2>2 DEF SyncHeld, DiffNames, GetChangedFiles, Tracked
  <2>3. /\ job[u] = "update" /\ Config \notin DiffNames
        /\ pc[u] \in Scanning \cup Writing \cup Written => changed[u] = GetChangedFiles
        /\ pc[u] \in {"export", "diff"} \cup Scanning => entities = ExportEntities[base]
        /\ pc[u] \in Writing \cup Written => Untouched(u)
    BY <2>1 DEF SyncHeld
  <2>4. CASE Export(u)
    <3>1. pc'[u] \in {"diff", "refused"} /\ pc[u] = "export" /\ UNCHANGED entities
      BY <1>t, <2>3, <2>4 DEF Export, storeVars
    <3> QED
      BY <2>3, <3>1 DEF Scanning, Writing, Written
  <2>5. CASE Diff(u)
    <3>1. pc[u] = "diff" /\ changed'[u] = GetChangedFiles /\ UNCHANGED entities
      BY <1>t, <2>5 DEF Diff, storeVars
    <3>2. (entities = ExportEntities[base])'
      BY <2>1, <2>3, <3>1
    <3>3. Untouched(u)'
      BY <2>1, <3>2 DEF Untouched, ExportNames
    <3> QED
      BY <2>1, <3>1, <3>2, <3>3
  <2>6. CASE ScanSourceIds(u) \/ ScanRows(u)
    <3>1. pc[u] \in Scanning /\ UNCHANGED <<entities, changed>>
      BY <2>6 DEF ScanSourceIds, ScanRows, storeVars, Scanning
    <3>2. (entities = ExportEntities[base])'
      BY <2>1, <2>3, <3>1
    <3>3. Untouched(u)'
      BY <2>1, <3>2 DEF Untouched, ExportNames
    <3> QED
      BY <2>1, <2>3, <3>1, <3>2, <3>3
  <2>7. CASE Gc(u) \/ Insert(u)
    <3>1. /\ pc[u] \in {"gc", "insert"} /\ pc'[u] \in {"embed", "meta"}
          /\ UNCHANGED changed
      BY <1>t, <2>7 DEF Gc, Insert
    <3>2. Untouched(u)
      BY <2>3, <3>1, BaseUntouched DEF Scanning, Writing
    <3>3. Untouched(u)'
      BY <2>2, <2>7, <3>2, UntouchedStep
    <3> QED
      BY <2>3, <3>1, <3>3 DEF Scanning, Writing, Written
  <2>8. CASE Clear(u)
    BY <2>8 DEF Clear, ScanShape
  <2>9. CASE Embed(u) \/ PersistMeta(u)
    <3>1. /\ pc[u] \in Writing \cup Written /\ pc'[u] \in Writing \cup Written
          /\ UNCHANGED <<entities, changed>>
      BY <1>t, <2>9 DEF Embed, PersistMeta, SetMeta, storeVars, Writing, Written
    <3>2. Untouched(u)'
      BY <2>1, <2>3, <3>1 DEF Untouched, Shadowed
    <3> QED
      BY <2>3, <3>1, <3>2 DEF Scanning, Writing, Written
  <2>10. CASE Abort(u)
    BY <1>t, <2>10 DEF Abort, Scanning, Writing, Written
  <2> QED
    BY <1>3, <2>4, <2>5, <2>6, <2>7, <2>8, <2>9, <2>10 DEF Step
<1>4. ~synced'[u] => SyncHeld(u)'
  BY DEF SyncHeld
<1> QED
  BY <1>t, <1>1, <1>2, <1>3, <1>4, ActorOrBystander

\* A file that is in the tree, tracked and in no diff has in the export of
\* HEAD~1 the symbols it has in the export of the working tree.
LEMMA SameExport ==
    ASSUME IInv, ConfigTracked, Config \notin DiffNames,
           NEW f \in Visible(work), head[f] # NoFile, f \notin GetChangedFiles,
           NEW n \in Names, Owner[n] = f
    PROVE  /\ n \in ExportNames(base) <=> n \in ExportNames(work)
           /\ n \in ExportNames(work) => ExportEntities[base][n] = ExportEntities[work][n]
<1>t. base \in Trees /\ work \in Trees
  BY DEF IInv, TypeOK
<1>1. f \in SourceFiles /\ f \in Files /\ work[f] # NoFile
  BY DEF Visible, SourceFiles
<1>2. base[f] = work[f]
  BY <1>1 DEF GetChangedFiles, DiffNames, Tracked
<1>3. base[Config] = work[Config]
  BY IngestAssumption DEF ConfigTracked, DiffNames, Tracked
<1>4. f \in Visible(base)
  BY <1>1, <1>2, <1>3 DEF Visible
<1> QED
  BY <1>t, <1>2, <1>4 DEF ExportNames, ExportEntities

\* `update` keeps the index an index: started on the index of HEAD~1 and left
\* alone, with a tracked config, it ends with the working tree's symbols for
\* every tracked file that was not deleted and that no changed path shadows.
THEOREM UpdatesConverge == Spec => []UpdateConverges
<1> DEFINE Held == \A u \in Writers : RebuildHeld(u) /\ IncrementalHeld(u) /\ SyncHeld(u)
<1>1. Init => Held
  BY IncrementalHeldInit DEF Init, RebuildHeld, SyncHeld, Scanning, Writing, Written
<1>2. IInv /\ Held /\ [Next]_vars => Held'
  BY RebuildHeldStep, IncrementalHeldStep, SyncHeldStep DEF IInv, IncrementalHeld
<1>3. IInv /\ Held => UpdateConverges
  <2> SUFFICES ASSUME IInv, Held, ConfigTracked, NEW u \in Writers,
                      pc[u] = "done", synced[u], mode[u] # "upsert",
                      NEW f \in Visible(work), head[f] # NoFile, ~Shadowed(f, changed[u])
               PROVE  /\ StoredIn(f) = NewInFile(u, f)
                      /\ \A n \in StoredIn(f) : SameRow(n, snap[u])
    BY DEF UpdateConverges
  <2>t. ExportNames(snap[u]) \subseteq Names /\ DOMAIN entities \subseteq Names /\ f \in Files
    BY ExportEntitiesTable, StoredOwner DEF IInv, TypeOK, Visible, SourceFiles
  <2>1. ~disturbed[u] /\ snap[u] = work /\ pc[u] \in Written
    BY DEF SyncHeld, Written
  <2>2. SUFFICES ASSUME NEW n \in Names, Owner[n] = f
                 PROVE  /\ n \in DOMAIN entities <=> n \in ExportNames(snap[u])
                        /\ n \in DOMAIN entities => SameRow(n, snap[u])
    BY <2>t, FileRows
  <2>3. CASE mode[u] = "rebuild"
    BY <2>1, <2>3 DEF RebuildHeld, ExportNames, SameRow
  <2>4. CASE mode[u] = "incremental" /\ f \in changed[u]
    BY <2>1, <2>2, <2>4 DEF IncrementalHeld, Exact
  <2>5. CASE mode[u] = "incremental" /\ f \notin changed[u]
    <3>1. Config \notin DiffNames /\ changed[u] = GetChangedFiles /\ Untouched(u)
      BY <2>1, <2>5 DEF SyncHeld
    <3>2. /\ n \in DOMAIN entities <=> n \in ExportNames(base)
          /\ n \in DOMAIN entities => entities[n] = ExportEntities[base][n]
      BY <2>t, <2>2, <2>5, <3>1 DEF Untouched
    <3>3. /\ n \in ExportNames(base) <=> n \in ExportNames(work)
          /\ n \in ExportNames(work) => ExportEntities[base][n] = ExportEntities[work][n]
      BY <2>2, <2>5, <3>1, SameExport
    <3> QED
      BY <2>1, <3>2, <3>3 DEF SameRow
  <2>6. mode[u] \in {"rebuild", "incremental"}
    BY DEF IInv, TypeOK
  <2> QED
    BY <2>3, <2>4, <2>5, <2>6
<1> HIDE DEF Held
<1> QED
  BY <1>1, <1>2, <1>3, Invariance, PTL DEF Spec
=============================================================================
