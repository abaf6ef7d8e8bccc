-------------------------- MODULE GraphIngestProofs -------------------------
(***************************************************************************)
(* Safety of the ingest pipeline for any number of concurrent commands,    *)
(* any repository history and any LIKE relation.                           *)
(***************************************************************************)
EXTENDS GraphIngest, GraphStoreProofs

-----------------------------------------------------------------------------
(* The inductive invariant.                                                *)

\* Every stored row is a row some tree of the repository exports.
RowsExported ==
    \A n \in DOMAIN entities : \E t \in Trees :
        n \in ExportNames(t) /\ entities[n] = ExportEntities[t][n]

\* What a run has collected agrees with its export, and it never means to
\* drop a stable symbol.
RunInv ==
    \A w \in Writers :
        /\ pc[w] = "meta" => left[w] # <<>>
        /\ pc[w] = "export" => fresh[w] = {}
        /\ attached[w] \subseteq fresh[w]
        /\ fresh[w] \subseteq ExportNames(snap[w])
        /\ \A s \in scan[w].sids : <<scan[w].file, s>> \in Like
        /\ drop[w] \cap Stable = {}

IInv == /\ TypeOK
        /\ OneVectorPerName
        /\ VectorsOwned
        /\ RowsExported
        /\ RunInv

-----------------------------------------------------------------------------
(* The export.                                                             *)

\* The entities of an export are a table of rows whose source_id lies in the
\* file their id belongs to.
LEMMA ExportEntitiesTable ==
    ASSUME NEW t \in Trees
    PROVE  /\ IsTable(ExportEntities[t], Names, EntityRow)
           /\ ExportNames(t) \subseteq Names
           /\ \A n \in ExportNames(t) : FileOf[ExportEntities[t][n].source] = Owner[n]
<1> DEFINE D == {m \in Names : /\ Owner[m] \in Visible(t)
                               /\ m \in DOMAIN Decl[Owner[m]][t[Owner[m]]]}
<1>1. ExportEntities[t] = [n \in D |-> Decl[Owner[n]][t[Owner[n]]][n]]
  BY DEF ExportEntities
<1>2. ASSUME NEW n \in D
      PROVE  /\ Decl[Owner[n]][t[Owner[n]]][n] \in EntityRow
             /\ FileOf[Decl[Owner[n]][t[Owner[n]]][n].source] = Owner[n]
  <2>1. Owner[n] \in Files /\ t[Owner[n]] \in Versions
    BY IngestAssumption DEF Visible, SourceFiles, FileVersion
  <2> QED
    BY <2>1, IngestAssumption DEF IsTable
<1> HIDE DEF D
<1>3. D \subseteq Names
  BY DEF D
<1> QED
  BY <1>1, <1>2, <1>3 DEF IsTable, ExportNames

\* The relations of an export are a table.
LEMMA ExportRelationsTable ==
    ASSUME NEW t \in Trees
    PROVE  IsTable(ExportRelations[t], EdgeKeys, Sources)
<1> DEFINE K == {MapEdge(t, p) : p \in ExportRefs(t)}
           P(k) == CHOOSE q \in ExportRefs(t) : MapEdge(t, q) = k
           S(p) == Refs[Owner[p[1]]][t[Owner[p[1]]]][p]
<1>1. ExportRelations[t] = [k \in K |-> S(P(k))]
  BY DEF ExportRelations
<1>2. ASSUME NEW p \in ExportRefs(t)
      PROVE  S(p) \in Sources /\ MapEdge(t, p) \in EdgeKeys
  <2>1. /\ p \in Names \X Names
        /\ p[1] \in ExportNames(t)
        /\ p \in DOMAIN Refs[Owner[p[1]]][t[Owner[p[1]]]]
    BY DEF ExportRefs
  <2>2. Owner[p[1]] \in Files /\ t[Owner[p[1]]] \in Versions
    <3>1. Owner[p[1]] \in Visible(t)
      BY <2>1 DEF ExportNames, ExportEntities
    <3> QED
      BY <3>1, IngestAssumption DEF Visible, SourceFiles, FileVersion
  <2>3. IsTable(Refs[Owner[p[1]]][t[Owner[p[1]]]], Names \X Names, Sources)
    BY <2>2, IngestAssumption
  <2>4. {<<p[1], p[2], "calls">>, <<p[1], RawOf[p[2]], "calls">>} \subseteq EdgeKeys
    BY <2>1, <2>2, IngestAssumption
  <2> QED
    BY <2>1, <2>3, <2>4 DEF IsTable, MapEdge
<1>3. ASSUME NEW k \in K
      PROVE  P(k) \in ExportRefs(t)
  OBVIOUS
<1>4. \A k \in K : k \in EdgeKeys /\ S(P(k)) \in Sources
  BY <1>2, <1>3
<1> HIDE DEF K, P, S
<1> QED
  BY <1>1, <1>4 DEF IsTable

\* An export has finitely many relations: the files are finitely many, and so
\* are the references of each.
LEMMA ExportRelationsFinite ==
    ASSUME NEW t \in Trees
    PROVE  IsFiniteSet(DOMAIN ExportRelations[t])
<1> DEFINE present == {f \in Files : t[f] \in Versions}
           refs(f) == DOMAIN Refs[f][t[f]]
           perFile == {refs(f) : f \in present}
           keys == {MapEdge(t, p) : p \in ExportRefs(t)}
<1>1. IsFiniteSet(present)
  BY IngestAssumption, FS_Subset
<1>2. IsFiniteSet(perFile)
  <2> DEFINE g == [f \in present |-> refs(f)]
  <2>1. g \in Surjection(present, perFile)
    BY DEF Surjection
  <2> QED
    BY <1>1, <2>1, FS_Surjection
<1>3. \A S \in perFile : IsFiniteSet(S)
  BY IngestAssumption
<1>4. IsFiniteSet(UNION perFile)
  BY <1>2, <1>3, FS_UNION
<1>5. ASSUME NEW p \in ExportRefs(t)
      PROVE  p \in UNION perFile
  <2>1. /\ p[1] \in ExportNames(t)
        /\ p \in DOMAIN Refs[Owner[p[1]]][t[Owner[p[1]]]]
    BY DEF ExportRefs
  <2>2. Owner[p[1]] \in present
    <3>1. Owner[p[1]] \in Visible(t)
      BY <2>1 DEF ExportNames, ExportEntities
    <3> QED
      BY <3>1, IngestAssumption DEF Visible, SourceFiles, FileVersion
  <2> QED
    BY <2>1, <2>2
<1>6. IsFiniteSet(ExportRefs(t))
  <2>1. ExportRefs(t) \in SUBSET UNION perFile
    BY <1>5
  <2> HIDE DEF perFile
  <2> QED
    BY <1>4, <2>1, FS_Subset
<1>7. IsFiniteSet(keys)
  <2> DEFINE g == [p \in ExportRefs(t) |-> MapEdge(t, p)]
  <2>1. g \in Surjection(ExportRefs(t), keys)
    BY DEF Surjection
  <2> QED
    BY <1>6, <2>1, FS_Surjection
<1>8. DOMAIN ExportRelations[t] = keys
  BY DEF ExportRelations
<1> QED
  BY <1>7, <1>8

\* A persisted ratio is a meta value.
LEMMA MetaValueType ==
    ASSUME NEW t \in Trees, NEW key
    PROVE  MetaValueOf(key, t) \in MetaValues
<1>1. DOMAIN ExportRelations[t] \subseteq EdgeKeys
  BY ExportRelationsTable DEF IsTable
<1>2. MetaValueOf(key, t) \in SUBSET EdgeKeys
  BY <1>1 DEF MetaValueOf, Resolved
<1> QED
  BY <1>2, IngestAssumption

-----------------------------------------------------------------------------
(* The initial states.                                                     *)

\* An empty store without runs satisfies the invariant.
LEMMA InitInv == Init => IInv
<1> SUFFICES ASSUME Init PROVE IInv
  OBVIOUS
<1> USE DEF Init
<1>1. StoreTypeOK /\ OneVectorPerName /\ VectorsOwned /\ RowsExported
  <2>m. IsTable(meta, MetaKeys, MetaValues)
    BY TableEmpty
  <2>1. CASE entities = <<>> /\ relations = <<>> /\ vecs = {}
    BY <2>1, <2>m, TableEmpty
    DEF StoreTypeOK, OneVectorPerName, VectorsOwned, OrphanVectors, RowsExported
  <2>2. CASE /\ entities = ExportEntities[work]
             /\ relations = ExportRelations[work]
             /\ vecs = VecRows(entities, [n \in DOMAIN entities |-> EmbeddingOf[entities[n].content]])
    <3>1. IsTable(entities, Names, EntityRow) /\ IsTable(relations, EdgeKeys, Sources)
      BY <2>2, ExportEntitiesTable, ExportRelationsTable
    <3> DEFINE embs == [n \in DOMAIN entities |-> EmbeddingOf[entities[n].content]]
    <3>2. DOMAIN embs = DOMAIN entities
      OBVIOUS
    <3>3. vecs = VecRows(entities, embs)
      BY <2>2
    <3> HIDE DEF embs
    <3>4. /\ vecs \subseteq ValidVecs
          /\ UniqueNames(vecs)
          /\ \A r \in vecs : r.name \in DOMAIN entities
      BY <3>1, <3>2, <3>3, BatchRows
    <3>5. RowsExported
      BY <2>2 DEF RowsExported, ExportNames
    <3> QED
      BY <2>m, <3>1, <3>4, <3>5
      DEF StoreTypeOK, OneVectorPerName, VectorsOwned, OrphanVectors, ValidVecs, UniqueNames
  <2> QED
    BY <2>1, <2>2
<1>2. TypeOK
  <2>1. left \in [Writers -> Seq(MetaKeys)]
    OBVIOUS
  <2>2. scan \in [Writers -> [file : Files, sids : SUBSET Sources]]
    BY IngestAssumption DEF NoScan
  <2>3. pc \in [Writers -> Labels]
    BY DEF Labels
  <2> QED
    BY <1>1, <2>1, <2>2, <2>3 DEF TypeOK
<1>3. RunInv
  BY DEF RunInv, NoScan
<1> QED
  BY <1>1, <1>2, <1>3 DEF IInv

-----------------------------------------------------------------------------
(* Every step of the pipeline is one call of the store.                    *)

\* The batch a run inserts, and the two facts the store needs of it.
LEMMA InsertBatch ==
    ASSUME TypeOK, RunInv, NEW w \in Writers, Insert(w)
    PROVE  \E ents \in PFun(Names, EntityRow), rels \in Batch(EdgeKeys, Sources) :
              \E embs \in PFun(DOMAIN ents, Embeddings) :
                 /\ InsertCustomKg(ents, embs, rels)
                 /\ \A n \in DOMAIN ents : n \in ExportNames(snap[w])
                                           /\ ents[n] = ExportEntities[snap[w]][n]
<1> DEFINE all  == ExportEntities[snap[w]]
           gone == Names \ fresh[w]
           ents == Without(all, gone)
           embs == [n \in attached[w] |-> EmbeddingOf[ents[n].content]]
           rels == ChangedRelations(w)
<1>1. snap[w] \in Trees
  BY DEF TypeOK
<1>2. IsTable(all, Names, EntityRow) /\ DOMAIN all = ExportNames(snap[w])
  BY <1>1, ExportEntitiesTable DEF ExportNames
<1> HIDE DEF all, gone
<1>3. /\ IsTable(ents, Names, EntityRow)
      /\ DOMAIN ents = DOMAIN all \ gone
      /\ \A n \in DOMAIN ents : ents[n] = all[n]
  <2>1. IsTable(ents, Names, EntityRow)
    BY <1>2, TableWithout
  <2>2. DOMAIN ents = DOMAIN all \ gone
    BY WithoutRows
  <2>3. \A n \in DOMAIN all \ gone : ents[n] = all[n]
    BY WithoutRows
  <2> QED
    BY <2>1, <2>2, <2>3
<1>4. attached[w] \subseteq DOMAIN ents
  BY <1>2, <1>3 DEF RunInv, TypeOK, gone
<1>5. rels \in Batch(EdgeKeys, Sources)
  <2>1. IsTable(rels, EdgeKeys, Sources)
    BY <1>1, ExportRelationsTable, TableWithout DEF ChangedRelations
  <2> DEFINE table == ExportRelations[snap[w]]
             away == {k \in DOMAIN table : FileOf[table[k]] \notin changed[w]}
  <2>2. DOMAIN Without(table, away) \in SUBSET DOMAIN table
    BY DEF Without
  <2>3. IsFiniteSet(DOMAIN rels)
    BY <1>1, <2>2, ExportRelationsFinite, FS_Subset DEF ChangedRelations
  <2> QED
    BY <2>1, <2>3, TableBatch
<1>6. IsTable(embs, DOMAIN ents, Embeddings)
  <2>1. \A n \in DOMAIN ents : ents[n].content \in Contents
    BY <1>3 DEF IsTable, EntityRow
  <2> HIDE DEF ents
  <2> QED
    BY <1>4, <2>1, IngestAssumption, StoreAssumption DEF IsTable
<1>7. InsertCustomKg(ents, embs, rels)
  BY DEF Insert, all, gone
<1> HIDE DEF ents, embs, rels
<1>8. /\ ents \in PFun(Names, EntityRow)
      /\ rels \in Batch(EdgeKeys, Sources)
      /\ embs \in PFun(DOMAIN ents, Embeddings)
  BY <1>3, <1>5, <1>6, TablePFun
<1> QED
  BY <1>2, <1>3, <1>7, <1>8 DEF all

\* Each step of the specification is a store call or leaves the store alone.
LEMMA StepIsStoreCall ==
    ASSUME TypeOK, RunInv, [Next]_vars
    PROVE  [StoreNext]_storeVars
<1>1. ASSUME NEW w \in Writers, Gc(w) PROVE StoreNext
  <2>1. drop[w] \in SUBSET Names
    BY DEF TypeOK
  <2> QED
    BY <1>1, <2>1 DEF Gc, StoreNext
<1>2. ASSUME NEW w \in Writers, Clear(w) PROVE StoreNext
  BY <1>2 DEF Clear, StoreNext
<1>3. ASSUME NEW w \in Writers, Insert(w) PROVE StoreNext
  BY <1>3, InsertBatch DEF StoreNext
<1>4. ASSUME NEW w \in Writers, PersistMeta(w) PROVE StoreNext
  <2>1. snap[w] \in Trees /\ left[w] \in Seq(MetaKeys) /\ left[w] # <<>>
    BY <1>4 DEF TypeOK, RunInv, PersistMeta
  <2>2. Head(left[w]) \in MetaKeys /\ MetaValue(w, Head(left[w])) \in MetaValues
    BY <2>1, MetaValueType DEF MetaValue
  <2> QED
    BY <1>4, <2>2 DEF PersistMeta, StoreNext
<1>5. ASSUME NEW w \in Writers,
             \/ BeginIndex(w) \/ BeginUpdate(w) \/ BeginUpdateFiles(w) \/ BeginRefresh(w)
      PROVE  UNCHANGED storeVars
  BY <1>5 DEF BeginIndex, BeginUpdate, BeginUpdateFiles, BeginRefresh, Begin
<1>6. ASSUME NEW w \in Writers,
             \/ Export(w) \/ Diff(w) \/ ScanSourceIds(w) \/ ScanRows(w) \/ Embed(w) \/ Abort(w)
      PROVE  UNCHANGED storeVars
  BY <1>6 DEF Export, Diff, ScanSourceIds, ScanRows, Embed, Abort
<1>7. CASE Edit \/ Commit \/ UNCHANGED vars
  BY <1>7 DEF Edit, Commit, KeepStore, vars
<1> QED
  BY <1>1, <1>2, <1>3, <1>4, <1>5, <1>6, <1>7 DEF Next, Step

-----------------------------------------------------------------------------
(* Type correctness.                                                       *)

\* A batch of symbols to drop or to embed is a set of names.
LEMMA ScanTypes ==
    ASSUME TypeOK, NEW w \in Writers
    PROVE  /\ GetEntitiesBySource(scan[w].sids) \subseteq Names
           /\ \A f \in Files : NewInFile(w, f) \subseteq ExportNames(snap[w])
           /\ ExportNames(snap[w]) \subseteq Names
<1>1. snap[w] \in Trees
  BY DEF TypeOK
<1>2. DOMAIN entities \subseteq Names
  BY DEF TypeOK, StoreTypeOK, IsTable
<1> QED
  BY <1>1, <1>2, ExportEntitiesTable DEF GetEntitiesBySource, NewInFile

\* Every step of a run preserves the types.
LEMMA TypeStep ==
    ASSUME IInv, [Next]_vars
    PROVE  TypeOK'
<1> USE DEF IInv
<1>s. StoreTypeOK'
  <2>1. StoreInv
    BY DEF StoreInv, TypeOK
  <2> QED
    BY <2>1, StepIsStoreCall, StoreStep DEF StoreInv
<1>b. ASSUME NEW w \in Writers, NEW j \in {"index", "update", "refresh"},
             NEW m \in {"rebuild", "upsert", "incremental"}, NEW c \in SUBSET Files,
             Begin(w, j, m, "export", c)
      PROVE  TypeOK'
  BY <1>b, <1>s, IngestAssumption DEF Begin, Goto, TypeOK, Labels, NoScan, treeVars
<1>1. ASSUME NEW w \in Writers, BeginIndex(w) PROVE TypeOK'
  BY <1>1, <1>b DEF BeginIndex
<1>2. ASSUME NEW w \in Writers, BeginUpdate(w) PROVE TypeOK'
  BY <1>2, <1>b DEF BeginUpdate
<1>3. ASSUME NEW w \in Writers, BeginUpdateFiles(w) PROVE TypeOK'
  BY <1>3, <1>b DEF BeginUpdateFiles
<1>4. ASSUME NEW w \in Writers, BeginRefresh(w) PROVE TypeOK'
  <2>1. GetWorkingTreeFiles \subseteq Files
    BY DEF GetWorkingTreeFiles
  <2>2. \A p \in PathArgs : {f \in p : work[f] # NoFile} \subseteq Files
    BY IngestAssumption
  <2> QED
    BY <1>4, <1>b, <2>1, <2>2 DEF BeginRefresh
<1> USE DEF KeepTree, KeepHist, Writes, treeVars, histVars, Goto, TypeOK, Labels
<1>5. ASSUME NEW w \in Writers, Export(w) PROVE TypeOK'
  <2>1. ExportNames(work) \subseteq Names
    BY ExportEntitiesTable
  <2>2. pc' \in [Writers -> Labels]
    BY <1>5 DEF Export
  <2>3. todo' \in [Writers -> SUBSET Files]
    BY <1>5 DEF Export
  <2>4. fresh' \in [Writers -> SUBSET Names]
    BY <1>5, <2>1 DEF Export
  <2>5. snap' \in [Writers -> Trees]
    BY <1>5 DEF Export
  <2> QED
    BY <1>5, <1>s, <2>2, <2>3, <2>4, <2>5 DEF Export
<1>6. ASSUME NEW w \in Writers, Diff(w) PROVE TypeOK'
  <2>1. GetChangedFiles \subseteq Files
    BY DEF GetChangedFiles, DiffNames
  <2> QED
    BY <1>6, <1>s, <2>1 DEF Diff
<1>7. ASSUME NEW w \in Writers, ScanSourceIds(w) PROVE TypeOK'
  <2>1. \A f \in Files : GetSourceIds(f) \subseteq Sources
    BY DEF GetSourceIds, StoreTypeOK, IsTable, EntityRow
  <2> QED
    BY <1>7, <1>s, <2>1 DEF ScanSourceIds
<1>8. ASSUME NEW w \in Writers, ScanRows(w) PROVE TypeOK'
  <2>1. scan[w].file \in Files
    OBVIOUS
  <2>2. /\ GetEntitiesBySource(scan[w].sids) \subseteq Names
        /\ NewInFile(w, scan[w].file) \subseteq Names
    BY <2>1, ScanTypes
  <2>3. pc' \in [Writers -> Labels]
    BY <1>8 DEF ScanRows, AfterScan
  <2>4. fresh' \in [Writers -> SUBSET Names]
    BY <1>8, <2>2 DEF ScanRows
  <2>5. drop' \in [Writers -> SUBSET Names]
    BY <1>8, <2>2 DEF ScanRows, Gone
  <2>6. scan' \in [Writers -> [file : Files, sids : SUBSET Sources]]
    BY <1>8, IngestAssumption DEF ScanRows, NoScan
  <2> QED
    BY <1>8, <1>s, <2>3, <2>4, <2>5, <2>6 DEF ScanRows
<1>9. ASSUME NEW w \in Writers, Gc(w) PROVE TypeOK'
  BY <1>9, <1>s DEF Gc
<1>10. ASSUME NEW w \in Writers, Clear(w) PROVE TypeOK'
  BY <1>10, <1>s DEF Clear
<1>11. ASSUME NEW w \in Writers, Embed(w) PROVE TypeOK'
  BY <1>11, <1>s DEF Embed
<1>12. ASSUME NEW w \in Writers, Insert(w) PROVE TypeOK'
  <2>1. MetaKeysOf(w) \in Seq(MetaKeys)
    BY IngestAssumption DEF MetaKeysOf, RatioKeys
  <2> QED
    BY <1>12, <1>s, <2>1 DEF Insert
<1>13. ASSUME NEW w \in Writers, PersistMeta(w) PROVE TypeOK'
  <2>1. Tail(left[w]) \in Seq(MetaKeys)
    BY <1>13 DEF PersistMeta, RunInv
  <2> QED
    BY <1>13, <1>s, <2>1 DEF PersistMeta
<1>14. ASSUME NEW w \in Writers, Abort(w) PROVE TypeOK'
  <2>1. scan' \in [Writers -> [file : Files, sids : SUBSET Sources]]
    BY <1>14, IngestAssumption DEF Abort, NoScan
  <2>2. left' \in [Writers -> Seq(MetaKeys)]
    BY <1>14 DEF Abort
  <2> QED
    BY <1>14, <1>s, <2>1, <2>2 DEF Abort
<1>15. CASE Edit
  BY <1>15, <1>s DEF Edit, KeepStore, runVars
<1>16. CASE Commit
  BY <1>16, <1>s DEF Commit, KeepStore, runVars
<1>17. CASE UNCHANGED vars
  BY <1>17, <1>s DEF vars, runVars
<1> QED
  BY <1>1, <1>2, <1>3, <1>4, <1>5, <1>6, <1>7, <1>8, <1>9, <1>10, <1>11, <1>12, <1>13,
     <1>14, <1>15, <1>16, <1>17 DEF Next, Step

-----------------------------------------------------------------------------
(* The store side of the invariant.                                        *)

\* The three store calls of a run that change the graph tables.
LEMMA GraphTablesChange ==
    ASSUME TypeOK, RunInv, [Next]_vars,
           ~ UNCHANGED <<entities, relations, vecs>>
    PROVE  \E w \in Writers : Gc(w) \/ Clear(w) \/ Insert(w)
<1>1. ASSUME NEW w \in Writers,
             \/ BeginIndex(w) \/ BeginUpdate(w) \/ BeginUpdateFiles(w) \/ BeginRefresh(w)
      PROVE  FALSE
  BY <1>1 DEF BeginIndex, BeginUpdate, BeginUpdateFiles, BeginRefresh, Begin, storeVars
<1>2. ASSUME NEW w \in Writers,
             \/ Export(w) \/ Diff(w) \/ ScanSourceIds(w) \/ ScanRows(w) \/ Embed(w)
             \/ PersistMeta(w) \/ Abort(w)
      PROVE  FALSE
  BY <1>2 DEF Export, Diff, ScanSourceIds, ScanRows, Embed, PersistMeta, SetMeta, Abort,
              storeVars
<1>3. ASSUME Edit \/ Commit \/ UNCHANGED vars PROVE FALSE
  BY <1>3 DEF Edit, Commit, KeepStore, vars, storeVars
<1> QED
  BY <1>1, <1>2, <1>3 DEF Next, Step

\* What GC leaves in the entities table.
LEMMA GcRows ==
    ASSUME NEW w \in Writers, Gc(w)
    PROVE  /\ DOMAIN entities' = DOMAIN entities \ drop[w]
           /\ \A n \in DOMAIN entities \ drop[w] : entities'[n] = entities[n]
           /\ vecs' = {v \in vecs : v.name \notin drop[w]}
BY DEF Gc, DeleteEntities, Without

\* No store call of a run leaves a vector without its entity.
LEMMA VectorsOwnedStep ==
    ASSUME IInv, [Next]_vars
    PROVE  VectorsOwned'
<1> USE DEF IInv, VectorsOwned, OrphanVectors
<1>1. ASSUME NEW w \in Writers, Gc(w) PROVE VectorsOwned'
  BY <1>1, GcRows
<1>2. ASSUME NEW w \in Writers, Clear(w) PROVE VectorsOwned'
  BY <1>2 DEF Clear, DeleteAll
<1>3. ASSUME NEW w \in Writers, Insert(w) PROVE VectorsOwned'
  <2>1. PICK ents \in PFun(Names, EntityRow), rels \in Batch(EdgeKeys, Sources) :
           \E embs \in PFun(DOMAIN ents, Embeddings) : InsertCustomKg(ents, embs, rels)
    BY <1>3, InsertBatch
  <2>2. PICK embs \in PFun(DOMAIN ents, Embeddings) : InsertCustomKg(ents, embs, rels)
    BY <2>1
  <2>3. DOMAIN embs \subseteq DOMAIN ents /\ IsTable(ents, Names, EntityRow)
    BY TablePFun DEF IsTable
  <2>4. \A r \in VecRows(ents, embs) : r.name \in DOMAIN ents
    BY <2>3, BatchRows
  <2>5. DOMAIN entities' = DOMAIN entities \cup DOMAIN ents
    BY <2>2, UpsertRows DEF InsertCustomKg
  <2>6. \A v \in vecs' : v \in vecs \/ v \in VecRows(ents, embs)
    BY <2>2 DEF InsertCustomKg, WriteNodeEmbedding
  <2> QED
    BY <2>4, <2>5, <2>6
<1>4. CASE UNCHANGED <<entities, relations, vecs>>
  BY <1>4
<1> QED
  BY <1>1, <1>2, <1>3, <1>4, GraphTablesChange

\* No store call of a run stores a row that no tree exports.
LEMMA RowsExportedStep ==
    ASSUME IInv, [Next]_vars
    PROVE  RowsExported'
<1> USE DEF IInv
<1>1. ASSUME NEW w \in Writers, Gc(w) PROVE RowsExported'
  BY <1>1, GcRows DEF RowsExported
<1>2. ASSUME NEW w \in Writers, Clear(w) PROVE RowsExported'
  BY <1>2 DEF Clear, DeleteAll, RowsExported
<1>3. ASSUME NEW w \in Writers, Insert(w) PROVE RowsExported'
  <2>1. PICK ents \in PFun(Names, EntityRow), rels \in Batch(EdgeKeys, Sources) :
           \E embs \in PFun(DOMAIN ents, Embeddings) :
              /\ InsertCustomKg(ents, embs, rels)
              /\ \A n \in DOMAIN ents : n \in ExportNames(snap[w])
                                        /\ ents[n] = ExportEntities[snap[w]][n]
    BY <1>3, InsertBatch
  <2>2. entities' = Upsert(entities, ents)
    BY <2>1 DEF InsertCustomKg
  <2>3. snap[w] \in Trees
    BY DEF TypeOK
  <2>4. /\ DOMAIN entities' = DOMAIN entities \cup DOMAIN ents
        /\ \A n \in DOMAIN ents : entities'[n] = ents[n]
        /\ \A n \in DOMAIN entities \ DOMAIN ents : entities'[n] = entities[n]
    BY <2>2 DEF Upsert
  <2> QED
    BY <2>1, <2>3, <2>4 DEF RowsExported
<1>4. CASE UNCHANGED <<entities, relations, vecs>>
  BY <1>4 DEF RowsExported
<1> QED
  BY <1>1, <1>2, <1>3, <1>4, GraphTablesChange

-----------------------------------------------------------------------------
(* The run side of the invariant.                                          *)

\* The diff of a file never finds a stable symbol gone: its stored row came
\* from some tree, so its source_id belongs to its own file and to no other
\* LIKE prefix, and the export at hand declares it there too.
LEMMA StableNotGone ==
    ASSUME IInv, NEW w \in Writers
    PROVE  Gone(GetEntitiesBySource(scan[w].sids), NewInFile(w, scan[w].file)) \cap Stable = {}
<1> SUFFICES ASSUME NEW n \in Stable, n \in DOMAIN entities,
                    entities[n].source \in scan[w].sids
             PROVE  n \in NewInFile(w, scan[w].file)
  BY DEF Gone, GetEntitiesBySource
<1>1. PICK t \in Trees : n \in ExportNames(t) /\ entities[n] = ExportEntities[t][n]
  BY DEF IInv, RowsExported
<1>2. <<scan[w].file, ExportEntities[t][n].source>> \in Like
  BY <1>1 DEF IInv, RunInv
<1>3. scan[w].file = Owner[n]
  BY <1>1, <1>2 DEF Stable, StableIn, IInv, TypeOK
<1>4. snap[w] \in Trees
  BY DEF IInv, TypeOK
<1>5. n \in ExportNames(snap[w])
  BY <1>4 DEF Stable, StableIn
<1> QED
  BY <1>3, <1>4, <1>5, ExportEntitiesTable DEF NewInFile

\* Every step of a run preserves what the runs know.
LEMMA RunInvStep ==
    ASSUME IInv, [Next]_vars
    PROVE  RunInv'
<1> USE DEF IInv
<1>t. TypeOK /\ RunInv
  OBVIOUS
<1>b. ASSUME NEW w \in Writers, NEW j, NEW m, NEW c, Begin(w, j, m, "export", c)
      PROVE  RunInv'
  BY <1>b, <1>t DEF Begin, Goto, TypeOK, RunInv, NoScan
<1>1. ASSUME NEW w \in Writers, BeginIndex(w) PROVE RunInv'
  BY <1>1, <1>b DEF BeginIndex
<1>2. ASSUME NEW w \in Writers, BeginUpdate(w) PROVE RunInv'
  BY <1>2, <1>b DEF BeginUpdate
<1>3. ASSUME NEW w \in Writers, BeginUpdateFiles(w) PROVE RunInv'
  BY <1>3, <1>b DEF BeginUpdateFiles
<1>4. ASSUME NEW w \in Writers, BeginRefresh(w) PROVE RunInv'
  BY <1>4, <1>b DEF BeginRefresh
<1> USE DEF Goto, TypeOK, RunInv
<1>5. ASSUME NEW w \in Writers, Export(w) PROVE RunInv'
  BY <1>5 DEF Export
<1>6. ASSUME NEW w \in Writers, Diff(w) PROVE RunInv'
  BY <1>6 DEF Diff
<1>7. ASSUME NEW w \in Writers, ScanSourceIds(w) PROVE RunInv'
  BY <1>7 DEF ScanSourceIds, GetSourceIds
<1>8. ASSUME NEW w \in Writers, ScanRows(w) PROVE RunInv'
  <2> DEFINE old == GetEntitiesBySource(scan[w].sids)
             new == NewInFile(w, scan[w].file)
  <2>1. Gone(old, new) \cap Stable = {}
    BY StableNotGone
  <2>2. new \subseteq ExportNames(snap[w])
    BY DEF NewInFile
  <2>3. /\ drop' = [drop EXCEPT ![w] = drop[w] \cup Gone(old, new)]
        /\ scan' = [scan EXCEPT ![w] = NoScan]
        /\ pc'[w] # "meta" /\ pc'[w] # "export"
        /\ \A u \in Writers : u # w => pc'[u] = pc[u]
        /\ UNCHANGED <<left, attached, snap>>
    BY <1>8 DEF ScanRows, AfterScan
  <2>4. \E more \in SUBSET new : fresh' = [fresh EXCEPT ![w] = fresh[w] \cup more]
    BY <1>8 DEF ScanRows
  <2> HIDE DEF old, new
  <2> QED
    BY <2>1, <2>2, <2>3, <2>4 DEF NoScan
<1>9. ASSUME NEW w \in Writers, Gc(w) PROVE RunInv'
  BY <1>9 DEF Gc
<1>10. ASSUME NEW w \in Writers, Clear(w) PROVE RunInv'
  BY <1>10 DEF Clear
<1>11. ASSUME NEW w \in Writers, Embed(w) PROVE RunInv'
  BY <1>11 DEF Embed
<1>12. ASSUME NEW w \in Writers, Insert(w) PROVE RunInv'
  <2>1. MetaKeysOf(w) # <<>>
    BY DEF MetaKeysOf, RatioKeys
  <2> QED
    BY <1>12, <2>1 DEF Insert
<1>13. ASSUME NEW w \in Writers, PersistMeta(w) PROVE RunInv'
  BY <1>13 DEF PersistMeta
<1>14. ASSUME NEW w \in Writers, Abort(w) PROVE RunInv'
  BY <1>14 DEF Abort, NoScan
<1>15. CASE Edit
  BY <1>15 DEF Edit, KeepStore, runVars
<1>16. CASE Commit
  BY <1>16 DEF Commit, KeepStore, runVars
<1>17. CASE UNCHANGED vars
  BY <1>17 DEF vars, runVars
<1> QED
  BY <1>1, <1>2, <1>3, <1>4, <1>5, <1>6, <1>7, <1>8, <1>9, <1>10, <1>11, <1>12, <1>13,
     <1>14, <1>15, <1>16, <1>17 DEF Next, Step

\* The invariant is inductive.
LEMMA InvStep ==
    ASSUME IInv, [Next]_vars
    PROVE  IInv'
<1>1. StoreInv
  BY DEF IInv, StoreInv, TypeOK
<1>2. OneVectorPerName'
  BY <1>1, StepIsStoreCall, StoreStep DEF IInv, StoreInv
<1> QED
  BY <1>2, TypeStep, VectorsOwnedStep, RowsExportedStep, RunInvStep DEF IInv

\* The invariant holds in every reachable state.
LEMMA Invariance == Spec => []IInv
<1>1. IInv /\ [Next]_vars => IInv'
  BY InvStep
<1> QED
  BY InitInv, <1>1, PTL DEF Spec

-----------------------------------------------------------------------------
(* The theorems.                                                           *)

\* The store and every run's state keep their types.
THEOREM TypeCorrect == Spec => []TypeOK
<1>1. IInv => TypeOK
  BY DEF IInv
<1> QED
  BY <1>1, Invariance, PTL

\* However many commands run at once and wherever they die, no vector is left
\* without its entity.
THEOREM VectorsAlwaysOwned == Spec => []VectorsOwned
<1>1. IInv => VectorsOwned
  BY DEF IInv
<1> QED
  BY <1>1, Invariance, PTL

\* Every step of every command is one write method of the store, with
\* arguments the store accepts, or leaves the four tables alone.
THEOREM ImplementsStore == Spec => [][StoreNext]_storeVars
<1>1. IInv /\ [Next]_vars => [StoreNext]_storeVars
  BY StepIsStoreCall DEF IInv
<1> QED
  BY <1>1, Invariance, PTL DEF Spec

\* A symbol that every tree declares, in a file no other path shadows, is
\* removed by nothing but a clear rebuild: not by a concurrent run, not by an
\* export that is older than the diff, not by a row of an earlier index.
THEOREM StableSymbolsSurvive == Spec => StableSurvives
<1> DEFINE Survives ==
        \A n \in Stable : n \in DOMAIN entities /\ n \notin DOMAIN entities' =>
            \E w \in Writers : pc[w] = "clear" /\ pc'[w] = "embed"
<1>1. IInv /\ [Next]_vars => [Survives]_vars
  <2> SUFFICES ASSUME IInv, [Next]_vars,
                      NEW n \in Stable, n \in DOMAIN entities, n \notin DOMAIN entities'
               PROVE  \E w \in Writers : pc[w] = "clear" /\ pc'[w] = "embed"
    OBVIOUS
  <2> USE DEF IInv
  <2>1. PICK w \in Writers : Gc(w) \/ Clear(w) \/ Insert(w)
    BY GraphTablesChange
  <2>2. CASE Gc(w)
    BY <2>2, GcRows DEF RunInv
  <2>3. CASE Insert(w)
    <3>1. PICK ents, rels : \E embs : InsertCustomKg(ents, embs, rels)
      BY <2>3, InsertBatch
    <3>2. entities' = Upsert(entities, ents)
      BY <3>1 DEF InsertCustomKg
    <3>3. DOMAIN entities' = DOMAIN entities \cup DOMAIN ents
      BY <3>2 DEF Upsert
    <3> QED
      BY <3>3
  <2>4. CASE Clear(w)
    BY <2>4 DEF Clear, Goto, TypeOK
  <2> QED
    BY <2>1, <2>2, <2>3, <2>4
<1> QED
  BY <1>1, Invariance, PTL DEF Spec, StableSurvives
=============================================================================
