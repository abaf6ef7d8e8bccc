-------------------------- MODULE GraphStoreProofs --------------------------
(***************************************************************************)
(* What the write methods of GraphStore preserve, for every value of the   *)
(* constants: the tables keep their types, no name ever has two rows in    *)
(* the vector table, the orphan and degree queries agree, and no write of  *)
(* rows and vectors together orphans a vector.                             *)
(***************************************************************************)
EXTENDS GraphStore, FiniteSetTheorems, TLAPS

-----------------------------------------------------------------------------
(* Tables.                                                                 *)

\* The empty table.
LEMMA TableEmpty ==
    ASSUME NEW S, NEW T
    PROVE  IsTable(<<>>, S, T)
BY DEF IsTable

\* One upserted row is a table of its own.
LEMMA TableSingleton ==
    ASSUME NEW S, NEW T, NEW x \in S, NEW y \in T
    PROVE  IsTable([z \in {x} |-> y], S, T)
BY DEF IsTable

\* Upserting a table into a table gives a table.
LEMMA TableUpsert ==
    ASSUME NEW S, NEW T, NEW f, NEW g, IsTable(f, S, T), IsTable(g, S, T)
    PROVE  IsTable(Upsert(f, g), S, T)
BY DEF IsTable, Upsert

\* After an upsert a key has the new row if there is one and its old row if not.
LEMMA UpsertRows ==
    ASSUME NEW f, NEW g
    PROVE  /\ DOMAIN Upsert(f, g) = DOMAIN f \cup DOMAIN g
           /\ \A x \in DOMAIN g : Upsert(f, g)[x] = g[x]
           /\ \A x \in DOMAIN f \ DOMAIN g : Upsert(f, g)[x] = f[x]
BY DEF Upsert

\* Deleting keys from a table gives a table.
LEMMA TableWithout ==
    ASSUME NEW S, NEW T, NEW f, NEW D, IsTable(f, S, T)
    PROVE  IsTable(Without(f, D), S, T)
BY DEF IsTable, Without

\* Deleting keys leaves exactly the other rows.
LEMMA WithoutRows ==
    ASSUME NEW f, NEW D
    PROVE  /\ DOMAIN Without(f, D) = DOMAIN f \ D
           /\ \A x \in DOMAIN f \ D : Without(f, D)[x] = f[x]
BY DEF Without

\* A partial function, as the batches of Next are drawn, is a table.
LEMMA TablePFun ==
    ASSUME NEW S, NEW T, NEW f
    PROVE  f \in PFun(S, T) <=> IsTable(f, S, T)
BY DEF IsTable, PFun

\* A batch is a table of finitely many rows.
LEMMA TableBatch ==
    ASSUME NEW S, NEW T, NEW f
    PROVE  f \in Batch(S, T) <=> IsTable(f, S, T) /\ IsFiniteSet(DOMAIN f)
BY TablePFun DEF Batch

-----------------------------------------------------------------------------
(* The vector table.                                                       *)

UniqueNames(vs) == \A v, w \in vs : v.name = w.name => v = w

ValidVecs == [name : Names, source : Sources, emb : ValidEmbeddings]

\* The rows a batch of embeddings becomes: one per name, of the right
\* dimension, and only names the batch has.
LEMMA BatchRows ==
    ASSUME NEW ents, NEW embs,
           IsTable(ents, Names, EntityRow), DOMAIN embs \subseteq DOMAIN ents
    PROVE  /\ VecRows(ents, embs) \subseteq ValidVecs
           /\ UniqueNames(VecRows(ents, embs))
           /\ \A r \in VecRows(ents, embs) : r.name \in DOMAIN embs
BY DEF VecRows, Embeddable, UniqueNames, ValidVecs, IsTable, EntityRow

\* DELETE-then-INSERT keeps names unique.
LEMMA WriteKeepsUnique ==
    ASSUME NEW vs, NEW rows, vs \subseteq ValidVecs, rows \subseteq ValidVecs,
           UniqueNames(vs), UniqueNames(rows)
    PROVE  /\ WriteNodeEmbedding(vs, rows) \subseteq ValidVecs
           /\ UniqueNames(WriteNodeEmbedding(vs, rows))
BY DEF WriteNodeEmbedding, UniqueNames

-----------------------------------------------------------------------------
StoreInv == StoreTypeOK /\ OneVectorPerName

\* Every write method, and every stuttering step, preserves the types and the
\* uniqueness of vectors.
LEMMA StoreStep ==
    ASSUME StoreInv, [StoreNext]_storeVars
    PROVE  StoreInv'
<1> USE DEF StoreInv, StoreTypeOK, OneVectorPerName
<1>v. vecs \subseteq ValidVecs /\ UniqueNames(vecs)
  BY DEF ValidVecs, UniqueNames
<1>1. ASSUME NEW n \in Names, NEW row \in EntityRow, NEW embs \in PFun({n}, Embeddings),
             CreateEntity(n, row, embs)
      PROVE  StoreInv'
  <2> DEFINE one == [m \in {n} |-> row]
  <2>a. DOMAIN one = {n}
    OBVIOUS
  <2>1. IsTable(one, Names, EntityRow) /\ DOMAIN one = {n}
    BY <2>a, TableSingleton
  <2>2. IsTable(embs, {n}, Embeddings)
    BY TablePFun
  <2>3. DOMAIN embs \subseteq DOMAIN one
    BY <2>1, <2>2 DEF IsTable
  <2> HIDE DEF one
  <2>4. IsTable(entities', Names, EntityRow)
    BY <1>1, <2>1, TableUpsert DEF CreateEntity, one
  <2>5. vecs' \subseteq ValidVecs /\ UniqueNames(vecs')
    BY <1>1, <1>v, <2>1, <2>3, BatchRows, WriteKeepsUnique DEF CreateEntity, one
  <2> QED
    BY <1>1, <2>4, <2>5 DEF CreateEntity, ValidVecs, UniqueNames
<1>2. ASSUME NEW k \in EdgeKeys, NEW s \in Sources, CreateRelation(k, s)
      PROVE  StoreInv'
  <2> DEFINE one == [j \in {k} |-> s]
  <2>1. IsTable(one, EdgeKeys, Sources)
    BY TableSingleton
  <2> HIDE DEF one
  <2>2. IsTable(Upsert(relations, one), EdgeKeys, Sources)
    BY <2>1, TableUpsert
  <2> QED
    BY <1>2, <2>2 DEF CreateRelation, one
<1>3. ASSUME NEW ents \in PFun(Names, EntityRow), NEW rels \in Batch(EdgeKeys, Sources),
             NEW embs \in PFun(DOMAIN ents, Embeddings), InsertCustomKg(ents, embs, rels)
      PROVE  StoreInv'
  <2>1. IsTable(ents, Names, EntityRow) /\ IsTable(rels, EdgeKeys, Sources)
        /\ DOMAIN embs \subseteq DOMAIN ents
    BY TablePFun, TableBatch DEF IsTable
  <2>2. IsTable(entities', Names, EntityRow) /\ IsTable(relations', EdgeKeys, Sources)
    BY <1>3, <2>1, TableUpsert DEF InsertCustomKg
  <2>3. vecs' \subseteq ValidVecs /\ UniqueNames(vecs')
    BY <1>3, <1>v, <2>1, BatchRows, WriteKeepsUnique DEF InsertCustomKg
  <2> QED
    BY <1>3, <2>2, <2>3 DEF InsertCustomKg, ValidVecs, UniqueNames
<1>4. CASE DeleteAll
  BY <1>4, TableEmpty DEF DeleteAll
<1>5. ASSUME NEW ss \in SUBSET Sources, DeleteBySource(ss)
      PROVE  StoreInv'
  BY <1>5, TableWithout DEF DeleteBySource
<1>6. ASSUME NEW ns \in SUBSET Names, DeleteEntities(ns)
      PROVE  StoreInv'
  BY <1>6, TableWithout DEF DeleteEntities
<1>7. ASSUME NEW srcs \in PFun(Names, EntityRow), NEW embs \in PFun(DOMAIN srcs, Embeddings),
             WriteEmbeddings(srcs, embs)
      PROVE  StoreInv'
  <2>1. IsTable(srcs, Names, EntityRow) /\ DOMAIN embs \subseteq DOMAIN srcs
    BY TablePFun DEF IsTable
  <2>2. vecs' \subseteq ValidVecs /\ UniqueNames(vecs')
    BY <1>7, <1>v, <2>1, BatchRows, WriteKeepsUnique DEF WriteEmbeddings
  <2> QED
    BY <1>7, <2>2 DEF WriteEmbeddings, ValidVecs, UniqueNames
<1>8. ASSUME NEW k \in MetaKeys, NEW v \in MetaValues, SetMeta(k, v)
      PROVE  StoreInv'
  <2> DEFINE one == [j \in {k} |-> v]
  <2>1. IsTable(one, MetaKeys, MetaValues)
    BY TableSingleton
  <2> HIDE DEF one
  <2>2. IsTable(Upsert(meta, one), MetaKeys, MetaValues)
    BY <2>1, TableUpsert
  <2> QED
    BY <1>8, <2>2 DEF SetMeta, one
<1>9. CASE UNCHANGED storeVars
  BY <1>9 DEF storeVars
<1> QED
  BY <1>1, <1>2, <1>3, <1>4, <1>5, <1>6, <1>7, <1>8, <1>9 DEF StoreNext

\* Whatever sequence of store calls is made, the tables keep their types.
THEOREM StoreTypeCorrect == StoreSpec => []StoreTypeOK
<1>1. StoreInit => StoreInv
  BY TableEmpty DEF StoreInit, StoreInv, StoreTypeOK, OneVectorPerName
<1>2. StoreInv /\ [StoreNext]_storeVars => StoreInv'
  BY StoreStep
<1>3. StoreInv => StoreTypeOK
  BY DEF StoreInv
<1> QED
  BY <1>1, <1>2, <1>3, PTL DEF StoreSpec

\* Whatever sequence of store calls is made, no name has two vectors.
THEOREM StoreOneVector == StoreSpec => []OneVectorPerName
<1>1. StoreInit => StoreInv
  BY TableEmpty DEF StoreInit, StoreInv, StoreTypeOK, OneVectorPerName
<1>2. StoreInv /\ [StoreNext]_storeVars => StoreInv'
  BY StoreStep
<1>3. StoreInv => OneVectorPerName
  BY DEF StoreInv
<1> QED
  BY <1>1, <1>2, <1>3, PTL DEF StoreSpec

-----------------------------------------------------------------------------
(* Connectivity.                                                           *)

FiniteRelations == IsFiniteSet(DOMAIN relations)

\* The relations table never grows by more than a batch.
LEMMA FiniteStep ==
    ASSUME FiniteRelations, [StoreNext]_storeVars
    PROVE  FiniteRelations'
<1> USE DEF FiniteRelations
<1>1. ASSUME NEW g, IsFiniteSet(DOMAIN g), relations' = Upsert(relations, g)
      PROVE  FiniteRelations'
  <2>1. DOMAIN relations' = DOMAIN relations \cup DOMAIN g
    BY <1>1, UpsertRows
  <2> QED
    BY <1>1, <2>1, FS_Union
<1>2. ASSUME NEW D, relations' = Without(relations, D)
      PROVE  FiniteRelations'
  <2>1. DOMAIN relations' \in SUBSET DOMAIN relations
    BY <1>2, WithoutRows
  <2> QED
    BY <2>1, FS_Subset
<1>3. ASSUME NEW k, NEW s, CreateRelation(k, s) PROVE FiniteRelations'
  <2> DEFINE one == [j \in {k} |-> s]
  <2>1. IsFiniteSet(DOMAIN one)
    BY FS_Singleton
  <2> QED
    BY <1>1, <1>3, <2>1 DEF CreateRelation
<1>4. ASSUME NEW ents, NEW embs, NEW rels \in Batch(EdgeKeys, Sources),
             InsertCustomKg(ents, embs, rels)
      PROVE  FiniteRelations'
  BY <1>1, <1>4 DEF InsertCustomKg, Batch
<1>5. CASE DeleteAll
  <2>1. DOMAIN relations' = {}
    BY <1>5 DEF DeleteAll
  <2> QED
    BY <2>1, FS_EmptySet
<1>6. ASSUME NEW ss, DeleteBySource(ss) PROVE FiniteRelations'
  BY <1>2, <1>6 DEF DeleteBySource
<1>7. ASSUME NEW ns, DeleteEntities(ns) PROVE FiniteRelations'
  BY <1>2, <1>7 DEF DeleteEntities
<1>8. CASE UNCHANGED relations
  BY <1>8
<1> QED
  BY <1>3, <1>4, <1>5, <1>6, <1>7, <1>8
  DEF StoreNext, CreateEntity, WriteEmbeddings, SetMeta, storeVars

\* The degree of a name is positive exactly when some joined relation has it
\* at that end.
LEMMA PositiveDegree ==
    ASSUME FiniteRelations, NEW i, NEW n
    PROVE  /\ Degree(i, n) > 0 <=> \E k \in Joined : k[i] = n
           /\ Degree(i, n) > 0 => Degree(i, n) >= 1
<1> DEFINE ks == {k \in Joined : k[i] = n}
<1>1. ks \in SUBSET DOMAIN relations
  BY DEF Joined
<1>2. IsFiniteSet(ks)
  BY <1>1, FS_Subset DEF FiniteRelations
<1>3. Cardinality(ks) \in Nat /\ (Cardinality(ks) = 0 <=> ks = {})
  BY <1>2, FS_CardinalityType, FS_EmptySet
<1>4. Degree(i, n) = Cardinality(ks)
  BY DEF Degree
<1>5. Degree(i, n) > 0 <=> ks # {}
  BY <1>3, <1>4
<1>6. Degree(i, n) > 0 => Degree(i, n) >= 1
  BY <1>3, <1>4
<1> QED
  BY <1>5, <1>6

\* The two queries count the same relations.
LEMMA QueriesAgree ==
    ASSUME FiniteRelations
    PROVE  OrphanIffNoDegree
<1>1. \A i : GetDegreeDistribution(i, 1) = {n \in DOMAIN entities : \E k \in Joined : k[i] = n}
  BY PositiveDegree DEF GetDegreeDistribution
<1> QED
  BY <1>1 DEF OrphanIffNoDegree, GetOrphanEntities

\* Whatever sequence of store calls is made, an entity is an orphan exactly
\* when neither direction of the degree distribution lists it: both queries
\* leave out the relations with an end that is not stored.
THEOREM OrphansHaveNoDegree == StoreSpec => []OrphanIffNoDegree
<1>1. StoreInit => FiniteRelations
  <2>1. StoreInit => DOMAIN relations = {}
    BY DEF StoreInit
  <2> QED
    BY <2>1, FS_EmptySet DEF FiniteRelations
<1>2. FiniteRelations /\ [StoreNext]_storeVars => FiniteRelations'
  BY FiniteStep
<1>3. FiniteRelations => OrphanIffNoDegree
  BY QueriesAgree
<1> QED
  BY <1>1, <1>2, <1>3, PTL DEF StoreSpec

-----------------------------------------------------------------------------
(* Orphaned vectors.                                                       *)

OrphanNames == {v.name : v \in OrphanVectors}

\* A write of rows together with their vectors orphans no vector.
LEMMA RowsCoverVectors ==
    ASSUME NEW ents, NEW embs,
           IsTable(ents, Names, EntityRow), DOMAIN embs \subseteq DOMAIN ents,
           entities' = Upsert(entities, ents),
           vecs' = WriteNodeEmbedding(vecs, VecRows(ents, embs))
    PROVE  OrphanVectors' \subseteq OrphanVectors
<1>1. DOMAIN entities' = DOMAIN entities \cup DOMAIN ents
  BY UpsertRows
<1>2. \A r \in VecRows(ents, embs) : r.name \in DOMAIN ents
  BY BatchRows
<1>3. \A v \in vecs' : v \in vecs \/ v \in VecRows(ents, embs)
  BY DEF WriteNodeEmbedding
<1> QED
  BY <1>1, <1>2, <1>3 DEF OrphanVectors

\* Inserting, clearing and symbol-level GC leave no vector without its entity;
\* what may is a direct vector write or a delete by source.
THEOREM WritesOrphanNoVector == StoreSpec => NoNewOrphanVectors
<1> DEFINE Allowed == \/ {v.name : v \in OrphanVectors'} \subseteq {v.name : v \in OrphanVectors}
                      \/ \E ss \in SUBSET Sources : DeleteBySource(ss)
                      \/ UNCHANGED entities /\ vecs' # vecs
<1>1. OrphanVectors' \subseteq OrphanVectors => Allowed
  OBVIOUS
<1>2. ASSUME NEW n \in Names, NEW row \in EntityRow, NEW embs \in PFun({n}, Embeddings),
             CreateEntity(n, row, embs)
      PROVE  Allowed
  <2> DEFINE one == [m \in {n} |-> row]
  <2>a. DOMAIN one = {n}
    OBVIOUS
  <2>1. IsTable(one, Names, EntityRow) /\ DOMAIN one = {n}
    BY <2>a, TableSingleton
  <2>2. DOMAIN embs \subseteq DOMAIN one
    BY <2>1, TablePFun DEF IsTable
  <2>3. /\ entities' = Upsert(entities, one)
        /\ vecs' = WriteNodeEmbedding(vecs, VecRows(one, embs))
    BY <1>2 DEF CreateEntity
  <2> HIDE DEF one
  <2> QED
    BY <1>1, <2>1, <2>2, <2>3, RowsCoverVectors
<1>3. ASSUME NEW ents \in PFun(Names, EntityRow), NEW embs \in PFun(DOMAIN ents, Embeddings),
             NEW rels, InsertCustomKg(ents, embs, rels)
      PROVE  Allowed
  <2>1. IsTable(ents, Names, EntityRow) /\ DOMAIN embs \subseteq DOMAIN ents
    BY TablePFun DEF IsTable
  <2> QED
    BY <1>1, <1>3, <2>1, RowsCoverVectors DEF InsertCustomKg
<1>4. ASSUME DeleteAll PROVE Allowed
  BY <1>1, <1>4 DEF DeleteAll, OrphanVectors
<1>5. ASSUME NEW ns, DeleteEntities(ns) PROVE Allowed
  <2>1. DOMAIN entities' = DOMAIN entities \ ns
    BY <1>5, WithoutRows DEF DeleteEntities
  <2> QED
    BY <1>1, <1>5, <2>1 DEF DeleteEntities, OrphanVectors
<1>6. ASSUME UNCHANGED entities PROVE Allowed
  BY <1>1, <1>6 DEF OrphanVectors
<1>7. ASSUME NEW ss \in SUBSET Sources, DeleteBySource(ss) PROVE Allowed
  BY <1>7
<1>8. StoreNext => Allowed
  <2> HIDE DEF Allowed
  <2> QED
    BY <1>2, <1>3, <1>4, <1>5, <1>6, <1>7
    DEF StoreNext, CreateRelation, WriteEmbeddings, SetMeta
<1>9. [StoreNext]_storeVars => [Allowed]_storeVars
  BY <1>8
<1> QED
  BY <1>9, PTL DEF StoreSpec, NoNewOrphanVectors
=============================================================================
