----------------------------- MODULE GraphStore -----------------------------
(***************************************************************************)
(* The SQLite graph store of one workspace (storage/sqlite_store.py): the  *)
(* three graph tables and the key/value meta table, one action per write   *)
(* method of SqliteGraphStore, and the read methods the other components   *)
(* rely on.  Every write method runs in one transaction, so it is one      *)
(* action; what happens between two calls belongs to the modules that      *)
(* extend this one.                                                        *)
(***************************************************************************)
EXTENDS Naturals, FiniteSets

CONSTANTS
    Names,            \* entity names (codeindex symbol ids)
    Endpoints,        \* what a relation may point at: Names and call expressions
    EdgeKeys,         \* the <<src, tgt, keywords>> keys relations may have
    Files,            \* repo-relative paths
    Sources,          \* source_id values, "path:line"
    Like,             \* <<f, s>> : source_id s LIKE 'f%'
    Contents,         \* what a row says of its symbol (type, description, hash)
    Embeddings,       \* embedding values a caller may pass
    ValidEmbeddings,  \* those with the store's dimension
    MetaKeys, MetaValues

ASSUME StoreAssumption ==
    /\ Names \subseteq Endpoints
    /\ EdgeKeys \subseteq Endpoints \X Endpoints \X STRING
    /\ Like \subseteq Files \X Sources
    /\ ValidEmbeddings \subseteq Embeddings

VARIABLES
    entities,   \* entities table: name -> [source, content]
    relations,  \* relations table: <<src, tgt, keywords>> -> source_id
    vecs,       \* rows of the vec0 table vec_node_descriptions
    meta        \* meta table: key -> value

storeVars == <<entities, relations, vecs, meta>>

-----------------------------------------------------------------------------
(* Tables as partial functions.                                            *)

IsTable(f, S, T) == DOMAIN f \subseteq S /\ f \in [DOMAIN f -> T]

PFun(S, T) == UNION {[D -> T] : D \in SUBSET S}

EntityRow == [source : Sources, content : Contents]
VecRow    == [name : Names, source : Sources, emb : Embeddings]

\* the rows of a list a caller hands over
Batch(S, T) == {b \in PFun(S, T) : IsFiniteSet(DOMAIN b)}

\* INSERT .. ON CONFLICT DO UPDATE of the rows g into the table f
Upsert(f, g) == [x \in DOMAIN f \cup DOMAIN g |->
                    IF x \in DOMAIN g THEN g[x] ELSE f[x]]

\* DELETE of the keys D from the table f
Without(f, D) == [x \in DOMAIN f \ D |-> f[x]]

\* Mutant: the length of an embedding is not looked at.
EmbeddableAny(embs) == DOMAIN embs

\* _valid_embedding keeps a value only when its length is the store's dimension
Embeddable(embs) == {n \in DOMAIN embs : embs[n] \in ValidEmbeddings}

VecRows(ents, embs) == {[name |-> n, source |-> ents[n].source, emb |-> embs[n]] :
                            n \in Embeddable(embs)}

\* Mutants: INSERT without the DELETE; INSERT that keeps an existing vector.
WriteNodeEmbeddingNoDelete(vs, rows) == vs \cup rows
WriteNodeEmbeddingIgnore(vs, rows) ==
    vs \cup {r \in rows : \A v \in vs : r.name # v.name}

\* _write_node_embedding: vec0 has no upsert and no unique key, so the method
\* deletes by name and then inserts
WriteNodeEmbedding(vs, rows) ==
    {v \in vs : \A r \in rows : r.name # v.name} \cup rows

-----------------------------------------------------------------------------
(* Read methods.                                                           *)

GetSourceIds(f) == {s \in {entities[n].source : n \in DOMAIN entities} : <<f, s>> \in Like}

GetEntitiesBySource(ss) == {n \in DOMAIN entities : entities[n].source \in ss}

VectorCount == Cardinality(vecs)

\* a relation both of whose ends are stored entities
Joined == {k \in DOMAIN relations : k[1] \in DOMAIN entities /\ k[2] \in DOMAIN entities}

GetOrphanEntities == {n \in DOMAIN entities : \A k \in Joined : k[1] # n /\ k[2] # n}

\* Mutant: the degree query counts dangling relations.
DegreeDangling(i, n) == Cardinality({k \in DOMAIN relations : k[i] = n})

\* joined relations that have n as their i-th end: 1 is src_id, 2 is tgt_id
Degree(i, n) == Cardinality({k \in Joined : k[i] = n})

\* get_degree_distribution: GROUP BY lists only names some joined relation has
GetDegreeDistribution(i, min) ==
    {n \in DOMAIN entities : Degree(i, n) > 0 /\ Degree(i, n) >= min}

-----------------------------------------------------------------------------
(* Write methods.                                                          *)

StoreInit ==
    /\ entities = <<>>
    /\ relations = <<>>
    /\ vecs = {}
    /\ meta = <<>>

CreateEntity(n, row, embs) ==
    /\ entities' = Upsert(entities, [m \in {n} |-> row])
    /\ vecs' = WriteNodeEmbedding(vecs, VecRows([m \in {n} |-> row], embs))
    /\ UNCHANGED <<relations, meta>>

CreateRelation(k, s) ==
    /\ relations' = Upsert(relations, [j \in {k} |-> s])
    /\ UNCHANGED <<entities, vecs, meta>>

\* insert_custom_kg: the whole batch in one transaction
InsertCustomKg(ents, embs, rels) ==
    /\ entities' = Upsert(entities, ents)
    /\ relations' = Upsert(relations, rels)
    /\ vecs' = WriteNodeEmbedding(vecs, VecRows(ents, embs))
    /\ UNCHANGED meta

\* Mutant: the clear forgets the relations.
DeleteAllButRelations ==
    /\ entities' = <<>>
    /\ vecs' = {}
    /\ UNCHANGED <<relations, meta>>

\* delete_all empties the three graph tables and leaves meta alone
DeleteAll ==
    /\ entities' = <<>>
    /\ relations' = <<>>
    /\ vecs' = {}
    /\ UNCHANGED meta

DeleteBySource(ss) ==
    /\ ss # {}
    /\ entities' = Without(entities, {n \in DOMAIN entities : entities[n].source \in ss})
    /\ relations' = Without(relations, {k \in DOMAIN relations : relations[k] \in ss})
    /\ vecs' = {v \in vecs : v.source \notin ss}
    /\ UNCHANGED meta

\* Mutant: the vectors of deleted entities stay.
DeleteEntitiesKeepVectors(ns) ==
    /\ ns # {}
    /\ entities' = Without(entities, ns)
    /\ relations' = Without(relations, {k \in DOMAIN relations : k[1] \in ns \/ k[2] \in ns})
    /\ UNCHANGED <<vecs, meta>>

\* delete_entities: the rows, every relation touching them, their vectors
DeleteEntities(ns) ==
    /\ ns # {}
    /\ entities' = Without(entities, ns)
    /\ relations' = Without(relations, {k \in DOMAIN relations : k[1] \in ns \/ k[2] \in ns})
    /\ vecs' = {v \in vecs : v.name \notin ns}
    /\ UNCHANGED meta

\* write_embeddings takes (name, source_id, embedding) tuples; it does not
\* look at the entities table
WriteEmbeddings(srcs, embs) ==
    /\ Embeddable(embs) # {}
    /\ vecs' = WriteNodeEmbedding(vecs, VecRows(srcs, embs))
    /\ UNCHANGED <<entities, relations, meta>>

SetMeta(k, v) ==
    /\ meta' = Upsert(meta, [j \in {k} |-> v])
    /\ UNCHANGED <<entities, relations, vecs>>

-----------------------------------------------------------------------------
StoreNext ==
    \/ \E n \in Names, row \in EntityRow :
          \E embs \in PFun({n}, Embeddings) : CreateEntity(n, row, embs)
    \/ \E k \in EdgeKeys, s \in Sources : CreateRelation(k, s)
    \/ \E ents \in PFun(Names, EntityRow), rels \in Batch(EdgeKeys, Sources) :
          \E embs \in PFun(DOMAIN ents, Embeddings) : InsertCustomKg(ents, embs, rels)
    \/ DeleteAll
    \/ \E ss \in SUBSET Sources : DeleteBySource(ss)
    \/ \E ns \in SUBSET Names : DeleteEntities(ns)
    \/ \E srcs \in PFun(Names, EntityRow) :
          \E embs \in PFun(DOMAIN srcs, Embeddings) : WriteEmbeddings(srcs, embs)
    \/ \E k \in MetaKeys, v \in MetaValues : SetMeta(k, v)

StoreSpec == StoreInit /\ [][StoreNext]_storeVars

-----------------------------------------------------------------------------
(* Properties.                                                             *)

\* Type invariant of the four tables (_schema_sql).
StoreTypeOK ==
    /\ IsTable(entities, Names, EntityRow)
    /\ IsTable(relations, EdgeKeys, Sources)
    /\ vecs \subseteq [name : Names, source : Sources, emb : ValidEmbeddings]
    /\ IsTable(meta, MetaKeys, MetaValues)

\* A name has at most one row in the vector table, though vec0 enforces no
\* key: KNN search may never rank one symbol twice (_write_node_embedding).
OneVectorPerName == \A v, w \in vecs : v.name = w.name => v = w

\* The orphan query and the degree query agree on what connectivity is: an
\* entity is an orphan exactly when neither direction of the degree
\* distribution lists it ("same rule as get_orphan_entities").
OrphanIffNoDegree ==
    GetOrphanEntities = DOMAIN entities \ (GetDegreeDistribution(1, 1)
                                           \cup GetDegreeDistribution(2, 1))

OrphanVectors == {v \in vecs : v.name \notin DOMAIN entities}

\* Inserting, clearing and symbol-level GC never leave a vector without its
\* entity; only a direct vector write or a delete by source can (the vector
\* row keeps the source_id of the write that embedded it).
NoNewOrphanVectors ==
    [][ \/ {v.name : v \in OrphanVectors'} \subseteq {v.name : v \in OrphanVectors}
        \/ \E ss \in SUBSET Sources : DeleteBySource(ss)
        \/ UNCHANGED entities /\ vecs' # vecs ]_storeVars
=============================================================================
