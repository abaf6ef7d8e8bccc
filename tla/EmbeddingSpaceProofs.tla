------------------------ MODULE EmbeddingSpaceProofs ------------------------
(***************************************************************************)
(* The sticky provider choice, for any number of concurrent commands, any  *)
(* symbols and any changes of the configuration.                           *)
(***************************************************************************)
EXTENDS EmbeddingSpace, GraphStoreProofs

-----------------------------------------------------------------------------
(* The inductive invariant.                                                *)

\* Between reading that nothing is recorded and recording a choice, the
\* record and the table stay as they were read unless someone else wrote.
Window ==
    \A p \in Procs : pc[p] \in {"guard", "probe"} =>
        /\ explicit[p] = None
        /\ ~disturbed[p] => Recorded = None
        /\ ~disturbed[p] /\ pc[p] = "probe" => vecs = {}

\* A client that was not configured explicitly is the recorded one.
Chosen ==
    ~raced => \A p \in Procs :
        explicit[p] = None /\ client[p] # None => Recorded = client[p]

\* A search and a backfill have a client when they use it.
Ready == \A p \in Procs : pc[p] \in {"knn", "write"} => client[p] # None

IInv == TypeOK /\ OneVectorPerName /\ Window /\ Chosen /\ Ready /\ OneSpace

-----------------------------------------------------------------------------
(* The store calls of the commands.                                        *)

\* The rows and vectors of a batch are a table and a batch of valid rows.
LEMMA RowsTable ==
    ASSUME NEW ns \in SUBSET Names
    PROVE  IsTable(Rows(ns), Names, EntityRow) /\ DOMAIN Rows(ns) = ns
BY SpaceAssumption DEF IsTable, Rows

\* Writing a batch adds its rows and removes some.
LEMMA WriteAdds ==
    ASSUME NEW vs, NEW rows
    PROVE  WriteNodeEmbedding(vs, rows) \subseteq vs \cup rows
BY DEF WriteNodeEmbedding

\* Recording a provider makes it the recorded one.
LEMMA RecordSet ==
    ASSUME NEW c, SetMeta(Key, c)
    PROVE  Recorded' = c
<1>1. DOMAIN meta' = DOMAIN meta \cup {Key} /\ meta'[Key] = c
  BY UpsertRows DEF SetMeta
<1> QED
  BY <1>1 DEF Recorded

\* Each step of the specification is a store call or leaves the store alone.
LEMMA StepIsStoreCall ==
    ASSUME TypeOK, Ready, [Next]_vars
    PROVE  [StoreNext]_storeVars
<1>1. ASSUME NEW p \in Procs, Clear(p) PROVE StoreNext
  BY <1>1 DEF Clear, StoreNext
<1>2. ASSUME NEW p \in Procs, Gc(p) PROVE StoreNext
  <2>1. PICK ns \in SUBSET (Names \ batch[p]) : DeleteEntities(ns)
    BY <1>2 DEF Gc
  <2> QED
    BY <2>1 DEF StoreNext
<1>3. ASSUME NEW p \in Procs, Probe(p) PROVE StoreNext
  <2>1. PICK c \in Probed : SetMeta(Key, c)
    BY <1>3 DEF Probe, ToRecord
  <2> QED
    BY <2>1, SpaceAssumption DEF StoreNext
<1>4. ASSUME NEW p \in Procs, Insert(p) PROVE StoreNext
  <2>1. batch[p] \in SUBSET Names /\ client[p] \in Embeddings \cup {None}
    BY DEF TypeOK
  <2>2. PICK ns \in SUBSET batch[p] :
            /\ client[p] = None => ns = {}
            /\ InsertCustomKg(Rows(batch[p]), [n \in ns |-> client[p]], <<>>)
    BY <1>4 DEF Insert
  <2>3. Rows(batch[p]) \in PFun(Names, EntityRow) /\ DOMAIN Rows(batch[p]) = batch[p]
    BY <2>1, RowsTable, TablePFun
  <2>4. <<>> \in Batch(EdgeKeys, Sources)
    BY TableEmpty, TableBatch, FS_EmptySet
  <2>5. IsTable([n \in ns |-> client[p]], batch[p], Embeddings)
    BY <2>1, <2>2 DEF IsTable
  <2>6. [n \in ns |-> client[p]] \in PFun(DOMAIN Rows(batch[p]), Embeddings)
    BY <2>3, <2>5, TablePFun
  <2> QED
    BY <2>2, <2>3, <2>4, <2>6 DEF StoreNext
<1>5. ASSUME NEW p \in Procs, Write(p) PROVE StoreNext
  <2>1. batch[p] \in SUBSET Names /\ client[p] \in Embeddings
    BY <1>5 DEF TypeOK, Ready, Write
  <2>2. WriteEmbeddings(Rows(batch[p]), [n \in batch[p] |-> client[p]])
    BY <1>5 DEF Write
  <2>3. Rows(batch[p]) \in PFun(Names, EntityRow) /\ DOMAIN Rows(batch[p]) = batch[p]
    BY <2>1, RowsTable, TablePFun
  <2>4. IsTable([n \in batch[p] |-> client[p]], batch[p], Embeddings)
    BY <2>1 DEF IsTable
  <2>5. [n \in batch[p] |-> client[p]] \in PFun(DOMAIN Rows(batch[p]), Embeddings)
    BY <2>3, <2>4, TablePFun
  <2> QED
    BY <2>2, <2>3, <2>5 DEF StoreNext
<1>6. ASSUME NEW p \in Procs,
             \/ BeginIndex(p) \/ BeginUpdate(p) \/ BeginBackfill(p) \/ BeginSearch(p)
      PROVE  UNCHANGED storeVars
  BY <1>6 DEF BeginIndex, BeginUpdate, BeginBackfill, BeginSearch, Begin, KeepStore
<1>7. ASSUME NEW p \in Procs,
             \/ Gate(p) \/ Count(p) \/ Targets(p) \/ Resolve(p) \/ Guard(p) \/ Knn(p) \/ Die(p)
      PROVE  UNCHANGED storeVars
  BY <1>7 DEF Gate, Count, Targets, Resolve, Guard, Knn, Die, KeepStore
<1>8. CASE Reconfigure \/ UNCHANGED vars
  BY <1>8 DEF Reconfigure, KeepStore, vars
<1> QED
  BY <1>1, <1>2, <1>3, <1>4, <1>5, <1>6, <1>7, <1>8 DEF Next, Step

-----------------------------------------------------------------------------
(* Initial states.                                                         *)

\* A new workspace satisfies the invariant.
LEMMA InitInv == Init => IInv
<1> SUFFICES ASSUME Init PROVE IInv
  OBVIOUS
<1>1. IsTable(Rows(Names), Names, EntityRow)
  BY RowsTable
<1>2. StoreTypeOK /\ OneVectorPerName
  <2>1. IsTable(relations, EdgeKeys, Sources) /\ IsTable(meta, MetaKeys, MetaValues)
    BY TableEmpty DEF Init
  <2>2. CASE entities = <<>> /\ vecs = {}
    BY <2>1, <2>2, TableEmpty DEF StoreTypeOK, OneVectorPerName
  <2>3. CASE entities = Rows(Names) /\ vecs = {}
    BY <1>1, <2>1, <2>3 DEF StoreTypeOK, OneVectorPerName
  <2>4. CASE /\ entities = Rows(Names)
             /\ vecs = VecRows(Rows(Names), [n \in Names |-> "ollama"])
    <3>1. vecs \subseteq ValidVecs /\ UniqueNames(vecs)
      BY <1>1, <2>4, RowsTable, BatchRows
    <3> QED
      BY <1>1, <2>1, <2>4, <3>1 DEF StoreTypeOK, OneVectorPerName, ValidVecs, UniqueNames
  <2> QED
    BY <2>2, <2>3, <2>4 DEF Init
<1>3. Recorded = None
  BY DEF Init, Recorded
<1>4. TypeOK
  BY <1>2, <1>3 DEF Init, TypeOK, Labels
<1>5. Window /\ Chosen /\ Ready /\ OneSpace
  BY <1>3 DEF Init, Window, Chosen, Ready, OneSpace
<1> QED
  BY <1>2, <1>4, <1>5 DEF IInv

-----------------------------------------------------------------------------
(* Types.                                                                  *)

\* A step of p that is not its choice leaves the record alone.
LEMMA OwnRecord ==
    ASSUME NEW p \in Procs, Step(p), ~Probe(p)
    PROVE  Recorded' = Recorded
<1>1. CASE Clear(p) \/ Gc(p) \/ Insert(p) \/ Write(p)
  BY <1>1 DEF Clear, Gc, Insert, Write, DeleteAll, DeleteEntities, InsertCustomKg,
              WriteEmbeddings, Recorded
<1>2. CASE BeginIndex(p) \/ BeginUpdate(p) \/ BeginBackfill(p) \/ BeginSearch(p)
  BY <1>2 DEF BeginIndex, BeginUpdate, BeginBackfill, BeginSearch, Begin, KeepStore, storeVars,
              Recorded
<1>3. CASE Gate(p) \/ Count(p) \/ Targets(p) \/ Resolve(p) \/ Guard(p) \/ Knn(p) \/ Die(p)
  BY <1>3 DEF Gate, Count, Targets, Resolve, Guard, Knn, Die, KeepStore, storeVars, Recorded
<1> QED
  BY <1>1, <1>2, <1>3 DEF Step

\* The record changes by a choice only.
LEMMA RecordKept ==
    ASSUME [Next]_vars
    PROVE  \/ Recorded' = Recorded
           \/ \E p \in Procs, c \in Probed : Probe(p) /\ Recorded' = c
<1>1. ASSUME NEW p \in Procs, Probe(p)
      PROVE  \E c \in Probed : Recorded' = c
  BY <1>1, RecordSet DEF Probe, ToRecord
<1>2. CASE Reconfigure \/ UNCHANGED vars
  BY <1>2 DEF Reconfigure, KeepStore, vars, storeVars, Recorded
<1>3. ASSUME NEW p \in Procs, Step(p)
      PROVE  \/ Recorded' = Recorded
             \/ \E q \in Procs, c \in Probed : Probe(q) /\ Recorded' = c
  BY <1>1, <1>3, OwnRecord
<1> QED
  BY <1>2, <1>3 DEF Next

\* Every step preserves the types, and one vector per name.
LEMMA TypeStep ==
    ASSUME IInv, [Next]_vars
    PROVE  TypeOK' /\ OneVectorPerName'
<1>1. TypeOK /\ Ready /\ StoreInv
  BY DEF IInv, TypeOK, StoreInv
<1>2. StoreTypeOK' /\ OneVectorPerName'
  BY <1>1, StepIsStoreCall, StoreStep DEF StoreInv
<1>3. Recorded' \in Probed \cup {None}
  BY <1>1, RecordKept DEF TypeOK
<1> DEFINE Locals ==
        /\ setting \in Embeddings \cup {None}
        /\ pc \in [Procs -> Labels]
        /\ job \in [Procs -> {"index", "update", "backfill", "search"}]
        /\ explicit \in [Procs -> Embeddings \cup {None}]
        /\ batch \in [Procs -> SUBSET Names]
        /\ client \in [Procs -> Embeddings \cup {None}]
        /\ runs \in Nat /\ changes \in Nat
        /\ disturbed \in [Procs -> BOOLEAN]
        /\ raced \in BOOLEAN /\ detached \in BOOLEAN
<1>4. Locals
  BY <1>1 DEF TypeOK
<1>5. Locals'
  <2>1. ASSUME NEW p \in Procs,
               \/ BeginIndex(p) \/ BeginUpdate(p) \/ BeginBackfill(p) \/ BeginSearch(p)
        PROVE  Locals'
    BY <1>4, <2>1 DEF BeginIndex, BeginUpdate, BeginBackfill, BeginSearch, Begin, Goto, Labels,
                      histVars
  <2>2. ASSUME NEW p \in Procs, Clear(p) \/ Gc(p) \/ Gate(p) PROVE Locals'
    BY <1>4, <2>2 DEF Clear, Gc, Gate, Goto, Writes, KeepProc, Labels, histVars, envVars
  <2>3. ASSUME NEW p \in Procs, Count(p) \/ Targets(p) PROVE Locals'
    <3>1. DOMAIN entities \subseteq Names
      BY <1>1 DEF TypeOK, StoreTypeOK, IsTable
    <3> QED
      BY <1>4, <2>3, <3>1 DEF Count, Targets, Goto, End, KeepProc, Labels, histVars, envVars
  <2>4. ASSUME NEW p \in Procs, Resolve(p) PROVE Locals'
    <3>1. KnownClient(p) \in Embeddings \cup {None}
      BY <1>1, <1>4, SpaceAssumption DEF KnownClient, TypeOK, Probed
    <3> QED
      BY <1>4, <2>4, <3>1 DEF Resolve, Use, Goto, Labels, envVars
  <2>5. ASSUME NEW p \in Procs, Guard(p) PROVE Locals'
    BY <1>4, <2>5 DEF Guard, Goto, End, KeepProc, Labels, histVars, envVars
  <2>6. ASSUME NEW p \in Procs, Probe(p) PROVE Locals'
    BY <1>4, <2>6, SpaceAssumption DEF Probe, Use, Goto, Writes, Labels, envVars
  <2>7. ASSUME NEW p \in Procs, Insert(p) \/ Write(p) PROVE Locals'
    BY <1>4, <2>7 DEF Insert, Write, Detaches, Goto, End, Writes, Labels, envVars
  <2>8. ASSUME NEW p \in Procs, Knn(p) \/ Die(p) PROVE Locals'
    BY <1>4, <2>8 DEF Knn, Die, Goto, End, Labels, histVars, envVars
  <2>9. CASE Reconfigure \/ UNCHANGED vars
    BY <1>4, <2>9 DEF Reconfigure, procVars, histVars, vars, envVars
  <2> QED
    BY <2>1, <2>2, <2>3, <2>4, <2>5, <2>6, <2>7, <2>8, <2>9 DEF Next, Step
<1> QED
  BY <1>2, <1>3, <1>5 DEF TypeOK

-----------------------------------------------------------------------------
(* One space.                                                              *)

\* A step of p leaves the other commands' locals alone, and tells them when
\* it writes the store.
LEMMA Others ==
    ASSUME TypeOK, NEW p \in Procs, Step(p), NEW q \in Procs \ {p}
    PROVE  /\ pc'[q] = pc[q] /\ explicit'[q] = explicit[q] /\ client'[q] = client[q]
           /\ ~disturbed'[q] => ~disturbed[q] /\ UNCHANGED <<vecs, meta>>
<1> USE DEF TypeOK
<1>1. CASE BeginIndex(p) \/ BeginUpdate(p) \/ BeginBackfill(p) \/ BeginSearch(p)
  BY <1>1 DEF BeginIndex, BeginUpdate, BeginBackfill, BeginSearch, Begin, Goto, KeepStore,
              storeVars, histVars
<1>2. CASE Clear(p) \/ Gc(p)
  BY <1>2 DEF Clear, Gc, Goto, Writes, KeepProc
<1>3. CASE Gate(p) \/ Count(p) \/ Targets(p) \/ Guard(p) \/ Knn(p) \/ Die(p)
  BY <1>3 DEF Gate, Count, Targets, Guard, Knn, Die, Goto, End, KeepProc, KeepStore, storeVars,
              histVars
<1>4. CASE Resolve(p)
  BY <1>4 DEF Resolve, Goto, KeepStore, storeVars
<1>5. CASE Probe(p)
  BY <1>5 DEF Probe, Goto, Writes
<1>6. CASE Insert(p) \/ Write(p)
  BY <1>6 DEF Insert, Write, Goto, End, Writes
<1> QED
  BY <1>1, <1>2, <1>3, <1>4, <1>5, <1>6 DEF Step

\* Races and detachments are never forgotten.
LEMMA HistoryGrows ==
    ASSUME TypeOK, [Next]_vars
    PROVE  (raced => raced') /\ (detached => detached')
<1> USE DEF TypeOK
<1>1. ASSUME NEW p \in Procs, Step(p) PROVE (raced => raced') /\ (detached => detached')
  BY <1>1 DEF Step, BeginIndex, BeginUpdate, BeginBackfill, BeginSearch, Begin, Clear, Gc, Gate,
              Count, Targets, Resolve, Guard, Probe, Insert, Write, Knn, Die, histVars
<1> QED
  BY <1>1 DEF Next, Reconfigure, histVars, vars

\* Where a step of p may leave p, and with which client.
LEMMA Own ==
    ASSUME TypeOK, Window, Chosen, Ready, NEW p \in Procs, Step(p)
    PROVE  /\ pc'[p] \in {"guard", "probe"} =>
                  /\ explicit'[p] = None
                  /\ ~disturbed'[p] => Recorded' = None
                  /\ ~disturbed'[p] /\ pc'[p] = "probe" => vecs' = {}
           /\ pc'[p] \in {"knn", "write"} => client'[p] # None
           /\ ~raced' /\ explicit'[p] = None /\ client'[p] # None => Recorded' = client'[p]
<1> USE DEF TypeOK
<1>r. UNCHANGED meta => Recorded' = Recorded
  BY DEF Recorded
<1>1. CASE BeginIndex(p) \/ BeginUpdate(p) \/ BeginBackfill(p) \/ BeginSearch(p)
  BY <1>1 DEF BeginIndex, BeginUpdate, BeginBackfill, BeginSearch, Begin, Goto
<1>2. CASE Clear(p) \/ Gc(p)
  BY <1>2, <1>r DEF Clear, Gc, Goto, Writes, KeepProc, DeleteAll, DeleteEntities, Chosen
<1>3. CASE Gate(p) \/ Count(p) \/ Targets(p) \/ Knn(p) \/ Die(p)
  BY <1>3, <1>r DEF Gate, Count, Targets, Knn, Die, Goto, End, KeepProc, KeepStore, storeVars,
                    histVars, Chosen
<1>4. CASE Resolve(p)
  <2>1. Recorded' = Recorded
    BY <1>4, <1>r DEF Resolve, KeepStore, storeVars
  <2>2. CASE KnownClient(p) = None /\ pc'[p] = "guard" /\ client' = client
    <3>1. explicit[p] = None /\ Recorded = None
      BY <2>2 DEF KnownClient
    <3> QED
      BY <1>4, <2>1, <2>2, <3>1 DEF Resolve, Chosen
  <2>3. CASE KnownClient(p) # None /\ client'[p] = KnownClient(p) /\ pc'[p] = Use(p)
    <3>1. Use(p) \in {"knn", "write", "insert"}
      BY DEF Use
    <3>2. explicit[p] = None => KnownClient(p) = Recorded
      BY DEF KnownClient
    <3>3. explicit'[p] = explicit[p]
      BY <1>4 DEF Resolve
    <3> QED
      BY <2>1, <2>3, <3>1, <3>2, <3>3
  <2> QED
    BY <1>4, <2>2, <2>3 DEF Resolve, Goto
<1>5. CASE Guard(p)
  <2>1. Recorded' = Recorded /\ vecs' = vecs /\ disturbed' = disturbed /\ raced' = raced
    BY <1>5, <1>r DEF Guard, KeepStore, storeVars, histVars
  <2>2. CASE SpaceKnown /\ pc'[p] = "probe" /\ KeepProc
    BY <1>5, <2>1, <2>2 DEF Guard, SpaceKnown, KeepProc, Window, Chosen
  <2>3. CASE End(p)
    BY <2>1, <2>3 DEF End, Goto
  <2> QED
    BY <1>5, <2>2, <2>3 DEF Guard, Goto
<1>6. CASE Probe(p)
  <2>1. PICK c \in Probed : SetMeta(Key, c) /\ client' = [client EXCEPT ![p] = c]
    BY <1>6 DEF Probe, ToRecord
  <2>2. Recorded' = c /\ client'[p] = c /\ c # None
    BY <2>1, RecordSet, SpaceAssumption
  <2>3. pc'[p] \in {"knn", "write", "insert"}
    BY <1>6 DEF Probe, Goto, Use
  <2> QED
    BY <2>2, <2>3
<1>7. CASE Insert(p) \/ Write(p)
  BY <1>7 DEF Insert, Write, Goto, End
<1> QED
  BY <1>1, <1>2, <1>3, <1>4, <1>5, <1>6, <1>7 DEF Step

\* Every step preserves what a command knows of its provider and vectors.
LEMMA LocalStep ==
    ASSUME IInv, [Next]_vars
    PROVE  Window' /\ Chosen' /\ Ready'
<1> USE DEF IInv
<1>1. CASE Reconfigure \/ UNCHANGED vars
  <2>1. /\ UNCHANGED <<pc, explicit, client, disturbed, raced, vecs>>
        /\ Recorded' = Recorded
    BY <1>1 DEF Reconfigure, KeepStore, storeVars, procVars, histVars, vars, Recorded
  <2> QED
    BY <2>1 DEF Window, Chosen, Ready
<1>2. ASSUME NEW p \in Procs, Step(p) PROVE Window' /\ Chosen' /\ Ready'
  <2>r. UNCHANGED meta => Recorded' = Recorded
    BY DEF Recorded
  <2>1. Ready'
    BY <1>2, Own, Others DEF Ready
  <2>2. Window'
    <3>1. ASSUME NEW q \in Procs \ {p}, pc'[q] \in {"guard", "probe"}
          PROVE  /\ explicit'[q] = None
                 /\ ~disturbed'[q] => Recorded' = None
                 /\ ~disturbed'[q] /\ pc'[q] = "probe" => vecs' = {}
      BY <1>2, <2>r, <3>1, Others DEF Window
    <3> QED
      BY <1>2, <3>1, Own DEF Window
  <2>3. Chosen'
    <3> SUFFICES ASSUME ~raced', NEW q \in Procs, explicit'[q] = None, client'[q] # None
                 PROVE  Recorded' = client'[q]
      BY DEF Chosen
    <3>1. CASE q = p
      BY <1>2, <3>1, Own
    <3>2. CASE q # p
      <4>1. explicit[q] = None /\ client[q] # None /\ client'[q] = client[q] /\ ~raced
        BY <1>2, <3>2, Others, HistoryGrows DEF Next
      <4>2. Recorded = client[q]
        BY <4>1 DEF Chosen
      <4>3. ~Probe(p)
        <5> SUFFICES ASSUME Probe(p) PROVE FALSE
          OBVIOUS
        <5>1. ~disturbed[p] /\ pc[p] = "probe"
          BY DEF Probe, TypeOK
        <5> QED
          BY <4>1, <4>2, <5>1 DEF Window
      <4>4. Recorded' = Recorded
        BY <1>2, <4>3, OwnRecord
      <4> QED
        BY <4>1, <4>2, <4>4
    <3> QED
      BY <3>1, <3>2
  <2> QED
    BY <2>1, <2>2, <2>3
<1> QED
  BY <1>1, <1>2 DEF Next

\* Vectors a step adds are those of the client that writes them.
LEMMA SpaceStep ==
    ASSUME IInv, [Next]_vars
    PROVE  OneSpace'
<1> USE DEF IInv
<1> SUFFICES ASSUME ~raced', ~detached', Recorded' # None
             PROVE  \A v \in vecs' : v.emb = Recorded'
  BY DEF OneSpace
<1>h. ~raced /\ ~detached
  BY HistoryGrows
<1>r. UNCHANGED meta => Recorded' = Recorded
  BY DEF Recorded
<1>k. vecs' \subseteq vecs /\ UNCHANGED meta => (\A v \in vecs' : v.emb = Recorded')
  BY <1>h, <1>r DEF OneSpace
<1>1. CASE Reconfigure \/ UNCHANGED vars
  BY <1>1, <1>k DEF Reconfigure, KeepStore, storeVars, vars
<1>2. ASSUME NEW p \in Procs,
             \/ BeginIndex(p) \/ BeginUpdate(p) \/ BeginBackfill(p) \/ BeginSearch(p)
      PROVE  \A v \in vecs' : v.emb = Recorded'
  BY <1>2, <1>k DEF BeginIndex, BeginUpdate, BeginBackfill, BeginSearch, Begin, KeepStore, storeVars
<1>3. ASSUME NEW p \in Procs,
             \/ Gate(p) \/ Count(p) \/ Targets(p) \/ Resolve(p) \/ Guard(p) \/ Knn(p) \/ Die(p)
      PROVE  \A v \in vecs' : v.emb = Recorded'
  BY <1>3, <1>k DEF Gate, Count, Targets, Resolve, Guard, Knn, Die, KeepStore, storeVars
<1>4. ASSUME NEW p \in Procs, Clear(p) \/ Gc(p)
      PROVE  \A v \in vecs' : v.emb = Recorded'
  BY <1>4, <1>k DEF Clear, Gc, DeleteAll, DeleteEntities
<1>5. ASSUME NEW p \in Procs, Probe(p)
      PROVE  \A v \in vecs' : v.emb = Recorded'
  <2>1. ~disturbed[p] /\ pc[p] = "probe"
    BY <1>5 DEF Probe, TypeOK
  <2>2. vecs = {}
    BY <2>1 DEF Window
  <2>3. vecs' = vecs
    BY <1>5 DEF Probe, SetMeta
  <2> QED
    BY <2>2, <2>3
<1>6. ASSUME NEW p \in Procs, NEW ns \in SUBSET batch[p],
             vecs' = WriteNodeEmbedding(vecs, VecRows(Rows(batch[p]), [n \in ns |-> client[p]])),
             UNCHANGED meta, client[p] = None => ns = {},
             detached' = (detached \/ Detaches(p, ns))
      PROVE  \A v \in vecs' : v.emb = Recorded'
  <2>1. CASE ns = {}
    <3>1. VecRows(Rows(batch[p]), [n \in ns |-> client[p]]) = {}
      BY <2>1 DEF VecRows, Embeddable
    <3> QED
      BY <1>6, <1>k, <3>1, WriteAdds
  <2>2. CASE ns # {}
    <3>1. Recorded # None
      BY <1>6, <1>r
    <3>2. client[p] = Recorded
      <4>1. CASE explicit[p] = None
        BY <1>6, <1>h, <2>2, <4>1 DEF Chosen
      <4>2. CASE explicit[p] # None
        <5>1. ~Detaches(p, ns)
          BY <1>6
        <5> QED
          BY <2>2, <3>1, <4>2, <5>1 DEF Detaches
      <4> QED
        BY <4>1, <4>2
    <3>3. \A v \in VecRows(Rows(batch[p]), [n \in ns |-> client[p]]) : v.emb = Recorded
      <4>1. \A v \in VecRows(Rows(batch[p]), [n \in ns |-> client[p]]) : v.emb = client[p]
        BY DEF VecRows, Embeddable
      <4> QED
        BY <3>2, <4>1
    <3>4. \A v \in vecs : v.emb = Recorded
      BY <1>h, <3>1 DEF OneSpace
    <3>5. vecs' \subseteq vecs \cup VecRows(Rows(batch[p]), [n \in ns |-> client[p]])
      BY <1>6, WriteAdds
    <3> QED
      BY <1>6, <1>r, <3>3, <3>4, <3>5
  <2> QED
    BY <2>1, <2>2
<1>7. ASSUME NEW p \in Procs, Insert(p)
      PROVE  \A v \in vecs' : v.emb = Recorded'
  <2>1. PICK ns \in SUBSET batch[p] :
            /\ client[p] = None => ns = {}
            /\ InsertCustomKg(Rows(batch[p]), [n \in ns |-> client[p]], <<>>)
            /\ detached' = (detached \/ Detaches(p, ns))
    BY <1>7 DEF Insert
  <2> QED
    BY <1>6, <2>1 DEF InsertCustomKg
<1>8. ASSUME NEW p \in Procs, Write(p)
      PROVE  \A v \in vecs' : v.emb = Recorded'
  <2>1. client[p] # None
    BY <1>8 DEF Write, Ready
  <2> QED
    BY <1>6, <1>8, <2>1 DEF Write, WriteEmbeddings
<1> QED
  BY <1>1, <1>2, <1>3, <1>4, <1>5, <1>7, <1>8 DEF Next, Step

-----------------------------------------------------------------------------
(* The theorems.                                                           *)

\* The invariant holds in every reachable state.
LEMMA Invariance == Spec => []IInv
<1>1. IInv /\ [Next]_vars => IInv'
  BY TypeStep, LocalStep, SpaceStep DEF IInv
<1> QED
  BY <1>1, InitInv, PTL DEF Spec

\* The store and the locals of every command keep their types, and only a
\* provider an auto command may choose is ever recorded.
THEOREM TypeCorrect == Spec => []TypeOK
<1>1. IInv => TypeOK
  BY DEF IInv
<1> QED
  BY <1>1, Invariance, PTL

\* However many commands run, die and fail, and however the configuration
\* changes, the vectors of a workspace are of the space its record names,
\* unless two first choices raced or an explicit provider wrote against it.
THEOREM OneSpaceHolds == Spec => []OneSpace
<1>1. IInv => OneSpace
  BY DEF IInv
<1> QED
  BY <1>1, Invariance, PTL

\* A search on auto never meets vectors of another space than its query's.
THEOREM QueriesInSpace == Spec => []QueryInSpace
<1>1. IInv => QueryInSpace
  <2> SUFFICES ASSUME IInv, ~raced, ~detached, NEW p \in Procs, pc[p] = "knn", explicit[p] = None
               PROVE  \A v \in vecs : v.emb = client[p]
    BY DEF QueryInSpace
  <2>1. client[p] # None /\ Recorded = client[p]
    BY DEF IInv, Ready, Chosen
  <2> QED
    BY <2>1 DEF IInv, OneSpace
<1> QED
  BY <1>1, Invariance, PTL

\* The record never changes, except by a choice made over a store that was
\* written since nothing was found recorded.
THEOREM StickyHolds == Spec => Sticky
<1>1. IInv /\ [Next]_vars => [Recorded # None /\ ~raced' => Recorded' = Recorded]_vars
  <2> SUFFICES ASSUME IInv, [Next]_vars, Recorded # None, ~raced'
               PROVE  Recorded' = Recorded
    OBVIOUS
  <2>1. CASE Recorded' = Recorded
    BY <2>1
  <2>2. ASSUME NEW p \in Procs, Probe(p)
        PROVE  FALSE
    <3>1. ~disturbed[p] /\ pc[p] = "probe"
      BY <2>2 DEF Probe, IInv, TypeOK
    <3> QED
      BY <3>1 DEF IInv, Window
  <2> QED
    BY <2>1, <2>2, RecordKept
<1> QED
  BY <1>1, Invariance, PTL DEF Spec, Sticky
=============================================================================
