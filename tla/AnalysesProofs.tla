---------------------------- MODULE AnalysesProofs ----------------------------
(***************************************************************************)
(* What the commands that only read answer, for all workspaces, edits,     *)
(* graphs, layouts, logs and debts.                                        *)
(***************************************************************************)
EXTENDS ReadingCommands, FiniteSetTheorems, SequenceTheorems, WellFoundedInduction, TLAPS

\* An answer once given is the one its command computes from the question.
AnswersInv ==
    /\ AnalysisAsked \/ ReviewAsked \/ PilotAsked
    /\ Answered("branch-diff") => answer = Diff(question[1], question[2])
    /\ Answered("compare") => answer = Compare(question[1], question[2])
    /\ Answered("codegraph-diff") =>
          answer = Diff(SnapshotOf(question[1]), SnapshotOf(question[2]))
    /\ Answered("impact") => answer = Impact(question)
    /\ Answered("changed") => answer = ChangedSymbols(question)
    /\ Answered("graph") =>
          answer = GraphQuery(question.edges, question.methods, question.start,
                              question.depth, question.include_unresolved)
    /\ Answered("deps") =>
          answer = Deps(question.dir, question.inside, question.rels, question.depth)
    /\ Answered("topology") =>
          /\ answer.server = ServerTopology(question.kind, question.edges, question.hub, question.god)
          /\ answer.client = ClientTopology(question.kind, question.init, question.edges,
                                            question.hub, question.god)
    /\ Answered("git-metrics") =>
          answer = [f \in question.paths |-> ChangeFrequency(question.log, f)]
    /\ Answered("debt") => answer = [score |-> TotalScore(question), grade |-> Grade(question)]

\* Every answer is that of its operator on the databases and the diff.
LEMMA Answers == Spec => []AnswersInv
<1>1. Init => AnswersInv
  BY DEF Init, AnswersInv, Answered
<1>2. AnswersInv /\ [Next]_vars => AnswersInv'
  <2> SUFFICES ASSUME AnswersInv, [Next]_vars PROVE AnswersInv'
    OBVIOUS
  <2>1. cmd' = cmd /\ question' = question
    BY DEF vars, Next, AnalysisStep, Answer, BranchDiffCommand, CompareCommand, CodegraphDiffCommand,
           ImpactCommand, ChangedCommand, GraphCommand, DepsCommand, TopologyCommand,
           GitMetricsCommand, DebtCommand, OrientationCommand, PilotCommand, AuditCommand
  <2>2. (AnalysisAsked \/ ReviewAsked \/ PilotAsked)'
    BY <2>1 DEF AnswersInv, AnalysisAsked, ReviewAsked, PilotAsked
  <2>3. CASE BranchDiffCommand
    BY <2>1, <2>2, <2>3 DEF AnswersInv, Answered, BranchDiffCommand, Answer
  <2>4. CASE CompareCommand
    BY <2>1, <2>2, <2>4 DEF AnswersInv, Answered, CompareCommand, Answer
  <2>5. CASE CodegraphDiffCommand
    BY <2>1, <2>2, <2>5 DEF AnswersInv, Answered, CodegraphDiffCommand, Answer
  <2>6. CASE ImpactCommand
    BY <2>1, <2>2, <2>6 DEF AnswersInv, Answered, ImpactCommand, Answer
  <2>7. CASE ChangedCommand
    BY <2>1, <2>2, <2>7 DEF AnswersInv, Answered, ChangedCommand, Answer
  <2>8. CASE GraphCommand
    BY <2>1, <2>2, <2>8 DEF AnswersInv, Answered, GraphCommand, Answer
  <2>9. CASE DepsCommand
    BY <2>1, <2>2, <2>9 DEF AnswersInv, Answered, DepsCommand, Answer
  <2>10. CASE TopologyCommand
    BY <2>1, <2>2, <2>10 DEF AnswersInv, Answered, TopologyCommand, Answer
  <2>11. CASE GitMetricsCommand
    BY <2>1, <2>2, <2>11 DEF AnswersInv, Answered, GitMetricsCommand, Answer
  <2>12. CASE DebtCommand
    BY <2>1, <2>2, <2>12 DEF AnswersInv, Answered, DebtCommand, Answer
  <2>13. CASE OrientationCommand \/ PilotCommand \/ AuditCommand
    <3>1. cmd \notin {"branch-diff", "compare", "codegraph-diff", "impact", "changed", "graph",
                     "deps", "topology", "git-metrics", "debt"}
      BY <2>13 DEF Answer, OrientationCommand, PilotCommand, AuditCommand
    <3> QED
      BY <2>1, <2>2, <3>1 DEF AnswersInv, Answered
  <2>14. CASE UNCHANGED vars
    BY <2>2, <2>14 DEF AnswersInv, Answered, vars
  <2> QED
    BY <2>3, <2>4, <2>5, <2>6, <2>7, <2>8, <2>9, <2>10, <2>11, <2>12, <2>13, <2>14 DEF Next, AnalysisStep
<1> QED
  BY <1>1, <1>2, PTL DEF Spec

-----------------------------------------------------------------------------
(* branch-diff.                                                            *)

\* The module under which a report counts an edge: its source's, where the
\* edge was.
LEMMA ModuleDeltaCounts ==
    ASSUME NEW b, NEW h, NEW e
    PROVE  /\ e \in EdgesRemoved(b, h) =>
                /\ b.ents[e[1]].mod \in DOMAIN ModuleDelta(b, h)
                /\ e \in ModuleDelta(b, h)[b.ents[e[1]].mod].removed
           /\ e \in EdgesAdded(b, h) =>
                /\ h.ents[e[1]].mod \in DOMAIN ModuleDelta(b, h)
                /\ e \in ModuleDelta(b, h)[h.ents[e[1]].mod].added
<1> DEFINE added == EdgesAdded(b, h)
           removed == EdgesRemoved(b, h)
           mods == {ModuleOf(k, h, b) : k \in added} \cup {ModuleOf(k, b, h) : k \in removed}
<1>1. ModuleDelta(b, h) =
        [m \in mods |-> [added   |-> {k \in added : ModuleOf(k, h, b) = m},
                         removed |-> {k \in removed : ModuleOf(k, b, h) = m}]]
  BY DEF ModuleDelta
<1>2. e \in removed => ModuleOf(e, b, h) = b.ents[e[1]].mod
  BY DEF EdgesRemoved, Resolvable, ModuleOf
<1>3. e \in added => ModuleOf(e, h, b) = h.ents[e[1]].mod
  BY DEF EdgesAdded, EdgesRemoved, Resolvable, ModuleOf
<1> HIDE DEF added, removed
<1>4. e \in removed => /\ ModuleOf(e, b, h) \in DOMAIN ModuleDelta(b, h)
                       /\ e \in ModuleDelta(b, h)[ModuleOf(e, b, h)].removed
  BY <1>1
<1>5. e \in added => /\ ModuleOf(e, h, b) \in DOMAIN ModuleDelta(b, h)
                     /\ e \in ModuleDelta(b, h)[ModuleOf(e, h, b)].added
  BY <1>1
<1> QED
  BY <1>2, <1>3, <1>4, <1>5 DEF added, removed

\* For all pairs of workspaces, a call whose callee is gone is reported as a
\* broken chain, and every changed edge is accounted for.
THEOREM NoChainIsLost == Spec => []BrokenChainsComplete
<1>1. AnswersInv => BrokenChainsComplete
  <2> SUFFICES ASSUME AnswersInv, Answered("branch-diff") PROVE BrokenChainsComplete
    BY DEF BrokenChainsComplete
  <2> DEFINE b == question[1]
             h == question[2]
  <2>1. /\ answer.broken_chains = Broken(b, h) /\ answer.new_chains = NewChains(b, h)
        /\ answer.edges_removed = EdgesRemoved(b, h) /\ answer.edges_added = EdgesAdded(b, h)
        /\ answer.entities_removed = EntitiesRemoved(b, h)
        /\ answer.entities_added = EntitiesAdded(b, h)
        /\ answer.module_delta = ModuleDelta(b, h)
    BY DEF AnswersInv, Diff
  <2> HIDE DEF b, h
  <2>2. ASSUME NEW e \in b.rels, {e[1], e[2]} \subseteq Names(b),
               e[1] \in Names(h), e[2] \notin Names(h)
        PROVE  e \in Broken(b, h)
    BY <2>2 DEF Broken, EdgesRemoved, Resolvable
  <2>3. ASSUME NEW e \in EdgesRemoved(b, h)
        PROVE  /\ e \in Broken(b, h) <=> e[1] \notin EntitiesRemoved(b, h)
               /\ \E m \in DOMAIN ModuleDelta(b, h) :
                     m = b.ents[e[1]].mod /\ e \in ModuleDelta(b, h)[m].removed
    BY <2>3, ModuleDeltaCounts DEF Broken, EdgesRemoved, Resolvable, EntitiesRemoved
  <2>4. ASSUME NEW e \in EdgesAdded(b, h)
        PROVE  /\ e \in NewChains(b, h) <=> e[1] \notin EntitiesAdded(b, h)
               /\ h.ents[e[1]].mod \in DOMAIN ModuleDelta(b, h)
               /\ e \in ModuleDelta(b, h)[h.ents[e[1]].mod].added
    BY <2>4, ModuleDeltaCounts
       DEF NewChains, EdgesAdded, EdgesRemoved, Resolvable, EntitiesAdded, EntitiesRemoved
  <2> QED
    BY <2>1, <2>2, <2>3, <2>4 DEF BrokenChainsComplete, b, h
<1> QED
  BY <1>1, Answers, PTL

\* For all pairs of workspaces, a report without differences and with an
\* available comparison is of two equal ones.
THEOREM NoSilentChange == Spec => []EmptyDiffMeansSame
<1>1. AnswersInv => EmptyDiffMeansSame
  <2> SUFFICES ASSUME AnswersInv, Answered("branch-diff") PROVE EmptyDiffMeansSame
    BY DEF EmptyDiffMeansSame
  <2> DEFINE b == question[1]
             h == question[2]
  <2>1. /\ answer.edges_removed = EdgesRemoved(b, h) /\ answer.edges_added = EdgesAdded(b, h)
        /\ answer.entities_removed = EntitiesRemoved(b, h)
        /\ answer.entities_added = EntitiesAdded(b, h)
        /\ answer.content_status = ContentStatus(b, h)
        /\ answer.content_changed = ContentChanged(b, h)
    BY DEF AnswersInv, Diff
  <2> HIDE DEF b, h
  <2>2. EntitiesAdded(b, h) = {} /\ EntitiesRemoved(b, h) = {} => Names(b) = Names(h)
    BY DEF EntitiesAdded, EntitiesRemoved
  <2>3. EdgesAdded(b, h) = {} /\ EdgesRemoved(b, h) = {} => Resolvable(b) = Resolvable(h)
    BY DEF EdgesAdded, EdgesRemoved
  <2>4. ASSUME ContentStatus(b, h) = "available", ContentChanged(b, h) = {},
               NEW n \in Shared(b, h)
        PROVE  b.ents[n].hash = h.ents[n].hash
    <3>1. Shared(b, h) \ Hashed(b, h) = {}
      BY <2>4 DEF ContentStatus
    <3>2. n \in Hashed(b, h)
      BY <3>1
    <3> QED
      BY <2>4, <3>2 DEF ContentChanged
  <2> QED
    BY <2>1, <2>2, <2>3, <2>4 DEF EmptyDiffMeansSame, Shared, b, h
<1> QED
  BY <1>1, Answers, PTL

-----------------------------------------------------------------------------
(* compare.                                                                *)

\* For all pairs of workspaces, a broken chain `compare` does not list is one
\* whose dangling row head still has.
THEOREM CompareSeesRows == Spec => []CompareMissesOnlyDangling
<1>1. AnswersInv => CompareMissesOnlyDangling
  <2> SUFFICES ASSUME AnswersInv, Answered("compare") PROVE CompareMissesOnlyDangling
    BY DEF CompareMissesOnlyDangling
  <2> DEFINE b == question[1]
             h == question[2]
  <2>1. /\ answer.relation_changes = RelationChanges(b, h)
        /\ answer.only_in_ws1 = Names(b) \ Names(h)
    BY DEF AnswersInv, Compare
  <2> HIDE DEF b, h
  <2> SUFFICES ASSUME NEW e \in Broken(b, h)
               PROVE  \/ /\ e[1] \in DOMAIN RelationChanges(b, h)
                         /\ e \in RelationChanges(b, h)[e[1]].removed
                      \/ e \in h.rels /\ e[2] \in Names(b) \ Names(h)
    BY <2>1 DEF CompareMissesOnlyDangling, b, h
  <2>2. /\ e \in b.rels /\ e[1] \in Shared(b, h) /\ e[2] \in Names(b)
        /\ e \notin Resolvable(h) /\ e[1] \in Names(h)
    BY DEF Broken, EdgesRemoved, Resolvable, Shared
  <2>3. CASE e \in h.rels
    BY <2>2, <2>3 DEF Resolvable
  <2>4. CASE e \notin h.rels
    <3>1. e \in RowsOf(b, e[1]) \ RowsOf(h, e[1])
      BY <2>2, <2>4 DEF RowsOf
    <3> QED
      BY <2>2, <3>1 DEF RelationChanges
  <2> QED
    BY <2>3, <2>4
<1> QED
  BY <1>1, Answers, PTL

-----------------------------------------------------------------------------
(* branch-diff of two codegraph workspaces.                                *)

\* The name of a node shows its file exactly when its qualified name is not
\* unique among the ingested nodes.
LEMMA NamedByUniqueness ==
    ASSUME NEW db, IsFiniteSet(DOMAIN db.nodes), NEW n \in Ingested(db)
    PROVE  Cardinality(Homonyms(db, n)) = 1 <=> Unique(db, n)
<1>1. n \in Homonyms(db, n) /\ Homonyms(db, n) \subseteq DOMAIN db.nodes
  BY DEF Homonyms, Ingested
<1>2. IsFiniteSet(Homonyms(db, n))
  BY <1>1, FS_Subset
<1>3. Unique(db, n) <=> Homonyms(db, n) = {n}
  BY DEF Unique, Homonyms
<1>4. Homonyms(db, n) = {n} => Cardinality(Homonyms(db, n)) = 1
  BY FS_Singleton
<1>5. Cardinality(Homonyms(db, n)) = 1 => \E m : Homonyms(db, n) = {m}
  BY <1>2, FS_Singleton
<1> QED
  BY <1>1, <1>3, <1>4, <1>5

\* For all pairs of finite databases, a call between two nodes both have as
\* they were is a broken chain only if one of its ends got or lost its last
\* homonym.
THEOREM BreaksOfKeptNodes == Spec => []FalseBreaksAreHomonyms
<1>1. AnswersInv => FalseBreaksAreHomonyms
  <2> SUFFICES ASSUME AnswersInv, Answered("codegraph-diff") PROVE FalseBreaksAreHomonyms
    BY DEF FalseBreaksAreHomonyms
  <2> DEFINE d1 == question[1]
             d2 == question[2]
  <2>1. /\ answer.broken_chains = Broken(SnapshotOf(d1), SnapshotOf(d2))
        /\ d1 \in Databases /\ d2 \in Databases
    <3>1. question \in Databases \X Databases
      BY DEF AnswersInv, AnalysisAsked, ReviewAsked, PilotAsked, Answered
    <3> QED
      BY <3>1 DEF AnswersInv, Diff
  <2> HIDE DEF d1, d2
  <2> SUFFICES ASSUME NEW e \in Mapped(d1) \cap Mapped(d2),
                      e[1] \in Kept(d1, d2), e[2] \in Kept(d1, d2),
                      ~ HomonymCame(d1, d2, e[1]), ~ HomonymCame(d1, d2, e[2])
               PROVE  Key(d1, e) \notin Broken(SnapshotOf(d1), SnapshotOf(d2))
    BY <2>1 DEF FalseBreaksAreHomonyms, d1, d2
  <2>2. ASSUME NEW n \in Kept(d1, d2), ~ HomonymCame(d1, d2, n)
        PROVE  NameOf(d1, n) = NameOf(d2, n)
    <3>1. n \in Ingested(d1) /\ n \in Ingested(d2) /\ d1.nodes[n] = d2.nodes[n]
      BY DEF Kept
    <3>2. Unique(d1, n) <=> Unique(d2, n)
      BY <2>2 DEF HomonymCame, Unique
    <3>3. Cardinality(Homonyms(d1, n)) = 1 <=> Cardinality(Homonyms(d2, n)) = 1
      BY <2>1, <3>1, <3>2, NamedByUniqueness, AnalysesAssumption
    <3> QED
      BY <3>1, <3>3 DEF NameOf
  <2>3. Key(d1, e) = Key(d2, e)
    BY <2>2 DEF Key, TargetName, Kept
  <2>4. Key(d2, e) \in SnapshotOf(d2).rels
    BY DEF SnapshotOf
  <2>5. Key(d2, e)[1] \in Names(SnapshotOf(d2)) /\ Key(d2, e)[2] \in Names(SnapshotOf(d2))
    BY DEF Key, TargetName, Kept, Names, SnapshotOf
  <2>6. Key(d1, e) \in Resolvable(SnapshotOf(d2))
    BY <2>3, <2>4, <2>5 DEF Resolvable
  <2> QED
    BY <2>6 DEF Broken, EdgesRemoved
<1> QED
  BY <1>1, Answers, PTL

-----------------------------------------------------------------------------
(* Least numbers and folds: induction over sets of numbers and of elements. *)

\* A set of numbers that is not empty has a least one.
LEMMA LeastNumber ==
    ASSUME NEW S, S \subseteq Nat, S # {}
    PROVE  \E m \in S : \A k \in S : m <= k
<1>1. PICK m \in S : \A k \in S : <<k, m>> \notin OpToRel(<, Nat)
  BY NatLessThanWellFounded, WFMin
<1>2. \A k \in S : ~(k < m)
  BY <1>1 DEF OpToRel
<1> QED
  BY <1>2

\* f folds its argument: take one element away after the other
IsFold(D, pick, step, base, f) ==
    \A s \in SUBSET D : f[s] = IF s = {} THEN base ELSE step[<<pick[s], f[s \ {pick[s]}]>>]

IsPick(D, pick) == \A s \in SUBSET D : s # {} => pick[s] \in s

\* A fold over a finite set is well defined, whatever is folded and in
\* whatever order.
LEMMA FoldExists ==
    ASSUME NEW D, IsFiniteSet(D), NEW V, NEW base \in V, NEW step \in [D \X V -> V],
           NEW pick, IsPick(D, pick)
    PROVE  \E f \in [SUBSET D -> V] : IsFold(D, pick, step, base, f)
<1> DEFINE Small(k) == {s \in SUBSET D : Cardinality(s) <= k}
           Def(k, f) == \A s \in Small(k) :
                           f[s] = IF s = {} THEN base ELSE step[<<pick[s], f[s \ {pick[s]}]>>]
           none == {k \in Nat : ~ \E f \in [Small(k) -> V] : Def(k, f)}
<1>1. \A s \in SUBSET D : IsFiniteSet(s) /\ Cardinality(s) \in Nat /\ Cardinality(s) <= Cardinality(D)
  BY FS_Subset, FS_CardinalityType
<1>2. ASSUME NEW s \in SUBSET D, s # {}
      PROVE  /\ pick[s] \in D /\ s \ {pick[s]} \in SUBSET D
             /\ Cardinality(s \ {pick[s]}) = Cardinality(s) - 1
  <2>1. pick[s] \in s
    BY <1>2 DEF IsPick
  <2>2. Cardinality(s \ {pick[s]}) = Cardinality(s) - 1
    BY <1>1, <2>1, FS_RemoveElement
  <2> QED
    BY <2>1, <2>2
<1>3. none = {}
  <2> SUFFICES ASSUME none # {} PROVE FALSE
    OBVIOUS
  <2>1. PICK k \in none : \A j \in none : k <= j
    <3>1. none \subseteq Nat
      OBVIOUS
    <3> HIDE DEF none
    <3> QED
      BY <3>1, LeastNumber
  <2>2. k \in Nat /\ ~ \E f \in [Small(k) -> V] : Def(k, f)
    OBVIOUS
  <2>3. CASE k = 0
    <3> DEFINE f == [s \in Small(0) |-> base]
    <3>1. \A s \in Small(0) : s = {}
      <4> TAKE s \in Small(0)
      <4>1. s \in SUBSET D /\ Cardinality(s) <= 0
        OBVIOUS
      <4>2. Cardinality(s) = 0 /\ IsFiniteSet(s)
        BY <1>1, <4>1
      <4> QED
        BY <4>2, FS_EmptySet
    <3>2. f \in [Small(0) -> V] /\ Def(0, f)
      BY <3>1
    <3> QED
      BY <2>2, <2>3, <3>2
  <2>4. CASE k # 0
    <3>1. k - 1 \in Nat /\ k - 1 \notin none
      <4>1. k - 1 \in Nat /\ ~(k <= k - 1)
        BY <2>2, <2>4
      <4> HIDE DEF none
      <4> QED
        BY <2>1, <4>1
    <3>2. PICK g \in [Small(k - 1) -> V] : Def(k - 1, g)
      BY <3>1
    <3> DEFINE f == [s \in Small(k) |-> IF s \in Small(k - 1) THEN g[s]
                                        ELSE step[<<pick[s], g[s \ {pick[s]}]>>]]
    <3>3. \A s \in Small(k) : s # {} => s \ {pick[s]} \in Small(k - 1)
      BY <1>1, <1>2, <2>2
    <3>4. {} \in Small(k - 1)
      BY <3>1, FS_EmptySet
    <3>5. \A s \in Small(k - 1) : s \in Small(k)
      BY <1>1, <2>2
    <3>6. \A s \in Small(k - 1) : f[s] = g[s]
      BY <3>5
    <3>7. ASSUME NEW s \in Small(k), s \notin Small(k - 1)
          PROVE  /\ s # {} /\ f[s] = step[<<pick[s], g[s \ {pick[s]}]>>]
                 /\ f[s] = step[<<pick[s], f[s \ {pick[s]}]>>] /\ f[s] \in V
      <4>1. s # {} /\ s \in SUBSET D
        BY <3>4, <3>7
      <4>2. f[s] = step[<<pick[s], g[s \ {pick[s]}]>>]
        BY <3>7
      <4>3. s \ {pick[s]} \in Small(k - 1)
        BY <3>3, <4>1
      <4>4. <<pick[s], g[s \ {pick[s]}]>> \in D \X V
        BY <1>2, <3>2, <4>1, <4>3
      <4> HIDE DEF f, Small
      <4> QED
        BY <3>6, <4>1, <4>2, <4>3, <4>4
    <3>8. \A s \in Small(k) : f[s] \in V
      BY <3>2, <3>6, <3>7
    <3>9. f = [s \in Small(k) |-> f[s]]
      OBVIOUS
    <3>10. Def(k, f)
      <4> TAKE s \in Small(k)
      <4>1. CASE s \in Small(k - 1)
        <5>1. g[s] = IF s = {} THEN base ELSE step[<<pick[s], g[s \ {pick[s]}]>>]
          BY <3>2, <4>1
        <5>2. s # {} => f[s \ {pick[s]}] = g[s \ {pick[s]}]
          BY <3>3, <3>6
        <5> QED
          BY <3>6, <4>1, <5>1, <5>2
      <4>2. CASE s \notin Small(k - 1)
        BY <3>7, <4>2
      <4> QED
        BY <4>1, <4>2
    <3> HIDE DEF f, Small
    <3>11. f \in [Small(k) -> V]
      BY <3>8, <3>9
    <3> QED
      BY <2>2, <3>10, <3>11
  <2> QED
    BY <2>3, <2>4
<1>4. Cardinality(D) \in Nat /\ Small(Cardinality(D)) = SUBSET D
  BY <1>1
<1>5. PICK f \in [Small(Cardinality(D)) -> V] : Def(Cardinality(D), f)
  BY <1>3, <1>4
<1> QED
  BY <1>4, <1>5 DEF IsFold

Grows(D, pick, Fine) ==
    /\ {} \in Fine
    /\ \A s \in SUBSET D : s # {} /\ s \ {pick[s]} \in Fine => s \in Fine

\* What holds of nothing, and of a set if it does without the element that is
\* taken away, holds of all finite sets.
LEMMA FoldInduction ==
    ASSUME NEW D, IsFiniteSet(D), NEW pick, IsPick(D, pick), NEW Fine, Grows(D, pick, Fine)
    PROVE  SUBSET D \subseteq Fine
<1> DEFINE sizes == {k \in Nat : \E s \in SUBSET D : s \notin Fine /\ Cardinality(s) = k}
<1>1. SUFFICES ASSUME NEW t \in SUBSET D, t \notin Fine PROVE FALSE
  OBVIOUS
<1>2. \A s \in SUBSET D : IsFiniteSet(s) /\ Cardinality(s) \in Nat
  BY FS_Subset, FS_CardinalityType
<1>3. PICK k \in sizes : \A j \in sizes : k <= j
  <2>1. t \in SUBSET D /\ t \notin Fine /\ Cardinality(t) \in Nat
    BY <1>1, <1>2
  <2>2. sizes \subseteq Nat
    OBVIOUS
  <2>3. Cardinality(t) \in sizes
    BY <2>1
  <2> HIDE DEF sizes
  <2> QED
    BY <2>2, <2>3, LeastNumber
<1>4. PICK s \in SUBSET D : s \notin Fine /\ Cardinality(s) = k
  OBVIOUS
<1>5. s # {} /\ s \ {pick[s]} \notin Fine /\ pick[s] \in s
  BY <1>4 DEF IsPick, Grows
<1>6. Cardinality(s \ {pick[s]}) = Cardinality(s) - 1
  BY <1>2, <1>5, FS_RemoveElement
<1>7. s \ {pick[s]} \in SUBSET D
  OBVIOUS
<1>8. Cardinality(s \ {pick[s]}) \in sizes
  BY <1>2, <1>5, <1>7
<1>9. ~(k <= k - 1)
  <2>1. k \in Nat
    BY <1>2, <1>4
  <2> QED
    BY <2>1
<1> HIDE DEF sizes
<1> QED
  BY <1>3, <1>4, <1>6, <1>8, <1>9

\* What holds of nobody, and with one more if it did before, holds up to n.
LEMMA UpTo ==
    ASSUME NEW n \in Nat, NEW Fine, 0 \in Fine,
           \A k \in 0..n - 1 : k \in Fine => k + 1 \in Fine
    PROVE  \A k \in 0..n : k \in Fine
<1> DEFINE wrong == {k \in 0..n : k \notin Fine}
<1>1. SUFFICES ASSUME wrong # {} PROVE FALSE
  OBVIOUS
<1>2. PICK k \in wrong : \A j \in wrong : k <= j
  <2>1. wrong \subseteq Nat
    OBVIOUS
  <2> HIDE DEF wrong
  <2> QED
    BY <1>1, <2>1, LeastNumber
<1>3. k \in 0..n /\ k # 0 /\ k \notin Fine
  OBVIOUS
<1>4. k - 1 \in 0..n - 1 /\ (k - 1) + 1 = k /\ k - 1 \in 0..n /\ ~(k <= k - 1)
  BY <1>3
<1>5. k - 1 \notin wrong
  <2> HIDE DEF wrong
  <2> QED
    BY <1>2, <1>4
<1> QED
  BY <1>3, <1>4, <1>5

\* f sums up count over the subsets of S, as a fold with + does
IsSumFold(S, count, f) ==
    f = [s \in SUBSET S |-> IF s = {} THEN 0
            ELSE count[CHOOSE x \in s : TRUE] + f[s \ {CHOOSE x \in s : TRUE}]]

\* A sum of natural numbers is one, and is 0 if there are none.
LEMMA SumFold ==
    ASSUME NEW S, IsFiniteSet(S), NEW count \in [S -> Nat]
    PROVE  /\ \E f : IsSumFold(S, count, f)
           /\ \A f : IsSumFold(S, count, f) => f[S] \in Nat /\ (S = {} => f[S] = 0)
<1> DEFINE pick == [s \in SUBSET S |-> CHOOSE x \in s : TRUE]
           step == [p \in S \X Nat |-> count[p[1]] + p[2]]
<1>1. step \in [S \X Nat -> Nat]
  OBVIOUS
<1>2. IsPick(S, pick)
  BY DEF IsPick
<1>3. PICK f \in [SUBSET S -> Nat] : IsFold(S, pick, step, 0, f)
  <2> HIDE DEF pick, step
  <2> QED
    BY <1>1, <1>2, FoldExists
<1>4. IsSumFold(S, count, f)
  <2>1. f = [s \in SUBSET S |-> f[s]]
    OBVIOUS
  <2>2. ASSUME NEW s \in SUBSET S
        PROVE  f[s] = IF s = {} THEN 0
                      ELSE count[CHOOSE x \in s : TRUE] + f[s \ {CHOOSE x \in s : TRUE}]
    <3>1. CASE s = {}
      BY <1>3, <3>1 DEF IsFold
    <3>2. CASE s # {}
      <4>1. f[s] = step[<<pick[s], f[s \ {pick[s]}]>>]
        BY <1>3, <3>2 DEF IsFold
      <4>2. <<pick[s], f[s \ {pick[s]}]>> \in S \X Nat
        BY <1>2, <3>2 DEF IsPick
      <4> QED
        BY <3>2, <4>1, <4>2
    <3> QED
      BY <3>1, <3>2
  <2> QED
    BY <2>1, <2>2 DEF IsSumFold
<1>5. ASSUME NEW g, IsSumFold(S, count, g)
      PROVE  g[S] \in Nat /\ (S = {} => g[S] = 0)
  <2> DEFINE Fine == {s \in SUBSET S : g[s] \in Nat}
  <2>1. \A s \in SUBSET S : g[s] = IF s = {} THEN 0 ELSE count[pick[s]] + g[s \ {pick[s]}]
    BY <1>5 DEF IsSumFold
  <2>2. g[{}] = 0 /\ {} \in SUBSET S
    BY <2>1
  <2>3. {} \in Fine
    BY <2>2
  <2>4. ASSUME NEW s \in SUBSET S, s # {}, s \ {pick[s]} \in Fine PROVE s \in Fine
    <3>1. pick[s] \in S /\ g[s] = count[pick[s]] + g[s \ {pick[s]}]
      BY <1>2, <2>1, <2>4 DEF IsPick
    <3> QED
      BY <2>4, <3>1
  <2> HIDE DEF Fine, pick
  <2>5. SUBSET S \subseteq Fine
    <3>1. Grows(S, pick, Fine)
      BY <2>3, <2>4 DEF Grows
    <3> QED
      BY <1>2, <3>1, FoldInduction
  <2>6. S \in Fine
    BY <2>5
  <2> QED
    BY <2>2, <2>6 DEF Fine
<1> QED
  BY <1>4, <1>5

\* A finite set of numbers has a largest one.
LEMMA LargestNumber ==
    ASSUME NEW S, IsFiniteSet(S), S \subseteq Nat, S # {}
    PROVE  Max(S) \in S /\ \A y \in S : y <= Max(S)
<1> DEFINE pick == [s \in SUBSET S |-> CHOOSE x \in s : TRUE]
           Fine == {s \in SUBSET S : s # {} => \E x \in s : \A y \in s : y <= x}
<1>1. IsPick(S, pick)
  BY DEF IsPick
<1>2. {} \in Fine
  OBVIOUS
<1>3. ASSUME NEW s \in SUBSET S, s # {}, s \ {pick[s]} \in Fine PROVE s \in Fine
  <2> DEFINE p == pick[s]
  <2>1. p \in s /\ p \in Nat
    BY <1>1, <1>3 DEF IsPick
  <2>2. s \ {p} # {} => \E x \in s \ {p} : \A y \in s \ {p} : y <= x
    BY <1>3
  <2> HIDE DEF p
  <2>3. CASE s \ {p} = {}
    <3>1. \A y \in s : y <= p
      BY <2>1, <2>3
    <3> QED
      BY <2>1, <3>1
  <2>4. CASE s \ {p} # {}
    <3>1. PICK x \in s \ {p} : \A y \in s \ {p} : y <= x
      BY <2>2, <2>4
    <3>2. x \in Nat /\ x \in s
      OBVIOUS
    <3>3. CASE p <= x
      <4>1. \A y \in s : y <= x
        BY <3>1, <3>3
      <4> QED
        BY <3>2, <4>1
    <3>4. CASE ~(p <= x)
      <4>1. \A y \in s : y \in Nat
        OBVIOUS
      <4>2. \A y \in s : y <= p
        BY <2>1, <3>1, <3>2, <3>4, <4>1
      <4> QED
        BY <2>1, <4>2
    <3> QED
      BY <3>3, <3>4
  <2> QED
    BY <2>3, <2>4
<1>4. SUBSET S \subseteq Fine
  <2> HIDE DEF Fine, pick
  <2>1. Grows(S, pick, Fine)
    BY <1>2, <1>3 DEF Grows
  <2> QED
    BY <1>1, <2>1, FoldInduction
<1>5. \E x \in S : \A y \in S : y <= x
  BY <1>4
<1>6. \E x \in S : \A y \in S : x >= y
  BY <1>5
<1>7. Max(S) \in S /\ \A y \in S : Max(S) >= y
  BY <1>6 DEF Max
<1> QED
  BY <1>7

\* A sequence is folded from its last element down.
LEMMA LargestOfSegment ==
    ASSUME NEW n \in Nat
    PROVE  /\ IsFiniteSet(1..n)
           /\ IsPick(1..n, [s \in SUBSET (1..n) |-> Max(s)])
           /\ \A k \in 1..n : /\ Max(1..k) = k /\ (1..k) \ {k} = 1..k - 1
                              /\ 1..k \in SUBSET (1..n) /\ 1..k # {}
<1>1. ASSUME NEW s \in SUBSET (1..n), s # {}
      PROVE  \E x \in s : \A y \in s : x >= y
  <2> DEFINE above == {k \in Nat : \E x \in s : k = n - x}
  <2>1. above \subseteq Nat
    OBVIOUS
  <2>2. above # {}
    <3>1. PICK x \in s : TRUE
      BY <1>1
    <3>2. n - x \in Nat
      OBVIOUS
    <3>3. n - x \in above
      BY <3>2
    <3> QED
      BY <3>3
  <2>3. PICK k \in above : \A j \in above : k <= j
    <3> HIDE DEF above
    <3> QED
      BY <2>1, <2>2, LeastNumber
  <2>4. PICK x \in s : k = n - x
    OBVIOUS
  <2>5. \A y \in s : x >= y
    <3> TAKE y \in s
    <3>1. n - y \in above
      OBVIOUS
    <3>2. n - x <= n - y
      BY <2>3, <2>4, <3>1
    <3> QED
      BY <3>2
  <2> QED
    BY <2>5
<1>2. \A s \in SUBSET (1..n) : s # {} => Max(s) \in s
  BY <1>1 DEF Max
<1>3. ASSUME NEW k \in 1..n
      PROVE  /\ Max(1..k) = k /\ (1..k) \ {k} = 1..k - 1
             /\ 1..k \in SUBSET (1..n) /\ 1..k # {}
  <2>1. k \in 1..k /\ \A y \in 1..k : k >= y
    OBVIOUS
  <2>2. \A x \in 1..k : (\A y \in 1..k : x >= y) => x = k
    BY <2>1
  <2>3. Max(1..k) = k
    BY <2>1, <2>2 DEF Max
  <2>4. (1..k) \ {k} = 1..k - 1
    OBVIOUS
  <2>5. \A x \in 1..k : x \in 1..n
    OBVIOUS
  <2> QED
    BY <2>1, <2>3, <2>4, <2>5
<1>4. IsPick(1..n, [s \in SUBSET (1..n) |-> Max(s)])
  BY <1>2 DEF IsPick
<1>5. IsFiniteSet(1..n)
  BY FS_Interval
<1> QED
  BY <1>3, <1>4, <1>5

-----------------------------------------------------------------------------
(* impact: lines and symbols.                                              *)

\* Lines are counted one by one, each once.
LEMMA Counting ==
    ASSUME NEW script, NEW i \in Nat, NEW ops
    PROVE  /\ Count(script, i, ops) \in Nat
           /\ i = 0 => Count(script, i, ops) = 0
           /\ i > 0 => Count(script, i, ops) =
                          Count(script, i - 1, ops) + (IF script[i] \in ops THEN 1 ELSE 0)
<1> DEFINE some(n) == {j \in 1..n : script[j] \in ops}
<1>1. \A n \in Nat : IsFiniteSet(some(n)) /\ Cardinality(some(n)) \in Nat
  <2> TAKE n \in Nat
  <2>1. IsFiniteSet(1..n) /\ some(n) \in SUBSET (1..n)
    BY FS_Interval
  <2> QED
    BY <2>1, FS_Subset, FS_CardinalityType
<1>2. Count(script, i, ops) = Cardinality(some(i))
  BY DEF Count
<1>3. i = 0 => some(i) = {}
  OBVIOUS
<1>4. ASSUME i > 0
      PROVE  Cardinality(some(i)) = Cardinality(some(i - 1)) + (IF script[i] \in ops THEN 1 ELSE 0)
  <2>1. i - 1 \in Nat /\ 1..i = (1..i - 1) \cup {i} /\ i \notin 1..i - 1
    BY <1>4
  <2>2. some(i) = some(i - 1) \cup (IF script[i] \in ops THEN {i} ELSE {})
    BY <2>1
  <2>3. i \notin some(i - 1)
    BY <2>1
  <2>4. IsFiniteSet(some(i - 1)) /\ Cardinality(some(i - 1)) \in Nat
    BY <1>1, <2>1
  <2> HIDE DEF some
  <2>5. Cardinality(some(i - 1) \cup {i}) = Cardinality(some(i - 1)) + 1
    BY <2>3, <2>4, FS_AddElement
  <2>6. CASE script[i] \in ops
    BY <2>2, <2>5, <2>6
  <2>7. CASE script[i] \notin ops
    <3>1. some(i) = some(i - 1)
      BY <2>2, <2>7
    <3> QED
      BY <2>4, <2>7, <3>1
  <2> QED
    BY <2>6, <2>7
<1>5. Count(script, i - 1, ops) = Cardinality(some(i - 1))
  BY DEF Count
<1> HIDE DEF some
<1> QED
  BY <1>1, <1>2, <1>3, <1>4, <1>5, FS_EmptySet

\* More lines, no fewer counted; as many if none of the new ones is.
LEMMA CountGrows ==
    ASSUME NEW script, NEW i \in Nat, NEW k \in Nat, i <= k, NEW ops
    PROVE  /\ Count(script, i, ops) <= Count(script, k, ops)
           /\ (\A j \in i + 1..k : script[j] \notin ops) =>
                 Count(script, i, ops) = Count(script, k, ops)
<1> DEFINE some(n) == {j \in 1..n : script[j] \in ops}
<1>1. some(i) \in SUBSET some(k)
  OBVIOUS
<1>2. IsFiniteSet(some(k))
  <2>1. IsFiniteSet(1..k) /\ some(k) \in SUBSET (1..k)
    BY FS_Interval
  <2> QED
    BY <2>1, FS_Subset
<1>3. Cardinality(some(i)) <= Cardinality(some(k))
  <2> HIDE DEF some
  <2> QED
    BY <1>1, <1>2, FS_Subset
<1>4. (\A j \in i + 1..k : script[j] \notin ops) => some(i) = some(k)
  OBVIOUS
<1> QED
  BY <1>3, <1>4 DEF Count

\* Kept and added lines together are those of the new file.
LEMMA CountTwo ==
    ASSUME NEW script, NEW i \in Nat, NEW a, NEW b, a # b
    PROVE  Count(script, i, {a, b}) = Count(script, i, {a}) + Count(script, i, {b})
<1> DEFINE some(ops) == {j \in 1..i : script[j] \in ops}
<1>1. \A ops : IsFiniteSet(some(ops)) /\ Cardinality(some(ops)) \in Nat
  <2> TAKE ops
  <2>1. IsFiniteSet(1..i) /\ some(ops) \in SUBSET (1..i)
    BY FS_Interval
  <2> QED
    BY <2>1, FS_Subset, FS_CardinalityType
<1>2. some({a, b}) = some({a}) \cup some({b}) /\ some({a}) \cap some({b}) = {}
  OBVIOUS
<1>3. \A ops : Count(script, i, ops) = Cardinality(some(ops))
  BY DEF Count
<1> HIDE DEF some
<1>4. Cardinality(some({a}) \cup some({b})) =
         Cardinality(some({a})) + Cardinality(some({b})) - Cardinality(some({a}) \cap some({b}))
  BY <1>1, FS_Union
<1>5. Cardinality({}) = 0
  BY FS_EmptySet
<1>6. Cardinality(some({a}) \cap some({b})) = 0
  BY <1>2, <1>5, Zenon
<1>7. Cardinality(some({a, b})) = Cardinality(some({a}) \cup some({b}))
  BY <1>2, Zenon
<1>8. Cardinality(some({a})) \in Nat /\ Cardinality(some({b})) \in Nat
  BY <1>1
<1>9. Cardinality(some({a, b})) = Cardinality(some({a})) + Cardinality(some({b}))
  BY <1>4, <1>6, <1>7, <1>8
<1> QED
  BY <1>3, <1>9

\* The numbers of lines in the two files: an added or kept line has one of its
\* own in the new file; a deleted line's old number is that of the next line
\* of the new file, if no more lines were added than deleted in front of it.
LEMMA LineNumbers ==
    ASSUME NEW script \in Seq({"=", "-", "+"})
    PROVE  /\ \A i, j \in DOMAIN script :
                 script[i] # "-" /\ script[j] # "-" /\ NewLine(script, i) = NewLine(script, j) => i = j
           /\ \A i, k \in DOMAIN script :
                 /\ script[i] = "-" /\ Shift(script, i) = 0
                 /\ i < k /\ script[k] # "-" /\ \A j \in i + 1..k - 1 : script[j] = "-"
                 => OldLine(script, i) = NewLine(script, k)
<1>1. DOMAIN script = 1..Len(script) /\ Len(script) \in Nat
  OBVIOUS
<1>2. \A i \in DOMAIN script : script[i] \in {"=", "-", "+"}
  OBVIOUS
<1>3. ASSUME NEW i \in DOMAIN script, NEW j \in DOMAIN script, i < j, script[j] # "-"
      PROVE  NewLine(script, i) < NewLine(script, j)
  <2>1. i \in Nat /\ j \in Nat /\ j - 1 \in Nat /\ i <= j - 1 /\ j > 0
    BY <1>1, <1>3
  <2>2. script[j] \in {"=", "+"}
    BY <1>2, <1>3
  <2>3. Count(script, i, {"=", "+"}) <= Count(script, j - 1, {"=", "+"})
    BY <2>1, CountGrows
  <2>4. Count(script, j, {"=", "+"}) = Count(script, j - 1, {"=", "+"}) + 1
    BY <2>1, <2>2, Counting
  <2>5. /\ Count(script, i, {"=", "+"}) \in Nat
        /\ Count(script, j - 1, {"=", "+"}) \in Nat
    BY <2>1, Counting
  <2> QED
    BY <2>3, <2>4, <2>5 DEF NewLine
<1>4. \A i \in DOMAIN script : NewLine(script, i) \in Nat
  <2> TAKE i \in DOMAIN script
  <2>1. i \in Nat
    BY <1>1
  <2> QED
    BY <2>1, Counting DEF NewLine
<1>5. ASSUME NEW i \in DOMAIN script, NEW j \in DOMAIN script, script[i] # "-", script[j] # "-",
             NewLine(script, i) = NewLine(script, j)
      PROVE  i = j
  <2>1. NewLine(script, i) \in Nat
    BY <1>4
  <2>2. ~(i < j)
    BY <1>3, <1>5, <2>1
  <2>3. ~(j < i)
    BY <1>3, <1>5, <2>1
  <2> QED
    BY <1>1, <2>2, <2>3
<1>6. ASSUME NEW i \in DOMAIN script, NEW k \in DOMAIN script,
             script[i] = "-", Shift(script, i) = 0,
             i < k, script[k] # "-", \A j \in i + 1..k - 1 : script[j] = "-"
      PROVE  OldLine(script, i) = NewLine(script, k)
  <2>1. PICK m \in Nat, n \in Nat : m = i - 1 /\ n = k - 1
    BY <1>1
  <2>2. i \in Nat /\ k \in Nat /\ i > 0 /\ k > 0 /\ i = m + 1 /\ k = n + 1 /\ m <= n
    BY <1>1, <1>6, <2>1
  <2> DEFINE kept == Count(script, m, {"="})
             added == Count(script, m, {"+"})
             lost == Count(script, m, {"-"})
  <2>3. kept \in Nat /\ added \in Nat /\ lost \in Nat
    BY Counting
  <2>4. /\ Count(script, m, {"=", "-"}) = kept + lost
        /\ Count(script, m, {"=", "+"}) = kept + added
    <3>1. \A a, b : a # b => Count(script, m, {a, b}) = Count(script, m, {a}) + Count(script, m, {b})
      BY CountTwo
    <3>2. Count(script, m, {"=", "-"}) = Count(script, m, {"="}) + Count(script, m, {"-"})
      BY <3>1
    <3>3. Count(script, m, {"=", "+"}) = Count(script, m, {"="}) + Count(script, m, {"+"})
      BY <3>1
    <3> QED
      BY <3>2, <3>3
  <2> HIDE DEF kept, added, lost
  <2>5. added = lost
    BY <1>6, <2>1, <2>3 DEF Shift, added, lost
  <2>6. OldLine(script, i) = kept + lost + 1
    <3>1. Count(script, i, {"=", "-"}) = Count(script, m, {"=", "-"}) + 1
      BY <1>6, <2>1, <2>2, Counting
    <3> QED
      BY <2>3, <2>4, <3>1 DEF OldLine
  <2>7. NewLine(script, k) = Count(script, n, {"=", "+"}) + 1
    <3>1. script[k] \in {"=", "+"}
      BY <1>2, <1>6
    <3> QED
      BY <2>1, <2>2, <3>1, Counting DEF NewLine
  <2>8. Count(script, m, {"=", "+"}) = Count(script, n, {"=", "+"})
    <3>1. \A j \in m + 1..n : script[j] \notin {"=", "+"}
      BY <1>6, <2>1, <2>2
    <3> QED
      BY <2>2, <3>1, CountGrows
  <2> QED
    BY <2>3, <2>4, <2>5, <2>6, <2>7, <2>8
<1> QED
  BY <1>5, <1>6

\* what AttributionIsExact says of an edit
Attributed(q) ==
    LET found == ChangedSymbols(q)
        gained == {q.owner[i] : i \in LinesWith(q.script, "+")}
        lost == LinesWith(q.script, "-")
    IN  /\ q.parse # "parsed" => found = {}
        /\ q.parse = "parsed" /\ InPlace(q) /\ q.type # "deleted" =>
              /\ gained \subseteq found
              /\ lost = {} /\ (q.type = "modified" \/ Len(q.tree) = Len(q.script))
                 => found = gained
              /\ \A i \in lost :
                    /\ Shift(q.script, i) = 0
                    /\ \E j \in LinesWith(q.script, "=") : j > i /\ q.owner[j] = q.owner[i]
                    => q.owner[i] \in found

\* In a script of added lines each line has its own number.
LEMMA AddedLinesOnly ==
    ASSUME NEW script \in Seq({"=", "-", "+"}), LinesWith(script, "+") = DOMAIN script
    PROVE  \A i \in DOMAIN script : NewLine(script, i) = i
<1> TAKE i \in DOMAIN script
<1>1. i \in Nat /\ 1..i \subseteq DOMAIN script
  OBVIOUS
<1>2. {j \in 1..i : script[j] \in {"=", "+"}} = 1..i
  BY <1>1 DEF LinesWith
<1>3. Cardinality(1..i) = i
  BY <1>1, FS_Interval
<1> QED
  BY <1>2, <1>3 DEF NewLine, Count

\* Which symbols of a parsed file a modification changes.
LEMMA ModifiedLines ==
    ASSUME NEW q, q.script \in Seq({"=", "-", "+"}), q.tree \in Seq(Symbols), q.parse = "parsed"
    PROVE  \A s : s \in Modified(q) <=>
             \E n \in DOMAIN q.tree :
                /\ q.tree[n] = s
                /\ \/ \E j \in DOMAIN q.script : q.script[j] = "+" /\ n = NewLine(q.script, j)
                   \/ \E j \in DOMAIN q.script : q.script[j] = "-" /\ n = OldLine(q.script, j)
<1> DEFINE hit(n) ==
        \/ \E j \in DOMAIN q.script : q.script[j] = "+" /\ n = NewLine(q.script, j)
        \/ \E j \in DOMAIN q.script : q.script[j] = "-" /\ n = OldLine(q.script, j)
<1>1. \A n : hit(n) <=> n \in AddedLines(q.script) \cup DeletedLines(q.script)
  BY DEF AddedLines, DeletedLines, LinesWith
<1> HIDE DEF hit
<1>2. \A s, n : n \in Span(q, s) <=> n \in DOMAIN q.tree /\ q.tree[n] = s
  BY DEF Span
<1>3. \A s : s \in ParsedSymbols(q) <=> \E n \in DOMAIN q.tree : q.tree[n] = s
  BY DEF ParsedSymbols, ToSet
<1>4. \A s : s \in Modified(q) <=> \E n \in DOMAIN q.tree : q.tree[n] = s /\ hit(n)
  BY <1>1, <1>2, <1>3 DEF Modified
<1> QED
  BY <1>4 DEF hit

\* Which symbols a file's edit changes.
LEMMA AttributedExactly ==
    ASSUME NEW q, IsEdit(q)
    PROVE  Attributed(q)
<1> DEFINE script == q.script
           owner == q.owner
           found == ChangedSymbols(q)
           gained == {owner[i] : i \in LinesWith(script, "+")}
<1>1. /\ script \in Seq({"=", "-", "+"}) /\ owner \in [DOMAIN script -> Symbols]
      /\ q.tree \in Seq(Symbols) /\ q.type \in {"added", "deleted", "modified"}
      /\ q.type = "added" => LinesWith(script, "+") = DOMAIN script
      /\ \A i, j, k \in DOMAIN script :
            i < j /\ j < k /\ owner[i] = owner[k] => owner[j] = owner[i]
  BY DEF IsEdit, InBlocks
<1> HIDE DEF script, owner
<1>2. ASSUME q.parse # "parsed" PROVE found = {}
  BY <1>1, <1>2 DEF ChangedSymbols, Modified, ParsedSymbols
<1>3. ASSUME q.parse = "parsed", InPlace(q), q.type = "added"
      PROVE  /\ gained \subseteq found /\ LinesWith(script, "-") = {}
             /\ Len(q.tree) = Len(script) => found = gained
  <2>1. \A i \in DOMAIN script : script[i] = "+" /\ NewLine(script, i) = i
    BY <1>1, <1>3, AddedLinesOnly DEF LinesWith
  <2>2. \A i \in DOMAIN script : i \in DOMAIN q.tree /\ q.tree[i] = owner[i]
    BY <1>3, <2>1 DEF InPlace, script, owner
  <2>3. found = {q.tree[n] : n \in DOMAIN q.tree}
    BY <1>3 DEF ChangedSymbols, ParsedSymbols, ToSet
  <2>4. gained = {owner[i] : i \in DOMAIN script}
    BY <1>1, <1>3
  <2>5. Len(q.tree) = Len(script) => DOMAIN q.tree = DOMAIN script
    BY <1>1
  <2> QED
    BY <2>1, <2>2, <2>3, <2>4, <2>5 DEF LinesWith
<1>4. ASSUME q.parse = "parsed", InPlace(q), q.type = "modified"
      PROVE  /\ gained \subseteq found
             /\ LinesWith(script, "-") = {} => found = gained
             /\ \A i \in LinesWith(script, "-") :
                   /\ Shift(script, i) = 0
                   /\ \E j \in LinesWith(script, "=") : j > i /\ owner[j] = owner[i]
                   => owner[i] \in found
  <2>1. \A s : s \in found <=>
          \E n \in DOMAIN q.tree :
             /\ q.tree[n] = s
             /\ \/ \E j \in DOMAIN script : script[j] = "+" /\ n = NewLine(script, j)
                \/ \E j \in DOMAIN script : script[j] = "-" /\ n = OldLine(script, j)
    <3>1. found = Modified(q)
      BY <1>4 DEF ChangedSymbols
    <3> QED
      BY <1>1, <1>4, <3>1, ModifiedLines DEF script
  <2>2. \A i \in DOMAIN script : script[i] # "-" =>
           NewLine(script, i) \in DOMAIN q.tree /\ q.tree[NewLine(script, i)] = owner[i]
    BY <1>4 DEF InPlace, script, owner
  <2> HIDE DEF found
  <2>3. gained \subseteq found
    BY <2>1, <2>2 DEF LinesWith
  <2>4. ASSUME LinesWith(script, "-") = {} PROVE found \subseteq gained
    BY <2>1, <2>2, <2>4 DEF LinesWith
  <2>5. ASSUME NEW i \in LinesWith(script, "-"), Shift(script, i) = 0,
               NEW j \in LinesWith(script, "="), j > i, owner[j] = owner[i]
        PROVE  owner[i] \in found
    <3> DEFINE later == {k \in DOMAIN script : k > i /\ script[k] # "-"}
    <3>1. later \subseteq Nat /\ j \in later
      BY <1>1, <2>5 DEF LinesWith
    <3>2. PICK k \in later : \A m \in later : k <= m
      <4> HIDE DEF later
      <4> QED
        BY <3>1, LeastNumber
    <3>3. i \in DOMAIN script /\ script[i] = "-" /\ j \in DOMAIN script /\ k <= j
      BY <2>5, <3>1, <3>2 DEF LinesWith
    <3>4. \A m \in i + 1..k - 1 : script[m] = "-"
      BY <1>1, <3>2, <3>3
    <3>5. OldLine(script, i) = NewLine(script, k)
      BY <1>1, <2>5, <3>2, <3>3, <3>4, LineNumbers
    <3>6. owner[k] = owner[i]
      BY <1>1, <2>5, <3>2, <3>3
    <3> QED
      BY <2>1, <2>2, <3>2, <3>3, <3>5, <3>6
  <2> QED
    BY <2>3, <2>4, <2>5
<1> HIDE DEF found, gained
<1>5. q.parse = "parsed" /\ InPlace(q) /\ q.type # "deleted" =>
         /\ gained \subseteq found
         /\ LinesWith(script, "-") = {} /\ (q.type = "modified" \/ Len(q.tree) = Len(script))
            => found = gained
         /\ \A i \in LinesWith(script, "-") :
               /\ Shift(script, i) = 0
               /\ \E j \in LinesWith(script, "=") : j > i /\ owner[j] = owner[i]
               => owner[i] \in found
  BY <1>1, <1>3, <1>4
<1> QED
  BY <1>2, <1>5 DEF Attributed, found, gained, script, owner

\* For all edits of a file and all checkouts with the new side's lines in
\* place, a symbol that got a line is reported, without deletions no other one,
\* and one that lost a line if its number is right; of a file that cannot be
\* parsed nothing is.
THEOREM ChangesAreAttributed == Spec => []AttributionIsExact
<1>1. AnswersInv => AttributionIsExact
  <2> SUFFICES ASSUME AnswersInv, Answered("changed") PROVE AttributionIsExact
    BY DEF AttributionIsExact
  <2>1. IsEdit(question)
    BY AnalysesAssumption DEF AnswersInv, AnalysisAsked, ReviewAsked, PilotAsked, Answered
  <2>2. Attributed(question)
    BY <2>1, AttributedExactly
  <2>3. answer = ChangedSymbols(question)
    BY DEF AnswersInv
  <2> QED
    BY <2>2, <2>3 DEF Attributed, AttributionIsExact
<1> QED
  BY <1>1, Answers, PTL

-----------------------------------------------------------------------------
(* impact: the callers, symbol by symbol, and the risk.                    *)

NoCallers == [direct |-> {}, indirect |-> {}]

\* acc is what has been found after each symbol
Accumulates(q, acc) ==
    /\ acc[0] = NoCallers
    /\ \A k \in 1..Len(q.changed) : acc[k] = AddCallers(q, acc[k - 1], k)

\* The fold over the changed symbols goes through them one by one.
LEMMA CallersOneByOne ==
    ASSUME NEW q, NEW T, q.changed \in Seq(T)
    PROVE  \E acc : Accumulates(q, acc) /\ FindCallers(q) = acc[Len(q.changed)]
<1> DEFINE n == Len(q.changed)
           D == 1..n
           order == [k \in DOMAIN q.changed |-> k]
           callers == {Id(q, c[1]) : c \in q.calls \cup q.unresolved}
           V == [direct : SUBSET callers, indirect : SUBSET callers]
           pick == [s \in SUBSET D |-> Max(s)]
           step == [p \in D \X V |-> AddCallers(q, p[2], order[p[1]])]
           Folds(g) == g = [s \in SUBSET DOMAIN order |->
                              IF s = {} THEN NoCallers
                              ELSE LET x == Max(s) IN AddCallers(q, g[s \ {x}], order[x])]
<1>1. n \in Nat /\ DOMAIN q.changed = D /\ DOMAIN order = D /\ \A k \in D : order[k] = k
  OBVIOUS
<1>2. IsFiniteSet(D) /\ IsPick(D, pick)
  BY <1>1, LargestOfSegment
<1>3. step \in [D \X V -> V] /\ NoCallers \in V
  <2>1. \A lookup : CallersOf(q, lookup) \subseteq callers
    BY DEF CallersOf, SourcesOf
  <2>2. ASSUME NEW acc \in V, NEW s PROVE AddCallers(q, acc, s) \in V
    BY <2>1 DEF AddCallers, Followed
  <2> QED
    BY <2>2 DEF NoCallers
<1>4. PICK f \in [SUBSET D -> V] : IsFold(D, pick, step, NoCallers, f)
  <2> HIDE DEF D, V, pick, step
  <2> QED
    BY <1>2, <1>3, FoldExists
<1>5. Folds(f)
  <2>1. f = [s \in SUBSET D |-> f[s]]
    OBVIOUS
  <2>2. ASSUME NEW s \in SUBSET D, s # {}
        PROVE  f[s] = AddCallers(q, f[s \ {Max(s)}], order[Max(s)])
    <3>1. f[s] = step[<<pick[s], f[s \ {pick[s]}]>>]
      BY <1>4, <2>2 DEF IsFold
    <3>2. pick[s] = Max(s) /\ pick[s] \in D
      BY <1>2, <2>2 DEF IsPick
    <3>3. f[s \ {Max(s)}] \in V
      OBVIOUS
    <3> HIDE DEF pick, V, D
    <3> QED
      BY <3>1, <3>2, <3>3
  <2>3. f[{}] = NoCallers
    BY <1>4 DEF IsFold
  <2> QED
    BY <1>1, <2>1, <2>2, <2>3
<1> DEFINE iter == CHOOSE g : Folds(g)
<1>6. Folds(iter)
  BY <1>5
<1>7. FindCallers(q) = iter[D]
  BY <1>1 DEF FindCallers, FoldLeft, MapThenFoldSet, NoCallers
<1>8. /\ iter[{}] = NoCallers
      /\ \A t \in SUBSET D : t # {} =>
            iter[t] = AddCallers(q, iter[t \ {Max(t)}], order[Max(t)])
  BY <1>1, <1>6
<1> HIDE DEF iter, order
<1> DEFINE acc == [k \in 0..n |-> iter[1..k]]
<1>9. acc[0] = NoCallers
  BY <1>1, <1>8
<1>10. ASSUME NEW k \in 1..n PROVE acc[k] = AddCallers(q, acc[k - 1], k)
  <2>1. Max(1..k) = k /\ (1..k) \ {k} = 1..k - 1
    BY <1>1, LargestOfSegment
  <2>2. 1..k \in SUBSET D /\ 1..k # {}
    BY <1>1, LargestOfSegment
  <2>3. iter[1..k] = AddCallers(q, iter[1..k - 1], k)
    <3>1. iter[1..k] = AddCallers(q, iter[(1..k) \ {Max(1..k)}], order[Max(1..k)])
      BY <1>8, <2>2
    <3>2. order[k] = k
      BY <1>1
    <3> QED
      BY <2>1, <3>1, <3>2
  <2>4. k \in 0..n /\ k - 1 \in 0..n
    BY <1>1
  <2> QED
    BY <2>3, <2>4
<1>11. FindCallers(q) = acc[n]
  BY <1>1, <1>7
<1> HIDE DEF acc
<1> QED
  BY <1>9, <1>10, <1>11 DEF Accumulates

\* Names and symbols: nodes have different entities, and only such a node is
\* found under the name of a changed symbol as it may be taken for.
LEMMA NamesOfSymbols ==
    ASSUME NEW q, IsImpact(q)
    PROVE  /\ \A s, t \in q.nodes : Id(q, s) = Id(q, t) => s = t
           /\ \A s \in Changed(q), t \in q.nodes : Id(q, t) = QueryName(q, s) =>
                 t \in Meant(q) /\ ~OtherLanguage(q)
           /\ \A s : Nameable(q, s) => QueryName(q, s) = Id(q, s)
<1>1. \A a, b, c, d : <<a, b>> = <<c, d>> => a = c /\ b = d
  OBVIOUS
<1>2. "module" # "name" /\ "module" # "file" /\ "name" # "file"
  OBVIOUS
<1>3. q.backend \in {"codeindex", "codegraph"}
  BY DEF IsImpact
<1>4. CASE q.backend = "codeindex"
  <2>1. \A s : Id(q, s) = <<"module", s>>
    BY <1>4 DEF Id
  <2>2. \A s, t : Id(q, t) = QueryName(q, s) => t = s /\ s \in q.python
    BY <1>1, <1>2, <2>1 DEF QueryName
  <2>3. \A s \in Changed(q) : s \in q.python => ~OtherLanguage(q)
    BY <1>4 DEF OtherLanguage
  <2>4. \A s : Nameable(q, s) => QueryName(q, s) = Id(q, s)
    BY <1>4, <2>1 DEF Nameable, QueryName
  <2> QED
    BY <1>1, <2>1, <2>2, <2>3, <2>4 DEF Meant
<1>5. CASE q.backend = "codegraph"
  <2>1. \A s : /\ Alone(q, s) => Id(q, s) = <<"name", q.qname[s]>>
               /\ ~Alone(q, s) => Id(q, s) = <<"file", s>>
    BY <1>5 DEF Id
  <2>2. ASSUME NEW s \in q.nodes, NEW t \in q.nodes, Id(q, s) = Id(q, t) PROVE s = t
    <3>1. CASE Alone(q, s) /\ Alone(q, t)
      <4>1. q.qname[s] = q.qname[t]
        BY <1>1, <2>1, <2>2, <3>1
      <4> QED
        BY <3>1, <4>1 DEF Alone
    <3>2. CASE ~Alone(q, s) /\ ~Alone(q, t)
      BY <1>1, <2>1, <2>2, <3>2
    <3>3. ~(Alone(q, s) /\ ~Alone(q, t)) /\ ~(~Alone(q, s) /\ Alone(q, t))
      BY <1>1, <1>2, <2>1, <2>2
    <3> QED
      BY <3>1, <3>2, <3>3
  <2>3. ASSUME NEW s \in Changed(q), NEW t \in q.nodes, Id(q, t) = QueryName(q, s)
        PROVE  t \in Meant(q) /\ ~OtherLanguage(q)
    <3>1. s \notin q.python
      <4> SUFFICES ASSUME s \in q.python PROVE FALSE
        OBVIOUS
      <4>1. Id(q, t) = <<"module", s>>
        BY <2>3 DEF QueryName
      <4> QED
        BY <1>1, <1>2, <2>1, <4>1
    <3>2. Id(q, t) = <<"name", q.parsed[s]>>
      BY <2>3, <3>1 DEF QueryName
    <3>3. Alone(q, t) /\ q.parsed[s] = q.qname[t]
      BY <1>1, <1>2, <2>1, <3>2
    <3>4. t \in Meant(q)
      BY <1>5, <3>1, <3>3 DEF Meant
    <3>5. ~OtherLanguage(q)
      BY <1>2, <1>5, <3>1 DEF OtherLanguage
    <3> QED
      BY <3>4, <3>5
  <2>4. \A s : Nameable(q, s) => QueryName(q, s) = Id(q, s)
    <3>1. \A s : Nameable(q, s) => s \notin q.python /\ Alone(q, s) /\ q.parsed[s] = q.qname[s]
      BY <1>5 DEF Nameable
    <3> QED
      BY <2>1, <3>1 DEF QueryName
  <2> QED
    BY <2>2, <2>3, <2>4
<1> QED
  BY <1>3, <1>4, <1>5

\* The sources of a node's rows are possible callers of it, and those of the
\* rows a changed symbol is looked up by are of what it may be taken for.
LEMMA SourcesArePossible ==
    ASSUME NEW q, IsImpact(q)
    PROVE  /\ \A s \in Changed(q) :
                 SourcesOf(q, QueryName(q, s)) \subseteq Entities(q, Calling(Possible(q), Meant(q)))
           /\ \A nodes \in SUBSET q.nodes : \A s \in nodes :
                 SourcesOf(q, Id(q, s)) \subseteq Entities(q, Calling(Possible(q), nodes))
           /\ \A s : {Id(q, c[1]) : c \in {d \in q.calls : d[2] = s}} \subseteq SourcesOf(q, Id(q, s))
           /\ Calling(Possible(q), Meant(q)) \subseteq q.nodes
           /\ \A s \in Changed(q) : OtherLanguage(q) /\ q.unresolved = {} =>
                 SourcesOf(q, QueryName(q, s)) = {}
<1>1. /\ \A c \in q.calls : c[1] \in q.nodes /\ c[2] \in q.nodes
      /\ \A c \in q.unresolved : c[1] \in q.nodes
      /\ q.nodes \subseteq Symbols /\ Changed(q) \subseteq Symbols
  BY DEF IsImpact, Changed, ToSet
<1>2. /\ \A c \in q.calls : \E p \in Possible(q) : p[1] = c[1] /\ p[2] = c[2]
      /\ \A c \in q.unresolved, s \in Symbols :
            c[2] \in {Id(q, s), QueryName(q, s)} => \E p \in Possible(q) : p[1] = c[1] /\ p[2] = s
  <2>1. \A c \in q.unresolved, s \in Symbols :
           c[2] \in {Id(q, s), QueryName(q, s)} => <<c[1], s>> \in Possible(q)
    BY DEF Possible
  <2>2. q.calls \subseteq Possible(q)
    BY DEF Possible
  <2> QED
    BY <2>1, <2>2
<1>3. \A name, x : x \in SourcesOf(q, name) <=>
         \/ \E c \in q.calls : x = Id(q, c[1]) /\ Id(q, c[2]) = name
         \/ \E c \in q.unresolved : x = Id(q, c[1]) /\ c[2] = name
  BY DEF SourcesOf
<1>4. \A nodes, p : p \in Possible(q) /\ p[2] \in nodes =>
         Id(q, p[1]) \in Entities(q, Calling(Possible(q), nodes))
  BY DEF Entities, Calling
<1>5. ASSUME NEW s \in Changed(q), NEW x \in SourcesOf(q, QueryName(q, s))
      PROVE  x \in Entities(q, Calling(Possible(q), Meant(q)))
  <2>1. CASE \E c \in q.calls : x = Id(q, c[1]) /\ Id(q, c[2]) = QueryName(q, s)
    <3>1. PICK c \in q.calls : x = Id(q, c[1]) /\ Id(q, c[2]) = QueryName(q, s)
      BY <2>1
    <3>2. c[2] \in Meant(q)
      BY <1>1, <3>1, NamesOfSymbols
    <3> QED
      BY <1>2, <1>4, <3>1, <3>2
  <2>2. CASE \E c \in q.unresolved : x = Id(q, c[1]) /\ c[2] = QueryName(q, s)
    <3>1. s \in Meant(q) /\ s \in Symbols
      BY <1>1 DEF Meant
    <3> QED
      BY <1>2, <1>4, <2>2, <3>1
  <2> QED
    BY <1>3, <1>5, <2>1, <2>2
<1>6. ASSUME NEW nodes \in SUBSET q.nodes, NEW s \in nodes, NEW x \in SourcesOf(q, Id(q, s))
      PROVE  x \in Entities(q, Calling(Possible(q), nodes))
  <2>1. CASE \E c \in q.calls : x = Id(q, c[1]) /\ Id(q, c[2]) = Id(q, s)
    <3>1. PICK c \in q.calls : x = Id(q, c[1]) /\ Id(q, c[2]) = Id(q, s)
      BY <2>1
    <3>2. c[2] = s
      BY <1>1, <3>1, NamesOfSymbols
    <3> QED
      BY <1>2, <1>4, <3>1, <3>2
  <2>2. CASE \E c \in q.unresolved : x = Id(q, c[1]) /\ c[2] = Id(q, s)
    <3>1. s \in Symbols
      BY <1>1
    <3> QED
      BY <1>2, <1>4, <2>2, <3>1
  <2> QED
    BY <1>3, <1>6, <2>1, <2>2
<1>7. \A s : {Id(q, c[1]) : c \in {d \in q.calls : d[2] = s}} \subseteq SourcesOf(q, Id(q, s))
  BY <1>3
<1>8. Calling(Possible(q), Meant(q)) \subseteq q.nodes
  <2>1. \A p \in Possible(q) : p[1] \in q.nodes
    BY <1>1 DEF Possible
  <2> QED
    BY <2>1 DEF Calling
<1>9. ASSUME NEW s \in Changed(q), OtherLanguage(q), q.unresolved = {}
      PROVE  SourcesOf(q, QueryName(q, s)) = {}
  <2>1. \A c \in q.calls : Id(q, c[2]) # QueryName(q, s)
    BY <1>1, <1>9, NamesOfSymbols
  <2> QED
    BY <1>3, <1>9, <2>1
<1> QED
  BY <1>5, <1>6, <1>7, <1>8, <1>9

\* What is known of the callers found after the first k symbols.
FoundAfter(q, acc, k) ==
    /\ acc[k].direct \subseteq Entities(q, Calling(Possible(q), Meant(q)))
    /\ acc[k].indirect \subseteq Entities(q, CallingTwice(Possible(q), Meant(q)))
    /\ \A j \in 1..k : LookedUp(q, j) =>
          Entities(q, Calling(q.calls, {q.changed[j]})) \subseteq acc[k].direct \cup acc[k].indirect
    /\ OtherLanguage(q) /\ q.unresolved = {} => acc[k].direct = {} /\ acc[k].indirect = {}
    /\ k > 0 /\ q.depth > 1 /\ q.failing = {} =>
          \A d \in acc[k].direct : SourcesOf(q, d) \subseteq acc[k].direct \cup acc[k].indirect

\* One symbol more.
LEMMA OneSymbolMore ==
    ASSUME NEW q, IsImpact(q), NEW acc, Accumulates(q, acc),
           NEW k \in 0..Len(q.changed) - 1, FoundAfter(q, acc, k)
    PROVE  FoundAfter(q, acc, k + 1)
<1> DEFINE s == q.changed[k + 1]
           had == acc[k]
           new == CallersOf(q, OfSymbol(q, k + 1))
           direct == had.direct \cup (new \ had.indirect)
           answers(d) == CallersOf(q, OfCaller(k + 1, d))
           next == UNION {answers(d) : d \in direct}
           indirect == had.indirect \cup (IF q.depth > 1 THEN next \ direct ELSE {})
           once == Calling(Possible(q), Meant(q))
<1>1. k \in Nat /\ k + 1 \in 1..Len(q.changed) /\ (k + 1) - 1 = k /\ k + 1 > 0
  BY DEF IsImpact
<1>2. acc[k + 1] = AddCallers(q, acc[(k + 1) - 1], k + 1)
  BY <1>1 DEF Accumulates
<1>3. acc[k + 1].direct = direct /\ acc[k + 1].indirect = indirect
  BY <1>1, <1>2 DEF AddCallers, Followed
<1>4. s \in Changed(q)
  BY <1>1 DEF Changed, ToSet, IsImpact
<1>5. /\ new \subseteq SourcesOf(q, QueryName(q, s))
      /\ OfSymbol(q, k + 1) \notin q.failing => new = SourcesOf(q, QueryName(q, s))
  BY DEF CallersOf, OfSymbol
<1>6. \A d : /\ answers(d) \subseteq SourcesOf(q, d)
             /\ q.failing = {} => answers(d) = SourcesOf(q, d)
  BY DEF CallersOf, OfCaller
<1>7. /\ had.direct \subseteq Entities(q, once)
      /\ had.indirect \subseteq Entities(q, CallingTwice(Possible(q), Meant(q)))
      /\ \A j \in 1..k : LookedUp(q, j) =>
            Entities(q, Calling(q.calls, {q.changed[j]})) \subseteq had.direct \cup had.indirect
      /\ OtherLanguage(q) /\ q.unresolved = {} => had.direct = {} /\ had.indirect = {}
  BY DEF FoundAfter
<1> HIDE DEF s, had, new, answers, once
<1>8. direct \subseteq Entities(q, once)
  <2>1. new \subseteq Entities(q, once)
    BY <1>4, <1>5, SourcesArePossible DEF once
  <2> QED
    BY <1>7, <2>1
<1>9. indirect \subseteq Entities(q, CallingTwice(Possible(q), Meant(q)))
  <2>1. ASSUME NEW d \in direct PROVE answers(d) \subseteq Entities(q, Calling(Possible(q), once))
    <3>1. PICK t \in once : d = Id(q, t)
      <4> HIDE DEF direct
      <4> QED
        BY <1>8, <2>1 DEF Entities
    <3>2. once \in SUBSET q.nodes
      BY SourcesArePossible DEF once
    <3>3. SourcesOf(q, d) \subseteq Entities(q, Calling(Possible(q), once))
      BY <3>1, <3>2, SourcesArePossible
    <3> QED
      BY <1>6, <3>3
  <2>2. Entities(q, Calling(Possible(q), once)) \subseteq Entities(q, CallingTwice(Possible(q), Meant(q)))
    BY DEF CallingTwice, Entities, once
  <2> HIDE DEF direct
  <2> QED
    BY <1>7, <2>1, <2>2
<1>10. ASSUME NEW j \in 1..k + 1, LookedUp(q, j)
       PROVE  Entities(q, Calling(q.calls, {q.changed[j]})) \subseteq direct \cup indirect
  <2>1. had.direct \cup had.indirect \cup new \subseteq direct \cup indirect
    OBVIOUS
  <2>2. CASE j = k + 1
    <3>1. Nameable(q, s) /\ OfSymbol(q, k + 1) \notin q.failing
      BY <1>10, <2>2 DEF LookedUp, s
    <3>2. new = SourcesOf(q, Id(q, s))
      BY <1>5, <3>1, NamesOfSymbols
    <3>3. Entities(q, Calling(q.calls, {s})) \subseteq new
      BY <3>2, SourcesArePossible DEF Entities, Calling
    <3>4. q.changed[j] = s
      BY <2>2 DEF s
    <3> HIDE DEF direct, indirect
    <3> QED
      BY <2>1, <3>3, <3>4
  <2>3. CASE j \in 1..k
    <3> HIDE DEF direct, indirect
    <3> QED
      BY <1>7, <1>10, <2>1, <2>3
  <2>4. j = k + 1 \/ j \in 1..k
    BY <1>1
  <2> QED
    BY <2>2, <2>3, <2>4
<1>11. ASSUME OtherLanguage(q), q.unresolved = {} PROVE direct = {} /\ indirect = {}
  <2>1. new = {}
    BY <1>4, <1>5, <1>11, SourcesArePossible
  <2>2. direct = {} /\ had.indirect = {}
    BY <1>7, <1>11, <2>1
  <2>3. next = {}
    <3> HIDE DEF direct
    <3> QED
      BY <2>2
  <2> QED
    BY <2>2, <2>3
<1>12. ASSUME q.depth > 1, q.failing = {}, NEW d \in direct
       PROVE  SourcesOf(q, d) \subseteq direct \cup indirect
  <2> HIDE DEF direct
  <2> QED
    BY <1>6, <1>12
<1> HIDE DEF direct, indirect
<1> QED
  BY <1>1, <1>3, <1>8, <1>9, <1>10, <1>11, <1>12 DEF FoundAfter, once

\* what `impact` promises of its two lists
CallersAre(q, direct, indirect) ==
    LET found == direct \cup indirect
        callers == Entities(q, Calling(q.calls, Changed(q)))
    IN  /\ direct \subseteq Entities(q, Calling(Possible(q), Meant(q)))
        /\ found \subseteq Entities(q, CallingTwice(Possible(q), Meant(q)))
        /\ \A k \in DOMAIN q.changed : LookedUp(q, k) =>
              Entities(q, Calling(q.calls, {q.changed[k]})) \subseteq found
        /\ /\ \A s \in Changed(q) : Nameable(q, s)
           /\ q.failing = {} /\ q.depth > 1 /\ callers \cap indirect = {}
           => Entities(q, CallingTwice(q.calls, Changed(q))) \subseteq found
        /\ OtherLanguage(q) /\ q.unresolved = {} => found = {}

\* If each changed symbol's callers are in a set, those of all are.
LEMMA CallersOfAll ==
    ASSUME NEW q, IsImpact(q), NEW found,
           \A k \in DOMAIN q.changed : Entities(q, Calling(q.calls, {q.changed[k]})) \subseteq found
    PROVE  Entities(q, Calling(q.calls, Changed(q))) \subseteq found
<1> SUFFICES ASSUME NEW c \in q.calls, c[2] \in Changed(q) PROVE Id(q, c[1]) \in found
  BY DEF Entities, Calling
<1>1. PICK k \in DOMAIN q.changed : q.changed[k] = c[2]
  BY DEF Changed, ToSet
<1> QED
  BY <1>1 DEF Entities, Calling

\* The two lists are the callers within two calls.
LEMMA CallersFound ==
    ASSUME NEW q, IsImpact(q)
    PROVE  CallersAre(q, FindCallers(q).direct, FindCallers(q).indirect)
<1> DEFINE n == Len(q.changed)
<1>1. PICK acc : Accumulates(q, acc) /\ FindCallers(q) = acc[n]
  BY CallersOneByOne DEF IsImpact
<1>2. n \in Nat /\ DOMAIN q.changed = 1..n
  BY DEF IsImpact
<1>3. FoundAfter(q, acc, n)
  <2> DEFINE Fine == {k \in 0..n : FoundAfter(q, acc, k)}
  <2>1. FoundAfter(q, acc, 0)
    BY <1>1 DEF Accumulates, FoundAfter, NoCallers
  <2>2. \A k \in 0..n - 1 : k \in Fine => k + 1 \in Fine
    <3> TAKE k \in 0..n - 1
    <3> HAVE k \in Fine
    <3>1. FoundAfter(q, acc, k + 1)
      BY <1>1, OneSymbolMore
    <3>2. k + 1 \in 0..n
      BY <1>2
    <3> QED
      BY <3>1, <3>2
  <2>3. 0 \in Fine
    BY <1>2, <2>1
  <2>4. \A k \in 0..n : k \in Fine
    <3> HIDE DEF Fine, n
    <3> QED
      BY <1>2, <2>2, <2>3, UpTo
  <2> QED
    BY <1>2, <2>4
<1> DEFINE direct == acc[n].direct
           indirect == acc[n].indirect
           callers == Entities(q, Calling(q.calls, Changed(q)))
<1>4. /\ direct \subseteq Entities(q, Calling(Possible(q), Meant(q)))
      /\ indirect \subseteq Entities(q, CallingTwice(Possible(q), Meant(q)))
      /\ \A k \in 1..n : LookedUp(q, k) =>
            Entities(q, Calling(q.calls, {q.changed[k]})) \subseteq direct \cup indirect
      /\ OtherLanguage(q) /\ q.unresolved = {} => direct = {} /\ indirect = {}
      /\ n > 0 /\ q.depth > 1 /\ q.failing = {} =>
            \A d \in direct : SourcesOf(q, d) \subseteq direct \cup indirect
  BY <1>3 DEF FoundAfter
<1> HIDE DEF n, direct, indirect
<1>5. direct \cup indirect \subseteq Entities(q, CallingTwice(Possible(q), Meant(q)))
  <2>1. Entities(q, Calling(Possible(q), Meant(q))) \subseteq Entities(q, CallingTwice(Possible(q), Meant(q)))
    BY DEF Entities, CallingTwice
  <2> QED
    BY <1>4, <2>1
<1>6. ASSUME \A s \in Changed(q) : Nameable(q, s),
             q.failing = {}, q.depth > 1, callers \cap indirect = {}
      PROVE  Entities(q, CallingTwice(q.calls, Changed(q))) \subseteq direct \cup indirect
  <2>1. \A k \in 1..n : LookedUp(q, k)
    BY <1>2, <1>6 DEF LookedUp, Changed, ToSet
  <2>2. callers \subseteq direct
    <3>1. callers \subseteq direct \cup indirect
      <4> HIDE DEF callers
      <4>1. \A k \in DOMAIN q.changed :
               Entities(q, Calling(q.calls, {q.changed[k]})) \subseteq direct \cup indirect
        BY <1>2, <1>4, <2>1
      <4> QED
        BY <4>1, CallersOfAll DEF callers
    <3> HIDE DEF callers
    <3> QED
      BY <1>6, <3>1
  <2>3. ASSUME NEW c \in q.calls, c[2] \in Calling(q.calls, Changed(q))
        PROVE  Id(q, c[1]) \in direct \cup indirect
    <3>1. n > 0
      <4>1. Changed(q) # {}
        BY <2>3 DEF Calling
      <4> QED
        BY <1>2, <4>1 DEF Changed, ToSet
    <3>2. Id(q, c[2]) \in direct
      BY <2>2, <2>3 DEF Entities
    <3>3. Id(q, c[1]) \in SourcesOf(q, Id(q, c[2]))
      BY DEF SourcesOf
    <3> QED
      BY <1>4, <1>6, <3>1, <3>2, <3>3
  <2>4. \A x : x \in Entities(q, CallingTwice(q.calls, Changed(q))) =>
           \/ x \in callers
           \/ \E c \in q.calls : c[2] \in Calling(q.calls, Changed(q)) /\ x = Id(q, c[1])
    <3>1. \A t : t \in Calling(q.calls, Calling(q.calls, Changed(q))) =>
             \E c \in q.calls : c[2] \in Calling(q.calls, Changed(q)) /\ t = c[1]
      BY DEF Calling
    <3> QED
      BY <3>1 DEF Entities, CallingTwice
  <2> HIDE DEF callers
  <2> QED
    BY <2>2, <2>3, <2>4
<1>7. OtherLanguage(q) /\ q.unresolved = {} => direct \cup indirect = {}
  BY <1>4
<1>8. CallersAre(q, direct, indirect)
  BY <1>2, <1>4, <1>5, <1>6, <1>7 DEF CallersAre
<1> QED
  BY <1>1, <1>8 DEF direct, indirect

\* what `impact` promises when it says "low"
LowIsFew(q, direct, indirect) ==
    /\ Changed(q) \cap CoreSymbols = {}
    /\ \/ q.ratio = NoRatio \/ q.ratio >= 5
       \/ q.ratio >= 1 /\ direct \cup indirect # {}
    /\ (\A k \in DOMAIN q.changed : LookedUp(q, k)) =>
          Cardinality(Entities(q, Calling(q.calls, Changed(q)))) < LowThreshold

\* Finitely many entities call.
LEMMA FoundAreFinite ==
    ASSUME NEW q, IsImpact(q)
    PROVE  IsFiniteSet(FindCallers(q).direct) /\ IsFiniteSet(FindCallers(q).indirect)
<1> DEFINE rows == q.calls \cup q.unresolved
           source == [c \in rows |-> Id(q, c[1])]
           sources == {Id(q, c[1]) : c \in rows}
<1>1. IsFiniteSet(rows)
  BY FS_Union DEF IsImpact
<1>2. IsFiniteSet(sources)
  <2>1. source \in Surjection(rows, sources)
    BY DEF Surjection
  <2> QED
    BY <1>1, <2>1, FS_Surjection
<1>3. Entities(q, CallingTwice(Possible(q), Meant(q))) \subseteq sources
  <2>1. \A p \in Possible(q) : \E c \in rows : p[1] = c[1]
    BY DEF Possible
  <2>2. \A nodes : Entities(q, Calling(Possible(q), nodes)) \subseteq sources
    BY <2>1 DEF Entities, Calling
  <2> QED
    BY <2>2 DEF CallingTwice, Entities
<1>4. FindCallers(q).direct \cup FindCallers(q).indirect \subseteq sources
  <2> HIDE DEF sources
  <2> QED
    BY <1>3, CallersFound DEF CallersAre
<1> HIDE DEF sources
<1> QED
  BY <1>2, <1>4, FS_Subset

\* "low" is said of few callers, none of them unseen.
LEMMA LowRisk ==
    ASSUME NEW q, IsImpact(q), RiskLevel(q, FindCallers(q)) = "low"
    PROVE  LowIsFew(q, FindCallers(q).direct, FindCallers(q).indirect)
<1> DEFINE direct == FindCallers(q).direct
           indirect == FindCallers(q).indirect
           callers == Entities(q, Calling(q.calls, Changed(q)))
           total == Cardinality(direct) + Cardinality(indirect)
           high == \/ ToSet(q.changed) \cap CoreSymbols # {}
                   \/ total >= HighThreshold
                   \/ Cardinality(AffectedModules(q, FindCallers(q))) >= ManyModules
           few == ~high /\ total < LowThreshold
           blind == q.ratio # NoRatio /\ q.ratio < 1
<1>1. q.ratio \in {NoRatio} \cup Nat /\ LowThreshold \in Nat
  BY AnalysesAssumption DEF IsImpact
<1>2. /\ IsFiniteSet(direct) /\ IsFiniteSet(indirect)
      /\ Cardinality(direct) \in Nat /\ Cardinality(indirect) \in Nat
  BY FoundAreFinite, FS_CardinalityType
<1>3. ASSUME \A k \in DOMAIN q.changed : LookedUp(q, k)
      PROVE  Cardinality(callers) \in Nat /\ Cardinality(callers) <= total
  <2>1. callers \subseteq direct \cup indirect
    BY <1>3, CallersFound, CallersOfAll DEF CallersAre
  <2> HIDE DEF direct, indirect, callers
  <2>2. /\ IsFiniteSet(direct \cup indirect)
        /\ Cardinality(direct \cup indirect) =
              Cardinality(direct) + Cardinality(indirect) - Cardinality(direct \cap indirect)
    BY <1>2, FS_Union
  <2>3. IsFiniteSet(direct \cap indirect) /\ Cardinality(direct \cap indirect) \in Nat
    BY <1>2, FS_Intersection, FS_CardinalityType
  <2>4. IsFiniteSet(callers) /\ Cardinality(callers) <= Cardinality(direct \cup indirect)
    BY <2>1, <2>2, FS_Subset
  <2>5. Cardinality(callers) \in Nat /\ Cardinality(direct \cup indirect) \in Nat
    BY <2>2, <2>4, FS_CardinalityType
  <2> QED
    BY <1>2, <2>2, <2>3, <2>4, <2>5
<1>4. direct \cup indirect = {} => total = 0
  <2> SUFFICES ASSUME direct \cup indirect = {} PROVE total = 0
    OBVIOUS
  <2>1. direct = {} /\ indirect = {}
    OBVIOUS
  <2> QED
    BY <2>1, FS_EmptySet
<1>5. RiskLevel(q, FindCallers(q)) =
        CASE high -> "high"
          [] ~high /\ total >= LowThreshold -> "medium"
          [] few /\ blind -> "unknown"
          [] few /\ ~blind /\ Sparse(q, total) -> "medium"
          [] few /\ ~blind /\ ~Sparse(q, total) -> "low"
  BY DEF RiskLevel
<1>6. total \in Nat
  BY <1>2
<1>7. ToSet(q.changed) \cap CoreSymbols # {} => high
  OBVIOUS
<1>8. few <=> total < LowThreshold /\ ~high
  OBVIOUS
<1>9. blind <=> q.ratio # NoRatio /\ q.ratio < 1
  OBVIOUS
<1> HIDE DEF direct, indirect, callers, total, high, few, blind
<1>10. few /\ ~blind /\ ~Sparse(q, total)
  <2>1. ASSUME high PROVE FALSE
    <3>1. RiskLevel(q, FindCallers(q)) = "high"
      BY <1>5, <1>8, <2>1
    <3> QED
      BY <3>1
  <2>2. ASSUME ~high, total >= LowThreshold PROVE FALSE
    <3>1. ~few
      BY <1>1, <1>6, <1>8, <2>2
    <3>2. RiskLevel(q, FindCallers(q)) = "medium"
      BY <1>5, <2>2, <3>1
    <3> QED
      BY <3>2
  <2>3. few /\ ~(total >= LowThreshold)
    BY <1>1, <1>6, <1>8, <2>1, <2>2
  <2>4. ASSUME blind PROVE FALSE
    <3>1. RiskLevel(q, FindCallers(q)) = "unknown"
      BY <1>5, <2>1, <2>3, <2>4
    <3> QED
      BY <3>1
  <2>5. ASSUME ~blind, Sparse(q, total) PROVE FALSE
    <3>1. RiskLevel(q, FindCallers(q)) = "medium"
      BY <1>5, <2>1, <2>3, <2>5
    <3> QED
      BY <3>1
  <2> QED
    BY <2>3, <2>4, <2>5
<1>11. q.ratio = NoRatio \/ q.ratio >= 5 \/ (q.ratio >= 1 /\ total # 0)
  BY <1>1, <1>9, <1>10 DEF Sparse
<1>12. Changed(q) \cap CoreSymbols = {}
  BY <1>7, <1>8, <1>10 DEF Changed
<1>13. (\A k \in DOMAIN q.changed : LookedUp(q, k)) => Cardinality(callers) < LowThreshold
  BY <1>1, <1>3, <1>6, <1>8, <1>10
<1>14. \/ q.ratio = NoRatio \/ q.ratio >= 5
       \/ q.ratio >= 1 /\ direct \cup indirect # {}
  BY <1>4, <1>11
<1>15. LowIsFew(q, direct, indirect)
  BY <1>12, <1>13, <1>14 DEF LowIsFew, callers
<1> QED
  BY <1>15 DEF direct, indirect

\* what is asked of `impact`
LEMMA ImpactAsked ==
    ASSUME AnswersInv, Answered("impact")
    PROVE  /\ IsImpact(question)
           /\ answer.direct = FindCallers(question).direct
           /\ answer.indirect = FindCallers(question).indirect
           /\ answer.risk = RiskLevel(question, FindCallers(question))
<1>1. question \in Impacts
  BY DEF AnswersInv, AnalysisAsked, ReviewAsked, PilotAsked, Answered
<1>2. answer = Impact(question)
  BY DEF AnswersInv
<1>3. IsImpact(question)
  BY <1>1, AnalysesAssumption
<1> QED
  BY <1>2, <1>3 DEF Impact

\* For all graphs, changes and failing lookups, `impact` lists no caller it
\* should not, all direct ones of each symbol that was looked up under its
\* entity's name, and all within two calls but where it says which it may miss.
THEOREM CallersAreFound == Spec => []CallersComplete
<1>1. AnswersInv => CallersComplete
  <2> SUFFICES ASSUME AnswersInv, Answered("impact") PROVE CallersComplete
    BY DEF CallersComplete
  <2>1. CallersAre(question, answer.direct, answer.indirect)
    BY ImpactAsked, CallersFound
  <2> QED
    BY <2>1 DEF CallersAre, CallersComplete
<1> QED
  BY <1>1, Answers, PTL

\* For all graphs, changes and failing lookups, "low" is said of no core change
\* and not of nothing found where most edges are unresolved; and of few callers
\* where all changed symbols were looked up under their entities' names.
THEOREM LowRiskIsLow == Spec => []LowMeansFewCallers
<1>1. AnswersInv => LowMeansFewCallers
  <2> SUFFICES ASSUME AnswersInv, Answered("impact") PROVE LowMeansFewCallers
    BY DEF LowMeansFewCallers
  <2> SUFFICES ASSUME answer.risk = "low"
               PROVE  LowIsFew(question, answer.direct, answer.indirect)
    BY DEF LowMeansFewCallers, LowIsFew
  <2> QED
    BY ImpactAsked, LowRisk
<1> QED
  BY <1>1, Answers, PTL

-----------------------------------------------------------------------------
(* graph: layers and walks.                                                *)

\* w leads from n to m in len steps
Leads(edges, w, n, m, len) ==
    /\ w = [i \in 0..len |-> w[i]]
    /\ w[0] = n /\ w[len] = m
    /\ \A i \in 1..len : \E e \in edges : e[1] = w[i - 1] /\ e[2] = w[i]

Walk(edges, n, m, len) == \E w : Leads(edges, w, n, m, len)

\* Every node of a walk but the last is the source of an edge.
LEMMA WalksAreReach ==
    ASSUME NEW edges, NEW n, NEW m, NEW depth \in Nat
    PROVE  Reaches(edges, n, m, depth) <=> \E len \in 1..depth : Walk(edges, n, m, len)
<1> DEFINE nodes == {n, m} \cup {e[1] : e \in edges}
<1>1. ASSUME NEW len \in 1..depth, NEW w, Leads(edges, w, n, m, len)
      PROVE  w \in [0..len -> nodes]
  <2>1. len \in Nat /\ len > 0
    OBVIOUS
  <2>2. \A i \in 0..len : w[i] \in nodes
    <3> TAKE i \in 0..len
    <3>1. CASE i = len
      BY <1>1, <3>1 DEF Leads
    <3>2. CASE i # len
      <4>1. i + 1 \in 1..len /\ (i + 1) - 1 = i
        BY <2>1, <3>2
      <4>2. \E e \in edges : e[1] = w[(i + 1) - 1]
        BY <1>1, <4>1 DEF Leads
      <4> QED
        BY <4>1, <4>2
    <3> QED
      BY <3>1, <3>2
  <2>3. w = [i \in 0..len |-> w[i]]
    BY <1>1 DEF Leads
  <2> HIDE DEF nodes
  <2> QED
    BY <2>2, <2>3
<1>2. ASSUME NEW len \in 1..depth, NEW w \in [0..len -> nodes]
      PROVE  w = [i \in 0..len |-> w[i]]
  <2> HIDE DEF nodes
  <2> QED
    OBVIOUS
<1>3. Reaches(edges, n, m, depth) <=>
         \E len \in 1..depth : \E w \in [0..len -> nodes] :
            /\ w[0] = n /\ w[len] = m
            /\ \A i \in 1..len : \E e \in edges : e[1] = w[i - 1] /\ e[2] = w[i]
  BY DEF Reaches
<1> HIDE DEF nodes
<1> QED
  BY <1>1, <1>2, <1>3 DEF Walk, Leads

\* Walks grow at their end, one edge at a time.
LEMMA WalkStep ==
    ASSUME NEW edges, NEW n, NEW m, NEW len \in Nat
    PROVE  /\ Walk(edges, n, m, 0) <=> n = m
           /\ Walk(edges, n, m, len + 1) <=>
                 \E e \in edges : Walk(edges, n, e[1], len) /\ e[2] = m
<1>1. ASSUME n = m PROVE Walk(edges, n, m, 0)
  <2> DEFINE w == [i \in 0..0 |-> n]
  <2>1. Leads(edges, w, n, m, 0)
    BY <1>1 DEF Leads
  <2> QED
    BY <2>1 DEF Walk
<1>2. Walk(edges, n, m, 0) => n = m
  BY DEF Walk, Leads
<1>3. ASSUME NEW w, Leads(edges, w, n, m, len + 1)
      PROVE  \E e \in edges : Walk(edges, n, e[1], len) /\ e[2] = m
  <2> DEFINE v == [i \in 0..len |-> w[i]]
  <2>1. PICK e \in edges : e[1] = w[len] /\ e[2] = m
    <3>1. len + 1 \in 1..len + 1 /\ (len + 1) - 1 = len
      OBVIOUS
    <3> QED
      BY <1>3, <3>1 DEF Leads
  <2>2. \A i \in 0..len : v[i] = w[i]
    OBVIOUS
  <2>3. v = [i \in 0..len |-> v[i]]
    OBVIOUS
  <2>4. 0 \in 0..len /\ len \in 0..len
    OBVIOUS
  <2> HIDE DEF v
  <2>5. ASSUME NEW i \in 1..len PROVE \E x \in edges : x[1] = v[i - 1] /\ x[2] = v[i]
    <3>1. i \in 1..len + 1 /\ i \in 0..len /\ i - 1 \in 0..len
      OBVIOUS
    <3>2. PICK x \in edges : x[1] = w[i - 1] /\ x[2] = w[i]
      BY <1>3, <3>1 DEF Leads
    <3> QED
      BY <2>2, <3>1, <3>2
  <2>6. v[0] = n /\ v[len] = e[1]
    BY <1>3, <2>1, <2>2, <2>4 DEF Leads
  <2>7. Leads(edges, v, n, e[1], len)
    BY <2>3, <2>5, <2>6 DEF Leads
  <2> QED
    BY <2>1, <2>7 DEF Walk
<1>4. ASSUME NEW e \in edges, e[2] = m, NEW v, Leads(edges, v, n, e[1], len)
      PROVE  Walk(edges, n, m, len + 1)
  <2> DEFINE w == [i \in 0..len + 1 |-> IF i = len + 1 THEN m ELSE v[i]]
  <2>1. \A i \in 0..len : w[i] = v[i]
    OBVIOUS
  <2>2. w[len + 1] = m
    OBVIOUS
  <2>3. w = [i \in 0..len + 1 |-> w[i]]
    OBVIOUS
  <2> HIDE DEF w
  <2>4. ASSUME NEW i \in 1..len + 1 PROVE \E x \in edges : x[1] = w[i - 1] /\ x[2] = w[i]
    <3>1. CASE i = len + 1
      <4>1. i - 1 = len /\ len \in 0..len
        BY <3>1
      <4>2. e[1] = w[i - 1] /\ e[2] = w[i]
        BY <1>4, <2>1, <2>2, <3>1, <4>1 DEF Leads
      <4> QED
        BY <4>2
    <3>2. CASE i # len + 1
      <4>1. i \in 1..len /\ i \in 0..len /\ i - 1 \in 0..len
        BY <3>2
      <4>2. PICK x \in edges : x[1] = v[i - 1] /\ x[2] = v[i]
        BY <1>4, <4>1 DEF Leads
      <4> QED
        BY <2>1, <4>1, <4>2
    <3> QED
      BY <3>1, <3>2
  <2>5. 0 \in 0..len /\ w[0] = n
    BY <1>4, <2>1 DEF Leads
  <2>6. Leads(edges, w, n, m, len + 1)
    BY <2>2, <2>3, <2>4, <2>5 DEF Leads
  <2> QED
    BY <2>6 DEF Walk
<1> QED
  BY <1>1, <1>2, <1>3, <1>4 DEF Walk

\* A walk against the edges is a walk along them, the other way round.
LEMMA WalkBackwards ==
    ASSUME NEW edges, NEW back, NEW n, NEW m, NEW len \in Nat,
           \A b \in back : \E e \in edges : e[1] = b[2] /\ e[2] = b[1],
           Walk(back, n, m, len)
    PROVE  Walk(edges, m, n, len)
<1>1. PICK v : Leads(back, v, n, m, len)
  BY DEF Walk
<1> DEFINE w == [i \in 0..len |-> v[len - i]]
<1>2. \A i \in 0..len : w[i] = v[len - i]
  OBVIOUS
<1>3. w = [i \in 0..len |-> w[i]]
  OBVIOUS
<1> HIDE DEF w
<1>4. ASSUME NEW i \in 1..len PROVE \E e \in edges : e[1] = w[i - 1] /\ e[2] = w[i]
  <2>1. PICK k \in 1..len : k = len - i + 1
    OBVIOUS
  <2>2. k - 1 = len - i /\ k = len - (i - 1) /\ i \in 0..len /\ i - 1 \in 0..len
    BY <2>1
  <2>3. PICK b \in back : b[1] = v[k - 1] /\ b[2] = v[k]
    BY <1>1 DEF Leads
  <2>4. PICK e \in edges : e[1] = b[2] /\ e[2] = b[1]
    OBVIOUS
  <2>5. w[i - 1] = v[k] /\ w[i] = v[k - 1]
    BY <1>2, <2>2
  <2> QED
    BY <2>3, <2>4, <2>5
<1>5. 0 \in 0..len /\ len \in 0..len /\ len - 0 = len /\ len - len = 0
  OBVIOUS
<1>6. w[0] = m /\ w[len] = n
  BY <1>1, <1>2, <1>5 DEF Leads
<1>7. Leads(edges, w, m, n, len)
  BY <1>3, <1>4, <1>6 DEF Leads
<1> QED
  BY <1>7 DEF Walk

\* one layer more of the search
NextLayer(edges, l) ==
    LET new == Neighbors(edges, l.frontier, l.visited)
    IN  [visited |-> l.visited \cup new, frontier |-> new]

IsSearch(edges, start, n, f) ==
    f = [d \in 0..n |-> IF d = 0 THEN [visited |-> {start}, frontier |-> {start}]
                        ELSE NextLayer(edges, f[d - 1])]

\* The layers of a search are well defined,
LEMMA SearchExists ==
    ASSUME NEW edges, NEW start, NEW n \in Nat
    PROVE  \E f : IsSearch(edges, start, n, f)
<1> DEFINE none == {k \in Nat : ~ \E f : IsSearch(edges, start, k, f)}
<1>1. SUFFICES ASSUME none # {} PROVE FALSE
  OBVIOUS
<1>2. PICK k \in none : \A j \in none : k <= j
  <2>1. none \subseteq Nat
    OBVIOUS
  <2> HIDE DEF none
  <2> QED
    BY <1>1, <2>1, LeastNumber
<1>3. CASE k = 0
  <2> DEFINE f == [d \in 0..0 |-> [visited |-> {start}, frontier |-> {start}]]
  <2>1. IsSearch(edges, start, 0, f)
    BY DEF IsSearch
  <2> QED
    BY <1>3, <2>1
<1>4. CASE k # 0
  <2>1. k - 1 \in Nat /\ k \in Nat
    BY <1>4
  <2>2. PICK g : IsSearch(edges, start, k - 1, g)
    BY <1>2, <2>1
  <2> DEFINE f == [d \in 0..k |-> IF d = k THEN NextLayer(edges, g[k - 1]) ELSE g[d]]
  <2>3. \A d \in 0..k - 1 : f[d] = g[d]
    BY <2>1
  <2>4. f[k] = NextLayer(edges, f[k - 1])
    BY <2>1, <2>3
  <2>5. f = [d \in 0..k |-> f[d]]
    OBVIOUS
  <2> HIDE DEF f
  <2>6. \A d \in 0..k : f[d] = IF d = 0 THEN [visited |-> {start}, frontier |-> {start}]
                               ELSE NextLayer(edges, f[d - 1])
    <3> TAKE d \in 0..k
    <3>1. CASE d = k
      BY <1>4, <2>4, <3>1
    <3>2. CASE d = 0
      <4>1. 0 \in 0..k - 1
        BY <1>4, <2>1
      <4>2. g[0] = [visited |-> {start}, frontier |-> {start}]
        BY <2>2, <4>1 DEF IsSearch
      <4> QED
        BY <2>3, <3>2, <4>1, <4>2
    <3>3. CASE d # k /\ d # 0
      <4>1. d \in 0..k - 1 /\ d - 1 \in 0..k - 1
        BY <2>1, <3>3
      <4>2. g[d] = NextLayer(edges, g[d - 1])
        BY <2>2, <3>3, <4>1 DEF IsSearch
      <4> QED
        BY <2>3, <3>3, <4>1, <4>2
    <3> QED
      BY <3>1, <3>2, <3>3
  <2>7. IsSearch(edges, start, k, f)
    BY <2>5, <2>6 DEF IsSearch
  <2> QED
    BY <2>7
<1> QED
  BY <1>3, <1>4

\* and the answer is what the last one has visited.
LEMMA SearchOf ==
    ASSUME NEW edges, NEW start, NEW depth \in Nat
    PROVE  \E f : /\ IsSearch(edges, start, depth, f)
                  /\ Bfs(edges, start, depth) = f[depth].visited \ {start}
<1> DEFINE layer == CHOOSE f : IsSearch(edges, start, depth, f)
<1>1. IsSearch(edges, start, depth, layer)
  BY SearchExists
<1>2. Bfs(edges, start, depth) = layer[depth].visited \ {start}
  BY DEF Bfs, IsSearch, NextLayer
<1> QED
  BY <1>1, <1>2

\* A layer has visited what a walk of its length or less leads to, and has the
\* neighbors of what is not its frontier.
LayerIsReach(edges, start, f, d) ==
    /\ f[d].frontier \subseteq f[d].visited
    /\ \A m : m \in f[d].visited <=> \E len \in 0..d : Walk(edges, start, m, len)
    /\ \A e \in edges : e[1] \in f[d].visited => e[1] \in f[d].frontier \/ e[2] \in f[d].visited

LEMMA LayersReach ==
    ASSUME NEW edges, NEW start, NEW n \in Nat, NEW f, IsSearch(edges, start, n, f)
    PROVE  LayerIsReach(edges, start, f, n)
<1> DEFINE wrong == {d \in 0..n : ~LayerIsReach(edges, start, f, d)}
<1>1. SUFFICES ASSUME wrong # {} PROVE FALSE
  OBVIOUS
<1>2. PICK d \in wrong : \A j \in wrong : d <= j
  <2>1. wrong \subseteq Nat
    OBVIOUS
  <2> HIDE DEF wrong
  <2> QED
    BY <1>1, <2>1, LeastNumber
<1>3. d \in 0..n /\ ~LayerIsReach(edges, start, f, d)
  OBVIOUS
<1>4. d # 0
  <2> SUFFICES ASSUME d = 0 PROVE FALSE
    OBVIOUS
  <2>1. f[0] = [visited |-> {start}, frontier |-> {start}]
    BY <1>3 DEF IsSearch
  <2>2. \A m : Walk(edges, start, m, 0) <=> start = m
    BY WalkStep
  <2>3. \A len \in 0..0 : len = 0
    OBVIOUS
  <2>4. LayerIsReach(edges, start, f, 0)
    BY <2>1, <2>2, <2>3 DEF LayerIsReach
  <2> QED
    BY <1>3, <2>4
<1>5. PICK c \in Nat : d = c + 1 /\ c = d - 1 /\ c \in 0..n
  BY <1>3, <1>4
<1>6. LayerIsReach(edges, start, f, c)
  <2>1. ~(d <= c)
    BY <1>5
  <2> QED
    BY <1>2, <1>5, <2>1
<1> HIDE DEF wrong
<1> DEFINE new == Neighbors(edges, f[c].frontier, f[c].visited)
<1>7. f[d].visited = f[c].visited \cup new /\ f[d].frontier = new
  <2>1. f[d] = NextLayer(edges, f[c])
    BY <1>3, <1>4, <1>5 DEF IsSearch
  <2> QED
    BY <2>1 DEF NextLayer
<1>8. \A m : m \in new <=> m \notin f[c].visited /\ \E e \in edges : e[1] \in f[c].frontier /\ e[2] = m
  BY DEF Neighbors
<1> HIDE DEF new
<1>9. \A m : Walk(edges, start, m, d) <=> \E e \in edges : Walk(edges, start, e[1], c) /\ e[2] = m
  <2>1. \A m : Walk(edges, start, m, c + 1) <=> \E e \in edges : Walk(edges, start, e[1], c) /\ e[2] = m
    <3> TAKE m
    <3>1. ASSUME NEW k \in Nat
          PROVE  /\ Walk(edges, start, m, 0) <=> start = m
                 /\ Walk(edges, start, m, k + 1) <=> \E e \in edges : Walk(edges, start, e[1], k) /\ e[2] = m
      BY WalkStep
    <3> QED
      BY <3>1
  <2> QED
    BY <1>5, <2>1
<1>10. ASSUME NEW m, m \in f[d].visited PROVE \E len \in 0..d : Walk(edges, start, m, len)
  <2>1. CASE m \in f[c].visited
    <3>1. PICK len \in 0..c : Walk(edges, start, m, len)
      BY <1>6, <2>1 DEF LayerIsReach
    <3>2. len \in 0..d
      BY <1>5
    <3> QED
      BY <3>1, <3>2
  <2>2. CASE m \in new
    <3>1. PICK e \in edges : e[1] \in f[c].frontier /\ e[2] = m
      BY <1>8, <2>2
    <3>2. PICK len \in 0..c : Walk(edges, start, e[1], len)
      BY <1>6, <3>1 DEF LayerIsReach
    <3>3. len \in Nat /\ len + 1 \in 0..d
      BY <1>5
    <3>4. Walk(edges, start, m, len + 1)
      BY <3>1, <3>2, <3>3, WalkStep
    <3> QED
      BY <3>3, <3>4
  <2> QED
    BY <1>7, <1>10, <2>1, <2>2
<1>11. ASSUME NEW m, NEW len \in 0..d, Walk(edges, start, m, len) PROVE m \in f[d].visited
  <2>1. CASE len # d
    <3>1. len \in 0..c
      BY <1>5, <2>1
    <3> QED
      BY <1>6, <1>7, <1>11, <3>1 DEF LayerIsReach
  <2>2. CASE len = d
    <3>1. PICK e \in edges : Walk(edges, start, e[1], c) /\ e[2] = m
      BY <1>9, <1>11, <2>2
    <3>2. c \in 0..c
      OBVIOUS
    <3>3. e[1] \in f[c].visited
      BY <1>6, <3>1, <3>2 DEF LayerIsReach
    <3> QED
      BY <1>6, <1>7, <1>8, <3>1, <3>3 DEF LayerIsReach
  <2> QED
    BY <2>1, <2>2
<1>12. \A e \in edges : e[1] \in f[d].visited => e[1] \in f[d].frontier \/ e[2] \in f[d].visited
  BY <1>6, <1>7, <1>8 DEF LayerIsReach
<1>13. LayerIsReach(edges, start, f, d)
  BY <1>7, <1>10, <1>11, <1>12 DEF LayerIsReach
<1> QED
  BY <1>3, <1>13

\* Breadth first finds what a walk of at most depth edges leads to.
LEMMA BfsIsReach ==
    ASSUME NEW edges, NEW start, NEW depth \in Nat, NEW m
    PROVE  m \in Bfs(edges, start, depth) <=> m # start /\ Reaches(edges, start, m, depth)
<1>1. PICK f : /\ IsSearch(edges, start, depth, f)
               /\ Bfs(edges, start, depth) = f[depth].visited \ {start}
  BY SearchOf
<1>2. m \in f[depth].visited <=> \E len \in 0..depth : Walk(edges, start, m, len)
  BY <1>1, LayersReach DEF LayerIsReach
<1>3. m # start => \A len \in 0..depth : Walk(edges, start, m, len) => len \in 1..depth
  <2>1. Walk(edges, start, m, 0) => m = start
    BY WalkStep
  <2> QED
    BY <2>1
<1>4. 1..depth \subseteq 0..depth
  OBVIOUS
<1>5. Reaches(edges, start, m, depth) <=> \E len \in 1..depth : Walk(edges, start, m, len)
  BY WalksAreReach
<1> QED
  BY <1>1, <1>2, <1>3, <1>4, <1>5

\* what TraversalIsReach says of an answer
Traversed(q, found) ==
    LET out == {e \in q.edges : e[3] \/ q.include_unresolved}
        nodes == UNION {{e[1], e[2]} : e \in q.edges}
    IN  /\ found.callers = {n \in nodes \ {q.start} : Reaches(out, n, q.start, q.depth)}
        /\ found.callees = {n \in nodes : \E s \in {q.start} \cup q.methods :
                                             n # s /\ Reaches(out, s, n, q.depth)}

\* `graph` traverses whole walks.
LEMMA GraphTraverses ==
    ASSUME NEW q, q.depth \in Nat
    PROVE  Traversed(q, GraphQuery(q.edges, q.methods, q.start, q.depth, q.include_unresolved))
<1> DEFINE out == {e \in q.edges : e[3] \/ q.include_unresolved}
           back == Backwards(out)
           nodes == UNION {{e[1], e[2]} : e \in q.edges}
           found == GraphQuery(q.edges, q.methods, q.start, q.depth, q.include_unresolved)
<1>1. /\ found.callers = Bfs(back, q.start, q.depth)
      /\ found.callees = UNION {Bfs(out, n, q.depth) : n \in {q.start} \cup q.methods}
  BY DEF GraphQuery, Walkable
<1>2. \A e \in out : \E b \in back : e[1] = b[2] /\ e[2] = b[1]
  <2> TAKE e \in out
  <2>1. <<e[2], e[1], e[3]>> \in back
    BY DEF Backwards
  <2> QED
    BY <2>1
<1>3. \A b \in back : \E e \in out : e[1] = b[2] /\ e[2] = b[1]
  BY DEF Backwards
<1>4. \A e \in out : e[1] \in nodes /\ e[2] \in nodes
  OBVIOUS
<1> HIDE DEF out, back, nodes
<1>5. ASSUME NEW n, NEW m
      PROVE  Reaches(back, n, m, q.depth) <=> Reaches(out, m, n, q.depth)
  <2>1. \A len \in 1..q.depth : len \in Nat
    OBVIOUS
  <2>2. \A len \in 1..q.depth : Walk(back, n, m, len) => Walk(out, m, n, len)
    BY <1>3, <2>1, WalkBackwards
  <2>3. \A len \in 1..q.depth : Walk(out, m, n, len) => Walk(back, n, m, len)
    BY <1>2, <2>1, WalkBackwards
  <2> QED
    BY <2>2, <2>3, WalksAreReach
<1>6. ASSUME NEW n, NEW m, Reaches(out, n, m, q.depth)
      PROVE  n \in nodes /\ m \in nodes
  <2>1. PICK len \in 1..q.depth : Walk(out, n, m, len)
    BY <1>6, WalksAreReach
  <2>2. PICK w : Leads(out, w, n, m, len)
    BY <2>1 DEF Walk
  <2>3. len \in Nat /\ 1 \in 1..len /\ len \in 1..len /\ 1 - 1 = 0
    OBVIOUS
  <2>4. /\ \E e \in out : e[1] = n
        /\ \E e \in out : e[2] = m
    BY <2>2, <2>3 DEF Leads
  <2> QED
    BY <1>4, <2>4
<1>7. \A n : n \in found.callers <=> n \in nodes \ {q.start} /\ Reaches(out, n, q.start, q.depth)
  <2>1. \A n : n \in found.callers <=> n # q.start /\ Reaches(back, q.start, n, q.depth)
    BY <1>1, BfsIsReach
  <2> QED
    BY <1>5, <1>6, <2>1
<1>8. \A n : n \in found.callees <=>
             n \in nodes /\ \E s \in {q.start} \cup q.methods : n # s /\ Reaches(out, s, n, q.depth)
  <2>1. \A n, s : n \in Bfs(out, s, q.depth) <=> n # s /\ Reaches(out, s, n, q.depth)
    BY BfsIsReach
  <2>2. \A n : n \in found.callees <=> \E s \in {q.start} \cup q.methods : n \in Bfs(out, s, q.depth)
    BY <1>1
  <2> QED
    BY <1>6, <2>1, <2>2
<1> HIDE DEF found
<1>9. found.callers = {n \in nodes \ {q.start} : Reaches(out, n, q.start, q.depth)}
  <2>1. found.callers \subseteq {n \in nodes \ {q.start} : Reaches(out, n, q.start, q.depth)}
    BY <1>7
  <2>2. {n \in nodes \ {q.start} : Reaches(out, n, q.start, q.depth)} \subseteq found.callers
    BY <1>7
  <2> QED
    BY <2>1, <2>2
<1>10. found.callees = {n \in nodes : \E s \in {q.start} \cup q.methods :
                                         n # s /\ Reaches(out, s, n, q.depth)}
  BY <1>8
<1> QED
  BY <1>9, <1>10 DEF Traversed, out, nodes, found

\* For all graphs, `graph` answers with the entities that can be reached within
\* its depth, by the definition of a walk.
THEOREM GraphIsReach == Spec => []TraversalIsReach
<1>1. AnswersInv => TraversalIsReach
  <2> SUFFICES ASSUME AnswersInv, Answered("graph") PROVE TraversalIsReach
    BY DEF TraversalIsReach
  <2>1. question.depth \in Nat
    BY AnalysesAssumption DEF AnswersInv, AnalysisAsked, ReviewAsked, PilotAsked, Answered
  <2>2. Traversed(question, answer)
    BY <2>1, GraphTraverses DEF AnswersInv
  <2> QED
    BY <2>2 DEF Traversed, TraversalIsReach
<1> QED
  BY <1>1, Answers, PTL

-----------------------------------------------------------------------------
(* deps: depths and counts.                                                *)

\* those of R with a value in P, and how many have each
Valued(R, end, P) == {r \in R : \E p \in P : end[r] = {p}}
HowMany(R, end, P) == [p \in P |-> Cardinality({r \in R : end[r] = {p}})]

\* Adding up how many have each value counts those that have one.
LEMMA PartitionSum ==
    ASSUME NEW R, IsFiniteSet(R), NEW end, NEW P, IsFiniteSet(P), NEW g,
           IsSumFold(P, HowMany(R, end, P), g)
    PROVE  g[P] = Cardinality(Valued(R, end, P))
<1> DEFINE pick == [s \in SUBSET P |-> CHOOSE x \in s : TRUE]
           With(s) == {r \in R : \E p \in s : end[r] = {p}}
           count == HowMany(R, end, P)
           Fine == {s \in SUBSET P : g[s] = Cardinality(With(s))}
<1>1. IsPick(P, pick)
  BY DEF IsPick
<1>2. \A s \in SUBSET P : g[s] = IF s = {} THEN 0 ELSE count[pick[s]] + g[s \ {pick[s]}]
  BY DEF IsSumFold
<1>3. {} \in Fine
  <2>1. {} \in SUBSET P /\ With({}) = {}
    OBVIOUS
  <2>2. g[{}] = 0
    BY <1>2, <2>1
  <2> QED
    BY <2>1, <2>2, FS_EmptySet
<1>4. ASSUME NEW s \in SUBSET P, s # {}, s \ {pick[s]} \in Fine PROVE s \in Fine
  <2> DEFINE p == pick[s]
             Here == {r \in R : end[r] = {p}}
  <2>1. p \in s /\ p \in P
    BY <1>1, <1>4 DEF IsPick
  <2>2. g[s] = Cardinality(Here) + g[s \ {p}]
    BY <1>2, <1>4, <2>1 DEF HowMany
  <2>3. g[s \ {p}] = Cardinality(With(s \ {p}))
    BY <1>4
  <2> HIDE DEF p
  <2>4. With(s) = Here \cup With(s \ {p})
    BY <2>1
  <2>5. Here \cap With(s \ {p}) = {}
    <3> SUFFICES ASSUME NEW r \in R, end[r] = {p}, NEW o \in s \ {p}, end[r] = {o} PROVE FALSE
      OBVIOUS
    <3> QED
      OBVIOUS
  <2>6. Here \subseteq R /\ With(s \ {p}) \subseteq R
    OBVIOUS
  <2>7. IsFiniteSet(Here) /\ IsFiniteSet(With(s \ {p}))
    BY <2>6, FS_Subset
  <2> HIDE DEF With, Here
  <2>8. Cardinality(With(s)) = Cardinality(Here) + Cardinality(With(s \ {p})) - Cardinality({})
    BY <2>4, <2>5, <2>7, FS_Union
  <2>9. Cardinality(Here) \in Nat /\ Cardinality(With(s \ {p})) \in Nat
    BY <2>7, FS_CardinalityType
  <2> QED
    BY <2>2, <2>3, <2>8, <2>9, FS_EmptySet
<1>5. SUBSET P \subseteq Fine
  <2> HIDE DEF Fine, pick
  <2>1. Grows(P, pick, Fine)
    BY <1>3, <1>4 DEF Grows
  <2> QED
    BY <1>1, <2>1, FoldInduction
<1>6. P \in Fine
  BY <1>5
<1> QED
  BY <1>6 DEF Valued

\* The total of `deps` is such a sum.
LEMMA CountedTotal ==
    ASSUME NEW P, IsFiniteSet(P), NEW count \in [P -> Nat]
    PROVE  \E g : IsSumFold(P, count, g) /\ CallsCounted(count) = g[P]
<1> DEFINE Folds(g) == g = [s \in SUBSET DOMAIN count |-> IF s = {} THEN 0
                              ELSE LET x == CHOOSE y \in s : TRUE IN count[x] + g[s \ {x}]]
           iter == CHOOSE g : Folds(g)
<1>1. CallsCounted(count) = iter[DOMAIN count]
  BY DEF CallsCounted, MapThenSumSet, MapThenFoldSet
<1>2. \A g : Folds(g) <=> IsSumFold(P, count, g)
  BY DEF IsSumFold
<1> HIDE DEF Folds
<1>3. Folds(iter)
  BY <1>2, SumFold
<1> QED
  BY <1>1, <1>2, <1>3

\* What stands for one module.
LEMMA StandsForOne ==
    ASSUME NEW q, NEW x, NEW m, NEW d
    PROVE  /\ ModulesOf(x, q.dir, q.inside, d) = {m} <=> StandsFor(q, x, m, d)
           /\ ModulesOf(x, q.dir, {}, d) = {m} <=> x \in DOMAIN q.dir /\ StandsFor(q, x, m, d)
<1> DEFINE own == {e \in DOMAIN q.dir : e = x}
           within == {e \in DOMAIN q.dir : <<e, x>> \in q.inside}
           M(e) == ExtractModule(q.dir[e], d)
<1>1. CASE x \in DOMAIN q.dir
  <2>1. own # {}
    BY <1>1
  <2>2. StandsFor(q, x, m, d) <=> M(x) = m
    BY <2>1 DEF StandsFor
  <2>3. /\ ModulesOf(x, q.dir, q.inside, d) = {M(x)}
        /\ ModulesOf(x, q.dir, {}, d) = {M(x)}
    BY <1>1 DEF ModulesOf
  <2> HIDE DEF M
  <2> QED
    BY <1>1, <2>2, <2>3
<1>2. CASE x \notin DOMAIN q.dir
  <2>1. own = {}
    BY <1>2
  <2>2. StandsFor(q, x, m, d) <=> within # {} /\ \A e \in within : M(e) = m
    BY <2>1 DEF StandsFor
  <2>3. ModulesOf(x, q.dir, q.inside, d) = {M(e) : e \in within}
    BY <1>2 DEF ModulesOf
  <2>4. ModulesOf(x, q.dir, {}, d) = {}
    BY <1>2 DEF ModulesOf
  <2> HIDE DEF M, within
  <2> QED
    BY <1>2, <2>2, <2>3, <2>4
<1> QED
  BY <1>1, <1>2

\* the calls `deps` promises to count
Counted(q, a) ==
    {r \in q.rels :
        \E m1, m2 \in a.modules :
            /\ m1 # m2
            /\ r[3] \/ {r[1], r[2]} \subseteq DOMAIN q.dir
            /\ StandsFor(q, r[1], m1, a.depth)
            /\ StandsFor(q, r[2], m2, a.depth)}

\* Each is counted once.
LEMMA EachCountedOnce ==
    ASSUME NEW q, IsFiniteSet(q.rels), \A r \in q.rels : r[3] \in BOOLEAN
    PROVE  LET a == Deps(q.dir, q.inside, q.rels, q.depth)
           IN  CallsCounted(a.count) = Cardinality(Counted(q, a))
<1> DEFINE a == Deps(q.dir, q.inside, q.rels, q.depth)
           dirs == {q.dir[e] : e \in DOMAIN q.dir}
           d == SettledDepth(dirs, q.depth)
           mods == ModulesAt(dirs, d)
           from(r) == ModulesOf(r[1], q.dir, IF r[3] THEN q.inside ELSE {}, d)
           to(r) == ModulesOf(r[2], q.dir, IF r[3] THEN q.inside ELSE {}, d)
           Ends(r) == from(r) \X to(r)
           end == [r \in q.rels |-> Ends(r)]
           across == {r \in q.rels : \E m1, m2 \in mods : m1 # m2 /\ Ends(r) = {<<m1, m2>>}}
           P == UNION {Ends(r) : r \in across}
<1>1. /\ a.modules = mods /\ a.depth = d
      /\ a.count = [p \in P |-> Cardinality({r \in across : Ends(r) = {p}})]
  BY DEF Deps
<1>3. ASSUME NEW r \in q.rels, NEW m1, NEW m2
      PROVE  Ends(r) = {<<m1, m2>>} <=> /\ r[3] \/ {r[1], r[2]} \subseteq DOMAIN q.dir
                                        /\ StandsFor(q, r[1], m1, d) /\ StandsFor(q, r[2], m2, d)
  <2>1. /\ r[3] => from(r) = ModulesOf(r[1], q.dir, q.inside, d)
        /\ r[3] => to(r) = ModulesOf(r[2], q.dir, q.inside, d)
        /\ ~r[3] => from(r) = ModulesOf(r[1], q.dir, {}, d)
        /\ ~r[3] => to(r) = ModulesOf(r[2], q.dir, {}, d)
    OBVIOUS
  <2>2. Ends(r) = {<<m1, m2>>} <=> from(r) = {m1} /\ to(r) = {m2}
    <3> HIDE DEF from, to
    <3>1. ASSUME NEW A, NEW B PROVE A \X B = {<<m1, m2>>} <=> A = {m1} /\ B = {m2}
      <4>1. ASSUME A \X B = {<<m1, m2>>} PROVE A = {m1} /\ B = {m2}
        <5>1. <<m1, m2>> \in A \X B
          BY <4>1
        <5>2. m1 \in A /\ m2 \in B
          BY <5>1
        <5>3. \A x \in A, y \in B : <<x, y>> = <<m1, m2>>
          BY <4>1
        <5>4. \A x \in A, y \in B : x = m1 /\ y = m2
          BY <5>3
        <5> QED
          BY <5>2, <5>4
      <4> QED
        BY <4>1
    <3>2. Ends(r) = from(r) \X to(r)
      OBVIOUS
    <3> HIDE DEF Ends
    <3> QED
      BY <3>1, <3>2
  <2>3. /\ ModulesOf(r[1], q.dir, q.inside, d) = {m1} <=> StandsFor(q, r[1], m1, d)
        /\ ModulesOf(r[1], q.dir, {}, d) = {m1} <=> r[1] \in DOMAIN q.dir /\ StandsFor(q, r[1], m1, d)
    BY StandsForOne
  <2>4. /\ ModulesOf(r[2], q.dir, q.inside, d) = {m2} <=> StandsFor(q, r[2], m2, d)
        /\ ModulesOf(r[2], q.dir, {}, d) = {m2} <=> r[2] \in DOMAIN q.dir /\ StandsFor(q, r[2], m2, d)
    BY StandsForOne
  <2>5. r[3] \in BOOLEAN
    OBVIOUS
  <2> HIDE DEF from, to, Ends, d
  <2> QED
    BY <2>1, <2>2, <2>3, <2>4, <2>5
<1>4. Counted(q, a) = across
  <2> DEFINE counts(r, m1, m2) == /\ r[3] \/ {r[1], r[2]} \subseteq DOMAIN q.dir
                                  /\ StandsFor(q, r[1], m1, d) /\ StandsFor(q, r[2], m2, d)
  <2>1. Counted(q, a) = {r \in q.rels : \E m1, m2 \in mods : m1 # m2 /\ counts(r, m1, m2)}
    <3> HIDE DEF a, d, mods
    <3> QED
      BY <1>1 DEF Counted
  <2>2. \A r \in q.rels : \A m1, m2 \in mods : Ends(r) = {<<m1, m2>>} <=> counts(r, m1, m2)
    BY <1>3
  <2> HIDE DEF Ends, mods, counts, a
  <2> QED
    BY <2>1, <2>2
<1>5. IsFiniteSet(across)
  BY FS_Subset
<1>6. \A r \in across : end[r] = Ends(r) /\ \E p : Ends(r) = {p}
  <2> HIDE DEF Ends
  <2> QED
    OBVIOUS
<1> HIDE DEF Ends, mods, d, end, from, to
<1>7. IsFiniteSet(P)
  <2> DEFINE only == [r \in across |-> CHOOSE p : Ends(r) = {p}]
  <2>1. \A r \in across : Ends(r) = {only[r]}
    BY <1>6
  <2>2. P = {only[r] : r \in across}
    <3> HIDE DEF across, only
    <3> QED
      BY <2>1
  <2>3. only \in Surjection(across, P)
    <3> HIDE DEF across, P
    <3> QED
      BY <2>2 DEF Surjection
  <2> HIDE DEF P, across, only
  <2> QED
    BY <1>5, <2>3, FS_Surjection
<1>8. Valued(across, end, P) = across
  <2> HIDE DEF across
  <2> QED
    BY <1>6 DEF Valued
<1> HIDE DEF a, across
<1>9. a.count = HowMany(across, end, P)
  <2>1. \A p : {r \in across : Ends(r) = {p}} = {r \in across : end[r] = {p}}
    BY <1>6
  <2> HIDE DEF P
  <2> QED
    BY <1>1, <2>1 DEF HowMany
<1> HIDE DEF P
<1>13. a.count \in [P -> Nat]
  <2> DEFINE has(p) == Cardinality({r \in across : end[r] = {p}})
  <2>1. \A p : has(p) \in Nat
    <3> TAKE p
    <3>1. {r \in across : end[r] = {p}} \subseteq across
      OBVIOUS
    <3> QED
      BY <1>5, <3>1, FS_Subset, FS_CardinalityType
  <2>2. a.count = [p \in P |-> has(p)]
    BY <1>9 DEF HowMany
  <2> HIDE DEF has
  <2> QED
    BY <2>1, <2>2
<1>10. PICK g : IsSumFold(P, a.count, g) /\ CallsCounted(a.count) = g[P]
  BY <1>7, <1>13, CountedTotal
<1>11. g[P] = Cardinality(Valued(across, end, P))
  <2>1. IsSumFold(P, HowMany(across, end, P), g)
    BY <1>9, <1>10
  <2> QED
    BY <1>5, <1>7, <2>1, PartitionSum
<1>12. CallsCounted(a.count) = Cardinality(Counted(q, a))
  BY <1>4, <1>8, <1>10, <1>11
<1> QED
  BY <1>12 DEF a

\* The depth `deps` settles on.
LEMMA Settled ==
    ASSUME NEW dirs, IsFiniteSet(dirs), dirs \subseteq Seq(STRING), NEW depth \in Nat
    PROVE  /\ \A d1, d2 \in dirs \ {<<>>} :
                 d1 # d2 => Cardinality(ModulesAt(dirs, SettledDepth(dirs, depth)) \ {<<>>}) > 1
           /\ SettledDepth(dirs, depth) > depth =>
                 Cardinality(ModulesAt(dirs, SettledDepth(dirs, depth) - 1) \ {<<>>}) <= 1
<1> DEFINE deepest == Deepest(dirs, depth)
           width(d) == Cardinality(ModulesAt(dirs, d) \ {<<>>})
           apart == {d \in depth..deepest : width(d) > 1}
           settled == SettledDepth(dirs, depth)
<1>1. /\ deepest \in Nat /\ depth <= deepest
      /\ \A d \in dirs : Len(d) <= deepest
  <2> DEFINE len == [d \in dirs |-> Len(d)]
             lens == {len[d] : d \in dirs}
  <2>1. lens = {Len(d) : d \in dirs}
    OBVIOUS
  <2>2. lens \subseteq Nat
    OBVIOUS
  <2>3. IsFiniteSet(lens)
    <3>1. len \in Surjection(dirs, lens)
      BY DEF Surjection
    <3> HIDE DEF len, lens
    <3> QED
      BY <3>1, FS_Surjection
  <2> HIDE DEF len, lens
  <2>4. IsFiniteSet({depth} \cup lens)
    BY <2>3, FS_Singleton, FS_Union
  <2>5. {depth} \cup lens \subseteq Nat /\ {depth} \cup lens # {}
    BY <2>2
  <2>6. /\ Max({depth} \cup lens) \in {depth} \cup lens
        /\ \A y \in {depth} \cup lens : y <= Max({depth} \cup lens)
    BY <2>4, <2>5, LargestNumber
  <2>7. deepest = Max({depth} \cup lens)
    BY <2>1 DEF Deepest
  <2> QED
    BY <2>1, <2>5, <2>6, <2>7
<1>2. settled = IF apart = {} THEN deepest ELSE Min(apart)
  BY DEF SettledDepth
<1>3. ModulesAt(dirs, deepest) = dirs
  <2>1. ASSUME NEW d \in dirs PROVE ExtractModule(d, deepest) = d
    <3>1. d \in Seq(STRING) /\ Len(d) <= deepest /\ Len(d) \in Nat
      BY <1>1
    <3>2. ExtractModule(d, deepest) = SubSeq(d, 1, Len(d))
      BY <1>1, <3>1 DEF ExtractModule
    <3> QED
      BY <3>1, <3>2
  <2> QED
    BY <2>1 DEF ModulesAt
<1> HIDE DEF deepest
<1>4. \A d : width(d) \in Nat
  <2> TAKE d
  <2> DEFINE module == [x \in dirs |-> ExtractModule(x, d)]
             found == {module[x] : x \in dirs}
  <2>1. ModulesAt(dirs, d) = found
    BY DEF ModulesAt
  <2>2. IsFiniteSet(found)
    <3>1. module \in Surjection(dirs, found)
      BY DEF Surjection
    <3> HIDE DEF module, found
    <3> QED
      BY <3>1, FS_Surjection
  <2>3. found \ {<<>>} \subseteq found
    OBVIOUS
  <2> HIDE DEF found
  <2> QED
    BY <2>1, <2>2, <2>3, FS_Subset, FS_CardinalityType
<1>5. ASSUME NEW d1 \in dirs \ {<<>>}, NEW d2 \in dirs \ {<<>>}, d1 # d2
      PROVE  deepest \in apart
  <2>1. {d1, d2} \subseteq dirs \ {<<>>} /\ IsFiniteSet(dirs \ {<<>>})
    BY FS_Subset
  <2>2. Cardinality({d1, d2}) = 2
    <3> DEFINE one == {d1}
    <3>1. IsFiniteSet(one) /\ Cardinality(one) = 1 /\ d2 \notin one
      BY <1>5, FS_Singleton
    <3>2. {d1, d2} = one \cup {d2}
      OBVIOUS
    <3> HIDE DEF one
    <3>3. /\ IsFiniteSet(one \cup {d2})
          /\ Cardinality(one \cup {d2}) = IF d2 \in one THEN Cardinality(one) ELSE Cardinality(one) + 1
      BY <3>1, FS_AddElement, Zenon
    <3>4. Cardinality(one \cup {d2}) = Cardinality(one) + 1
      BY <3>1, <3>3, Zenon
    <3>5. Cardinality(one \cup {d2}) = 2
      BY <3>1, <3>4
    <3> QED
      BY <3>2, <3>5, Zenon
  <2>3. Cardinality({d1, d2}) <= Cardinality(dirs \ {<<>>})
    BY <2>1, FS_Subset
  <2>4. width(deepest) > 1
    BY <1>3, <1>4, <2>2, <2>3
  <2> HIDE DEF width
  <2> QED
    BY <1>1, <2>4
<1> HIDE DEF width
<1>6. ASSUME apart # {} PROVE settled \in apart /\ \A d \in apart : settled <= d
  <2>1. apart \subseteq Nat
    BY <1>1
  <2>2. \E m \in apart : \A k \in apart : m <= k
    <3> HIDE DEF apart
    <3> QED
      BY <1>6, <2>1, LeastNumber
  <2> HIDE DEF apart
  <2> QED
    BY <1>2, <1>6, <2>2 DEF Min
<1>7. ASSUME NEW d1 \in dirs \ {<<>>}, NEW d2 \in dirs \ {<<>>}, d1 # d2
      PROVE  width(settled) > 1
  BY <1>5, <1>6, <1>7
<1>8. ASSUME settled > depth PROVE width(settled - 1) <= 1
  <2>1. settled \in depth..deepest
    BY <1>1, <1>2, <1>6
  <2>2. settled - 1 \in depth..deepest /\ ~(settled <= settled - 1)
    BY <1>1, <1>8, <2>1
  <2>3. settled - 1 \notin apart
    <3> HIDE DEF apart, settled
    <3> QED
      BY <1>6, <2>2
  <2>4. ~(width(settled - 1) > 1)
    BY <2>2, <2>3
  <2> HIDE DEF settled
  <2> QED
    BY <1>4, <2>4
<1> QED
  BY <1>7, <1>8 DEF width

\* For all layouts, `deps` settles on the first depth that tells two modules
\* apart and counts every call between two modules once.
THEOREM StructureIsFound == Spec => []DepsFindsStructure
<1>1. AnswersInv => DepsFindsStructure
  <2> SUFFICES ASSUME AnswersInv, Answered("deps") PROVE DepsFindsStructure
    BY DEF DepsFindsStructure
  <2> DEFINE q == question
             dirs == {q.dir[e] : e \in DOMAIN q.dir}
             d == SettledDepth(dirs, q.depth)
  <2>1. q \in Layouts /\ answer = Deps(q.dir, q.inside, q.rels, q.depth)
    BY DEF AnswersInv, AnalysisAsked, ReviewAsked, PilotAsked, Answered
  <2> HIDE DEF q
  <2>2. /\ IsFiniteSet(DOMAIN q.dir) /\ \A e \in DOMAIN q.dir : q.dir[e] \in Seq(STRING)
        /\ IsFiniteSet(q.rels) /\ \A r \in q.rels : r[3] \in BOOLEAN
        /\ q.depth \in Nat
    <3>1. IsLayout(q)
      BY <2>1, AnalysesAssumption
    <3> QED
      BY <3>1 DEF IsLayout
  <2>3. IsFiniteSet(dirs) /\ dirs \subseteq Seq(STRING)
    <3> DEFINE at == [e \in DOMAIN q.dir |-> q.dir[e]]
    <3>1. at \in Surjection(DOMAIN q.dir, dirs)
      BY DEF Surjection
    <3>2. dirs \subseteq Seq(STRING)
      BY <2>2
    <3> HIDE DEF at, dirs
    <3> QED
      BY <2>2, <3>1, <3>2, FS_Surjection
  <2>4. answer.modules = ModulesAt(dirs, d) /\ answer.depth = d
    BY <2>1 DEF Deps
  <2>5. CallsCounted(answer.count) = Cardinality(Counted(q, answer))
    BY <2>1, <2>2, EachCountedOnce
  <2>6. /\ \A d1, d2 \in dirs \ {<<>>} : d1 # d2 => Cardinality(ModulesAt(dirs, d) \ {<<>>}) > 1
        /\ d > q.depth => Cardinality(ModulesAt(dirs, d - 1) \ {<<>>}) <= 1
    <3> HIDE DEF dirs
    <3> QED
      BY <2>2, <2>3, Settled DEF d
  <2>7. ModulesAt(dirs, d - 1) = {ExtractModule(x, answer.depth - 1) : x \in dirs}
    BY <2>4 DEF ModulesAt
  <2> HIDE DEF d
  <2> QED
    BY <2>4, <2>5, <2>6, <2>7 DEF DepsFindsStructure, Counted, q, dirs
<1> QED
  BY <1>1, Answers, PTL

-----------------------------------------------------------------------------
(* topology: degrees, in two implementations.                              *)

\* The sums of topology.
LEMMA DegreeSums ==
    ASSUME NEW edges, IsFiniteSet(edges), NEW S, IsFiniteSet(S)
    PROVE  /\ InDegrees(edges, S) \in Nat /\ (S = {} => InDegrees(edges, S) = 0)
           /\ OutDegrees(edges, S) \in Nat /\ (S = {} => OutDegrees(edges, S) = 0)
           /\ \A x : InDegree(edges, x) \in Nat /\ OutDegree(edges, x) \in Nat
<1>1. \A x : InDegree(edges, x) \in Nat /\ OutDegree(edges, x) \in Nat
  <2> TAKE x
  <2>1. {e \in edges : e[2] = x} \in SUBSET edges /\ {e \in edges : e[1] = x} \in SUBSET edges
    OBVIOUS
  <2> QED
    BY <2>1, FS_Subset, FS_CardinalityType DEF InDegree, OutDegree
<1> DEFINE ins == [x \in S |-> InDegree(edges, x)]
           outs == [x \in S |-> OutDegree(edges, x)]
           InFold(g) == g = [s \in SUBSET S |-> IF s = {} THEN 0
                                ELSE LET x == CHOOSE y \in s : TRUE IN InDegree(edges, x) + g[s \ {x}]]
           OutFold(g) == g = [s \in SUBSET S |-> IF s = {} THEN 0
                                ELSE LET x == CHOOSE y \in s : TRUE IN OutDegree(edges, x) + g[s \ {x}]]
<1>2. ins \in [S -> Nat] /\ outs \in [S -> Nat]
  BY <1>1
<1>3. \A s \in SUBSET S : s # {} => (CHOOSE x \in s : TRUE) \in S
  OBVIOUS
<1>4. \A g : InFold(g) <=> IsSumFold(S, ins, g)
  BY <1>3 DEF IsSumFold
<1>5. \A g : OutFold(g) <=> IsSumFold(S, outs, g)
  BY <1>3 DEF IsSumFold
<1> DEFINE iters == CHOOSE g : InFold(g)
           oters == CHOOSE g : OutFold(g)
<1>6. InDegrees(edges, S) = iters[S]
  BY DEF InDegrees, MapThenSumSet, MapThenFoldSet
<1>7. OutDegrees(edges, S) = oters[S]
  BY DEF OutDegrees, MapThenSumSet, MapThenFoldSet
<1> HIDE DEF InFold, OutFold, ins, outs
<1>8. InFold(iters) /\ OutFold(oters)
  BY <1>2, <1>4, <1>5, SumFold
<1> HIDE DEF iters, oters
<1>9. /\ iters[S] \in Nat /\ (S = {} => iters[S] = 0)
      /\ oters[S] \in Nat /\ (S = {} => oters[S] = 0)
  BY <1>2, <1>4, <1>5, <1>8, SumFold
<1> QED
  BY <1>1, <1>6, <1>7, <1>9

\* what FallbackAgrees says of the two answers
Agree(q, s, c) ==
    LET classes == {n \in DOMAIN q.kind : Constructors(q.kind, q.init, n) # {}}
        utilities == {n \in DOMAIN q.kind : q.kind[n] = "utility"}
    IN  /\ c.orphans \subseteq s.orphans /\ s.orphans \ c.orphans \subseteq classes
        /\ s.orphans \cap classes \subseteq
              c.orphans \cup {n \in classes : \E x \in Constructors(q.kind, q.init, n) : x \notin s.orphans}
        /\ s.hubs \ utilities \subseteq c.hubs /\ c.hubs \subseteq s.hubs \cup classes
        /\ s.gods \subseteq c.gods /\ c.gods \subseteq s.gods \cup classes

\* The two implementations of topology agree, but for what is listed.
LEMMA FallbackIsServer ==
    ASSUME NEW q, IsFiniteSet(DOMAIN q.kind), IsFiniteSet(q.edges), q.hub \in Nat, q.god \in Nat,
           "noise" \notin {q.kind[n] : n \in DOMAIN q.kind}
    PROVE  Agree(q, ServerTopology(q.kind, q.edges, q.hub, q.god),
                    ClientTopology(q.kind, q.init, q.edges, q.hub, q.god))
<1> DEFINE joined == Joined(q.edges, DOMAIN q.kind)
           ctors(n) == Constructors(q.kind, q.init, n)
           in(n) == InDegree(joined, n)
           out(n) == OutDegree(joined, n)
           s == ServerTopology(q.kind, q.edges, q.hub, q.god)
           c == ClientTopology(q.kind, q.init, q.edges, q.hub, q.god)
<1>1. IsFiniteSet(joined)
  <2>1. joined \in SUBSET q.edges
    BY DEF Joined
  <2> HIDE DEF joined
  <2> QED
    BY <2>1, FS_Subset
<1>2. \A n : ctors(n) \subseteq DOMAIN q.kind /\ IsFiniteSet(ctors(n))
  <2> TAKE n
  <2>1. ctors(n) \in SUBSET DOMAIN q.kind
    BY DEF Constructors
  <2> HIDE DEF ctors
  <2> QED
    BY <2>1, FS_Subset
<1>3. Joined(q.edges, {n \in DOMAIN q.kind : q.kind[n] # "noise"}) = joined
  <2>1. {n \in DOMAIN q.kind : q.kind[n] # "noise"} = DOMAIN q.kind
    OBVIOUS
  <2> QED
    BY <2>1
<1>4. /\ s.orphans = {n \in Reported(q.kind) : in(n) + out(n) = 0}
      /\ s.hubs = {n \in Reported(q.kind) : in(n) >= q.hub}
      /\ s.gods = {n \in Reported(q.kind) : out(n) >= q.god}
  BY DEF ServerTopology
<1>5. c.orphans = {n \in Reported(q.kind) : \A x \in {n} \cup ctors(n) : in(x) + out(x) = 0}
  BY <1>3 DEF ClientTopology
<1>6. c.hubs = {n \in Reported(q.kind) : q.kind[n] # "utility"
                                         /\ Aliased(in(n), InDegrees(joined, ctors(n))) >= q.hub}
  BY <1>3 DEF ClientTopology
<1>7. c.gods = {n \in Reported(q.kind) : Aliased(out(n), OutDegrees(joined, ctors(n))) >= q.god}
  BY <1>3 DEF ClientTopology
<1> HIDE DEF joined, ctors, s, c
<1>8. \A n : /\ in(n) \in Nat /\ out(n) \in Nat
             /\ InDegrees(joined, ctors(n)) \in Nat /\ OutDegrees(joined, ctors(n)) \in Nat
             /\ ctors(n) = {} => InDegrees(joined, ctors(n)) = 0 /\ OutDegrees(joined, ctors(n)) = 0
  BY <1>1, <1>2, DegreeSums
<1> HIDE DEF in, out
<1>9. \A n : /\ Aliased(in(n), InDegrees(joined, ctors(n))) >= in(n)
             /\ Aliased(out(n), OutDegrees(joined, ctors(n))) >= out(n)
             /\ ctors(n) = {} => /\ Aliased(in(n), InDegrees(joined, ctors(n))) = in(n)
                                 /\ Aliased(out(n), OutDegrees(joined, ctors(n))) = out(n)
             /\ Aliased(in(n), InDegrees(joined, ctors(n))) \in Nat
             /\ Aliased(out(n), OutDegrees(joined, ctors(n))) \in Nat
  BY <1>8 DEF Aliased
<1>10. \A n \in Reported(q.kind) : n \in DOMAIN q.kind
  BY DEF Reported
<1>11. c.orphans \subseteq s.orphans
  BY <1>4, <1>5
<1>12. \A n \in s.orphans : n \notin c.orphans =>
          ctors(n) # {} /\ \E x \in ctors(n) : x \notin s.orphans
  BY <1>4, <1>5
<1>13. \A n \in s.hubs : q.kind[n] # "utility" => n \in c.hubs
  <2> TAKE n \in s.hubs
  <2>1. in(n) >= q.hub /\ in(n) \in Nat /\ n \in Reported(q.kind)
    BY <1>4, <1>8
  <2>2. Aliased(in(n), InDegrees(joined, ctors(n))) >= q.hub
    BY <1>9, <2>1
  <2> QED
    BY <1>6, <2>1, <2>2
<1>14. \A n \in c.hubs : n \in s.hubs \/ ctors(n) # {}
  BY <1>4, <1>6, <1>9
<1>15. \A n \in s.gods : n \in c.gods
  <2> TAKE n \in s.gods
  <2>1. out(n) >= q.god /\ out(n) \in Nat /\ n \in Reported(q.kind)
    BY <1>4, <1>8
  <2>2. Aliased(out(n), OutDegrees(joined, ctors(n))) >= q.god
    BY <1>9, <2>1
  <2> QED
    BY <1>7, <2>1, <2>2
<1>16. \A n \in c.gods : n \in s.gods \/ ctors(n) # {}
  BY <1>4, <1>7, <1>9
<1>17. /\ \A n \in s.orphans \cup s.hubs \cup s.gods : n \in DOMAIN q.kind
       /\ \A n \in c.orphans \cup c.hubs \cup c.gods : n \in DOMAIN q.kind
  BY <1>4, <1>5, <1>6, <1>7, <1>10
<1> QED
  BY <1>11, <1>12, <1>13, <1>14, <1>15, <1>16, <1>17 DEF Agree, ctors, s, c

\* For all graphs without noise, the two implementations of `topology` agree but
\* on classes with constructors and utilities.
THEOREM TopologiesAgree == Spec => []FallbackAgrees
<1>1. AnswersInv => FallbackAgrees
  <2> SUFFICES ASSUME AnswersInv, Answered("topology"),
                      "noise" \notin {question.kind[n] : n \in DOMAIN question.kind}
               PROVE  FallbackAgrees
    BY DEF FallbackAgrees
  <2>1. /\ IsFiniteSet(DOMAIN question.kind) /\ IsFiniteSet(question.edges)
        /\ question.hub \in Nat /\ question.god \in Nat
    <3>1. IsTopology(question)
      BY AnalysesAssumption DEF AnswersInv, AnalysisAsked, ReviewAsked, PilotAsked, Answered
    <3> QED
      BY <3>1 DEF IsTopology
  <2>2. Agree(question, answer.server, answer.client)
    BY <2>1, FallbackIsServer DEF AnswersInv
  <2> QED
    BY <2>2 DEF Agree, FallbackAgrees
<1> QED
  BY <1>1, Answers, PTL

-----------------------------------------------------------------------------
(* debt: the commits of a log.                                             *)

Ids(log) == {log[h].of : h \in CommitHeaders(log)}
Ofs(log) == {log[i].of : i \in DOMAIN log}

\* what the reader has after any number of lines
Readings(log) == [order : Seq(Ids(log)), current : Seq(Ids(log)), files : SUBSET (Ids(log) \X Ofs(log))]

NothingRead == [order |-> <<>>, current |-> <<>>, files |-> {}]

\* acc is what has been read after each line
Reads(log, acc) ==
    /\ \A k \in 0..Len(log) : acc[k] \in Readings(log)
    /\ acc[0] = NothingRead
    /\ \A k \in 1..Len(log) : acc[k] = ReadLine(acc[k - 1], log[k])

\* A line read leaves a reading.
LEMMA ReadingsRead ==
    ASSUME NEW log, NEW r \in Readings(log), NEW i \in DOMAIN log,
           log[i].kind \in {"header", "odd", "file"}
    PROVE  ReadLine(r, log[i]) \in Readings(log)
<1> DEFINE line == log[i]
<1>1. r.order \in Seq(Ids(log)) /\ r.current \in Seq(Ids(log)) /\ r.files \in SUBSET (Ids(log) \X Ofs(log))
  BY DEF Readings
<1>2. line.of \in Ofs(log)
  BY DEF Ofs
<1>3. Flush(r) \in Seq(Ids(log))
  BY <1>1 DEF Flush
<1>4. CASE line.kind = "header"
  <2>1. line.of \in Ids(log)
    BY <1>4 DEF Ids, CommitHeaders
  <2>2. <<line.of>> \in Seq(Ids(log))
    BY <2>1
  <2>3. ReadLine(r, line) = [r EXCEPT !.order = Flush(r), !.current = <<line.of>>]
    BY <1>4 DEF ReadLine
  <2> QED
    BY <1>3, <2>2, <2>3 DEF Readings
<1>5. CASE line.kind = "odd"
  <2>1. ReadLine(r, line) = [r EXCEPT !.order = Flush(r)]
    BY <1>5 DEF ReadLine
  <2> QED
    BY <1>3, <2>1 DEF Readings
<1>6. CASE line.kind = "file"
  <2>1. ReadLine(r, line) = IF r.current = <<>> THEN r
                            ELSE [r EXCEPT !.files = @ \cup {<<r.current[1], line.of>>}]
    BY <1>6 DEF ReadLine
  <2>2. r.current # <<>> => r.current[1] \in Ids(log)
    BY <1>1
  <2>3. r.current # <<>> => r.files \cup {<<r.current[1], line.of>>} \in SUBSET (Ids(log) \X Ofs(log))
    BY <1>1, <1>2, <2>2
  <2> QED
    BY <2>1, <2>3 DEF Readings
<1> QED
  BY <1>4, <1>5, <1>6

\* The fold over the lines goes through them one by one.
LEMMA LinesOneByOne ==
    ASSUME NEW log, NEW T, log \in Seq(T),
           \A i \in DOMAIN log : log[i].kind \in {"header", "odd", "file"}
    PROVE  \E acc : /\ Reads(log, acc)
                    /\ ParseLog(log) = [order |-> Flush(acc[Len(log)]), files |-> acc[Len(log)].files]
<1> DEFINE n == Len(log)
           D == 1..n
           V == Readings(log)
           pick == [s \in SUBSET D |-> Max(s)]
           step == [p \in D \X V |-> ReadLine(p[2], log[p[1]])]
           Folds(g) == g = [s \in SUBSET DOMAIN log |->
                              IF s = {} THEN NothingRead
                              ELSE LET x == Max(s) IN ReadLine(g[s \ {x}], log[x])]
<1>1. n \in Nat /\ DOMAIN log = D
  OBVIOUS
<1>2. IsFiniteSet(D) /\ IsPick(D, pick)
  BY <1>1, LargestOfSegment
<1>3. step \in [D \X V -> V] /\ NothingRead \in V
  <2>1. \A i \in D : \A r \in V : ReadLine(r, log[i]) \in V
    <3> TAKE i \in D
    <3> TAKE r \in V
    <3>1. i \in DOMAIN log /\ log[i].kind \in {"header", "odd", "file"}
      BY <1>1
    <3> QED
      BY <3>1, ReadingsRead
  <2>2. NothingRead \in V
    <3>1. <<>> \in Seq(Ids(log)) /\ {} \in SUBSET (Ids(log) \X Ofs(log))
      OBVIOUS
    <3> QED
      BY <3>1 DEF NothingRead, Readings
  <2> HIDE DEF V
  <2> QED
    BY <2>1, <2>2
<1>4. PICK f \in [SUBSET D -> V] : IsFold(D, pick, step, NothingRead, f)
  <2> HIDE DEF D, V, pick, step
  <2> QED
    BY <1>2, <1>3, FoldExists
<1>5. Folds(f)
  <2>1. f = [s \in SUBSET D |-> f[s]]
    OBVIOUS
  <2>2. ASSUME NEW s \in SUBSET D, s # {}
        PROVE  f[s] = ReadLine(f[s \ {Max(s)}], log[Max(s)])
    <3>1. f[s] = step[<<pick[s], f[s \ {pick[s]}]>>]
      BY <1>4, <2>2 DEF IsFold
    <3>2. pick[s] = Max(s) /\ pick[s] \in D
      BY <1>2, <2>2 DEF IsPick
    <3>3. f[s \ {Max(s)}] \in V
      OBVIOUS
    <3> HIDE DEF pick, V, D
    <3> QED
      BY <3>1, <3>2, <3>3
  <2>3. f[{}] = NothingRead
    BY <1>4 DEF IsFold
  <2> HIDE DEF V
  <2> QED
    BY <1>1, <2>1, <2>2, <2>3
<1> DEFINE iter == CHOOSE g : Folds(g)
<1>6. Folds(iter)
  BY <1>5
<1>7. ParseLog(log) = [order |-> Flush(iter[D]), files |-> iter[D].files]
  BY <1>1 DEF ParseLog, FoldLeft, MapThenFoldSet, NothingRead
<1> HIDE DEF iter
<1> DEFINE acc == [k \in 0..n |-> iter[1..k]]
<1>8. acc[0] = NothingRead
  BY <1>1, <1>6
<1>9. ASSUME NEW k \in 1..n PROVE acc[k] = ReadLine(acc[k - 1], log[k])
  <2>1. Max(1..k) = k /\ (1..k) \ {k} = 1..k - 1
    BY <1>1, LargestOfSegment
  <2>2. 1..k \in SUBSET D /\ 1..k # {}
    BY <1>1, LargestOfSegment
  <2>3. iter[1..k] = ReadLine(iter[1..k - 1], log[k])
    BY <1>1, <1>6, <2>1, <2>2
  <2>4. k \in 0..n /\ k - 1 \in 0..n
    BY <1>1
  <2> QED
    BY <2>3, <2>4
<1>10. acc[n] = iter[D]
  BY <1>1
<1> HIDE DEF acc, V
<1>11. \A k \in 0..n : acc[k] \in V
  <2> DEFINE Fine == {k \in 0..n : acc[k] \in V}
  <2>1. 0 \in Fine
    BY <1>1, <1>3, <1>8
  <2>2. \A k \in 0..n - 1 : k \in Fine => k + 1 \in Fine
    <3> TAKE k \in 0..n - 1
    <3> HAVE k \in Fine
    <3>1. k + 1 \in 1..n /\ (k + 1) - 1 = k /\ k + 1 \in 0..n
      BY <1>1
    <3>2. acc[k + 1] = ReadLine(acc[(k + 1) - 1], log[k + 1])
      BY <1>9, <3>1
    <3>3. log[k + 1].kind \in {"header", "odd", "file"} /\ k + 1 \in DOMAIN log
      BY <1>1, <3>1
    <3>4. acc[k + 1] \in V
      BY <3>1, <3>2, <3>3, ReadingsRead DEF V
    <3> QED
      BY <3>1, <3>4
  <2> HIDE DEF Fine, n
  <2>3. \A k \in 0..n : k \in Fine
    BY <1>1, <2>1, <2>2, UpTo
  <2> QED
    BY <2>3 DEF Fine
<1> QED
  BY <1>7, <1>8, <1>9, <1>10, <1>11 DEF Reads, V

Once(order, x) ==
    /\ \E i \in DOMAIN order : order[i] = x
    /\ \A i, j \in DOMAIN order : order[i] = x /\ order[j] = x => i = j
Never(order, x) == \A i \in DOMAIN order : order[i] # x

\* What storing y changes for x.
LEMMA Stored ==
    ASSUME NEW T, NEW order \in Seq(T), NEW y \in T
    PROVE  /\ Never(order, y) => Once(order \o <<y>>, y)
           /\ \A x : x # y => /\ Once(order, x) => Once(order \o <<y>>, x)
                              /\ Never(order, x) => Never(order \o <<y>>, x)
<1> DEFINE n == Len(order)
           o == order \o <<y>>
<1>1. /\ n \in Nat /\ DOMAIN order = 1..n /\ DOMAIN o = 1..n + 1
      /\ \A i \in 1..n : o[i] = order[i]
      /\ o[n + 1] = y
  OBVIOUS
<1> HIDE DEF o, n
<1>2. \A i \in 1..n + 1 : i \in 1..n \/ i = n + 1
  BY <1>1
<1>3. n + 1 \in 1..n + 1 /\ \A i \in 1..n : i \in 1..n + 1
  BY <1>1
<1>4. Never(order, y) => Once(o, y)
  BY <1>1, <1>2, <1>3 DEF Never, Once
<1>5. \A x : x # y => (Never(order, x) => Never(o, x))
  BY <1>1, <1>2 DEF Never
<1>6. \A x : x # y => (Once(order, x) => Once(o, x))
  BY <1>1, <1>2, <1>3 DEF Once
<1> QED
  BY <1>4, <1>5, <1>6 DEF o

LastHeader(log, h, k) ==
    h \in CommitHeaders(log) /\ h <= k /\ \A i \in h + 1..k : log[i].kind # "header"

\* the commit of line h is not the last one of the first k lines
Past(log, h, k) == \E g \in CommitHeaders(log) : h < g /\ g <= k

\* its files have no path with a "|"
Plain(log, h) == \A j \in CommitLines(log, h) : log[j].kind # "odd"

\* What has been read after k lines: the commit that is being read, every file
\* of every commit, and all commits but that one, once each.
ReadUpTo(log, r, k) ==
    /\ k = 0 => r = NothingRead
    /\ k > 0 => \E h : LastHeader(log, h, k) /\ r.current = <<log[h].of>>
    /\ \A h \in CommitHeaders(log) : \A f :
          <<log[h].of, f>> \in r.files <=>
             \E j \in CommitLines(log, h) : j <= k /\ log[j].kind = "file" /\ log[j].of = f
    /\ \A h \in CommitHeaders(log) : Plain(log, h) =>
          /\ Past(log, h, k) => Once(r.order, log[h].of)
          /\ ~Past(log, h, k) => Never(r.order, log[h].of)

IsLog(log) ==
    /\ Len(log) \in Nat /\ DOMAIN log = 1..Len(log)
    /\ \A i \in DOMAIN log : log[i].kind \in {"header", "odd", "file"}
    /\ Len(log) > 0 => log[1].kind = "header"
    /\ \A h, i \in CommitHeaders(log) : log[h].of = log[i].of => h = i

\* A line more.
LEMMA OneLineMore ==
    ASSUME NEW log, IsLog(log), NEW acc, Reads(log, acc),
           NEW k \in 0..Len(log) - 1, ReadUpTo(log, acc[k], k)
    PROVE  ReadUpTo(log, acc[k + 1], k + 1)
<1> DEFINE r == acc[k]
           s == acc[k + 1]
           m == k + 1
           line == log[m]
<1>1. /\ k \in Nat /\ m \in Nat /\ m \in 1..Len(log) /\ m - 1 = k /\ m > 0 /\ m \in DOMAIN log
      /\ k \in 0..Len(log)
  BY DEF IsLog
<1>2. s = ReadLine(r, line) /\ r \in Readings(log)
  BY <1>1 DEF Reads
<1>3. line.kind \in {"header", "odd", "file"}
  BY <1>1 DEF IsLog
<1>4. /\ r.order \in Seq(Ids(log)) /\ r.current \in Seq(Ids(log))
      /\ r.files \in SUBSET (Ids(log) \X Ofs(log))
  BY <1>2 DEF Readings
<1>5. r = [order |-> r.order, current |-> r.current, files |-> r.files]
  BY <1>2 DEF Readings
<1>6. \A h \in CommitHeaders(log) : h \in Nat /\ log[h].of \in Ids(log)
  BY DEF CommitHeaders, Ids, IsLog
<1>7. \A h, i \in CommitHeaders(log) : h # i => log[h].of # log[i].of
  BY DEF IsLog
<1>8. CASE k = 0
  <2>1. line.kind = "header" /\ m = 1
    BY <1>1, <1>8 DEF IsLog
  <2>2. r.current = <<>> /\ r.order = <<>> /\ r.files = {}
    BY <1>8 DEF ReadUpTo, NothingRead
  <2>3. s = [r EXCEPT !.order = Flush(r), !.current = <<line.of>>]
    BY <1>2, <2>1 DEF ReadLine
  <2>4. s.current = <<line.of>> /\ s.order = <<>> /\ s.files = {}
    BY <1>5, <2>2, <2>3 DEF Flush
  <2>5. LastHeader(log, m, m)
    BY <1>1, <2>1 DEF LastHeader, CommitHeaders
  <2>6. \A h \in CommitHeaders(log) : ~Past(log, h, m) /\ Never(s.order, log[h].of)
    BY <1>6, <2>1, <2>4 DEF Past, Never, CommitHeaders, IsLog
  <2>7. \A h \in CommitHeaders(log) : \A j \in CommitLines(log, h) : ~(j <= m)
    BY <2>1 DEF CommitLines, CommitHeaders, IsLog
  <2> QED
    BY <1>1, <2>4, <2>5, <2>6, <2>7 DEF ReadUpTo
<1>9. CASE k > 0
  <2>1. PICK o : LastHeader(log, o, k) /\ r.current = <<log[o].of>>
    BY <1>9 DEF ReadUpTo
  <2>2. o \in CommitHeaders(log) /\ o \in Nat /\ o <= k /\ \A i \in o + 1..k : log[i].kind # "header"
    BY <1>6, <2>1 DEF LastHeader
  <2>3. r.current # <<>> /\ r.current[1] = log[o].of /\ log[o].of \in Ids(log)
    BY <1>6, <2>1, <2>2
  <2>4. \A h \in CommitHeaders(log) : h <= k => h <= o
    BY <1>6, <2>2 DEF CommitHeaders
  <2>5. Flush(r) = r.order \o <<log[o].of>>
    BY <2>1, <2>3 DEF Flush
  <2>6. \A h \in CommitHeaders(log) : h # o =>
           /\ Once(r.order, log[h].of) => Once(Flush(r), log[h].of)
           /\ Never(r.order, log[h].of) => Never(Flush(r), log[h].of)
    <3>1. \A x : x # log[o].of => /\ Once(r.order, x) => Once(Flush(r), x)
                                  /\ Never(r.order, x) => Never(Flush(r), x)
      <4> DEFINE order == r.order
                 y == log[o].of
      <4>1. order \in Seq(Ids(log)) /\ y \in Ids(log) /\ Flush(r) = order \o <<y>>
        BY <1>4, <2>3, <2>5
      <4> HIDE DEF order, y
      <4>2. \A x : x # y => /\ Once(order, x) => Once(order \o <<y>>, x)
                            /\ Never(order, x) => Never(order \o <<y>>, x)
        BY <4>1, Stored
      <4> QED
        BY <4>1, <4>2 DEF order, y
    <3> TAKE h \in CommitHeaders(log)
    <3> HAVE h # o
    <3>2. log[h].of # log[o].of
      BY <1>7, <2>2
    <3> HIDE DEF r
    <3> QED
      BY <3>1, <3>2
  <2>7. Never(r.order, log[o].of) => Once(Flush(r), log[o].of)
    BY <1>4, <2>3, <2>5, Stored
  <2>8. ~Past(log, o, k)
    BY <1>6, <2>2, <2>4 DEF Past
  <2>9. CASE line.kind = "header"
    <3>1. s = [r EXCEPT !.order = Flush(r), !.current = <<line.of>>]
      BY <1>2, <2>9 DEF ReadLine
    <3>2. s.current = <<line.of>> /\ s.order = Flush(r) /\ s.files = r.files
      BY <1>5, <3>1
    <3>3. LastHeader(log, m, m) /\ m \in CommitHeaders(log)
      BY <1>1, <2>9 DEF LastHeader, CommitHeaders
    <3>4. ASSUME NEW h \in CommitHeaders(log), NEW f
          PROVE  <<log[h].of, f>> \in s.files <=>
                    \E j \in CommitLines(log, h) : j <= m /\ log[j].kind = "file" /\ log[j].of = f
      <4>1. \A j \in CommitLines(log, h) : log[j].kind = "file" /\ j <= m => j <= k
        BY <1>1, <2>9 DEF CommitLines, IsLog
      <4>2. \A j \in CommitLines(log, h) : j <= k => j <= m
        BY <1>1 DEF CommitLines, IsLog
      <4> QED
        BY <3>2, <4>1, <4>2 DEF ReadUpTo
    <3>5. ASSUME NEW h \in CommitHeaders(log), Plain(log, h)
          PROVE  /\ Past(log, h, m) => Once(s.order, log[h].of)
                 /\ ~Past(log, h, m) => Never(s.order, log[h].of)
      <4>1. CASE h = o
        <5>1. Never(r.order, log[o].of)
          BY <2>8, <3>5, <4>1 DEF ReadUpTo
        <5>2. Past(log, o, m)
          BY <1>1, <2>2, <3>3 DEF Past
        <5> QED
          BY <2>7, <3>2, <4>1, <5>1, <5>2
      <4>2. CASE h # o
        <5>1. Past(log, h, m) <=> Past(log, h, k)
          <6>1. CASE h < o
            <7>1. o <= m
              BY <1>1, <2>2
            <7> QED
              BY <2>2, <6>1, <7>1 DEF Past
          <6>2. CASE ~(h < o)
            <7>1. h \in Nat /\ (h <= k => h <= o)
              BY <1>6, <2>4
            <7>2. h > k
              BY <1>1, <2>2, <4>2, <6>2, <7>1
            <7> QED
              BY <1>1, <1>6, <7>1, <7>2 DEF Past
          <6> QED
            BY <6>1, <6>2
        <5> QED
          BY <2>6, <3>2, <3>5, <4>2, <5>1 DEF ReadUpTo
      <4> QED
        BY <4>1, <4>2
    <3> QED
      BY <1>1, <3>2, <3>3, <3>4, <3>5 DEF ReadUpTo
  <2>10. CASE line.kind # "header"
    <3>1. LastHeader(log, o, m)
      BY <1>1, <2>2, <2>10 DEF LastHeader
    <3>2. \A h : Past(log, h, m) <=> Past(log, h, k)
      BY <1>1, <1>6, <2>10 DEF Past, CommitHeaders
    <3>3. m \in CommitLines(log, o)
      BY <1>1, <2>2, <2>10, <3>1 DEF CommitLines, LastHeader
    <3>4. \A h \in CommitHeaders(log) : m \in CommitLines(log, h) => h = o
      <4> TAKE h \in CommitHeaders(log)
      <4> HAVE m \in CommitLines(log, h)
      <4>1. h < m /\ \A i \in h + 1..m : log[i].kind # "header"
        BY DEF CommitLines
      <4>2. h <= o
        BY <1>1, <1>6, <2>4, <4>1
      <4>4. h \in Nat
        BY <1>6
      <4>3. ~(h < o)
        <5> SUFFICES ASSUME h < o PROVE FALSE
          OBVIOUS
        <5>1. o \in h + 1..m
          BY <1>1, <2>2, <4>4
        <5> QED
          BY <2>2, <4>1, <5>1 DEF CommitHeaders
      <4> QED
        BY <2>2, <4>2, <4>3, <4>4
    <3>5. \A h \in CommitHeaders(log) : \A j \in CommitLines(log, h) : j <= m <=> j <= k \/ j = m
      BY <1>1 DEF CommitLines, IsLog
    <3>6. CASE line.kind = "odd"
      <4>1. s = [r EXCEPT !.order = Flush(r)]
        BY <1>2, <3>6 DEF ReadLine
      <4>2. s.current = r.current /\ s.order = Flush(r) /\ s.files = r.files
        BY <1>5, <4>1
      <4>3. ASSUME NEW h \in CommitHeaders(log), NEW f
            PROVE  <<log[h].of, f>> \in s.files <=>
                      \E j \in CommitLines(log, h) : j <= m /\ log[j].kind = "file" /\ log[j].of = f
        <5>1. \A j \in CommitLines(log, h) : log[j].kind = "file" => (j <= m <=> j <= k)
          BY <3>5, <3>6
        <5> QED
          BY <4>2, <5>1 DEF ReadUpTo
      <4>4. ASSUME NEW h \in CommitHeaders(log), Plain(log, h)
            PROVE  /\ Past(log, h, m) => Once(s.order, log[h].of)
                   /\ ~Past(log, h, m) => Never(s.order, log[h].of)
        <5>1. h # o
          BY <3>3, <3>6, <4>4 DEF Plain
        <5> QED
          BY <2>6, <3>2, <4>2, <4>4, <5>1 DEF ReadUpTo
      <4> QED
        BY <1>1, <2>1, <3>1, <4>2, <4>3, <4>4 DEF ReadUpTo
    <3>7. CASE line.kind = "file"
      <4>1. s = [r EXCEPT !.files = @ \cup {<<log[o].of, line.of>>}]
        BY <1>2, <2>3, <3>7 DEF ReadLine
      <4>2. /\ s.current = r.current /\ s.order = r.order
            /\ s.files = r.files \cup {<<log[o].of, line.of>>}
        BY <1>5, <4>1
      <4>3. ASSUME NEW h \in CommitHeaders(log), NEW f
            PROVE  <<log[h].of, f>> \in s.files <=>
                      \E j \in CommitLines(log, h) : j <= m /\ log[j].kind = "file" /\ log[j].of = f
        <5>1. <<log[h].of, f>> \in r.files <=>
                 \E j \in CommitLines(log, h) : j <= k /\ log[j].kind = "file" /\ log[j].of = f
          BY DEF ReadUpTo
        <5>2. <<log[h].of, f>> = <<log[o].of, line.of>> <=> h = o /\ f = line.of
          BY <1>7, <2>2
        <5>3. <<log[h].of, f>> \in s.files <=>
                 <<log[h].of, f>> \in r.files \/ <<log[h].of, f>> = <<log[o].of, line.of>>
          BY <4>2
        <5>4. h = o /\ f = line.of <=> m \in CommitLines(log, h) /\ log[m].kind = "file" /\ log[m].of = f
          BY <3>3, <3>4, <3>7
        <5>5. \A j \in CommitLines(log, h) : j <= m <=> j <= k \/ j = m
          BY <3>5
        <5>6. m <= m
          BY <1>1
        <5> HIDE DEF s, r, line, m
        <5> QED
          BY <5>1, <5>2, <5>3, <5>4, <5>5, <5>6
      <4>4. ASSUME NEW h \in CommitHeaders(log), Plain(log, h)
            PROVE  /\ Past(log, h, m) => Once(s.order, log[h].of)
                   /\ ~Past(log, h, m) => Never(s.order, log[h].of)
        BY <3>2, <4>2, <4>4 DEF ReadUpTo
      <4> QED
        BY <1>1, <2>1, <3>1, <4>2, <4>3, <4>4 DEF ReadUpTo
    <3> QED
      BY <1>3, <2>10, <3>6, <3>7
  <2> QED
    BY <2>9, <2>10
<1> QED
  BY <1>1, <1>8, <1>9

\* The number of commits with a file is the file's change frequency.
LEMMA CommitsAreCounted ==
    ASSUME NEW q, IsHistory(q), NEW f,
           \A c \in q.commits : "odd" \in c.files => f \notin c.files
    PROVE  ChangeFrequency(q.log, f) = Cardinality({c \in q.commits : f \in c.files})
<1> DEFINE log == q.log
           n == Len(log)
           H == CommitHeaders(log)
           files(h) == {log[j].of : j \in CommitLines(log, h)}
           commit == [h \in H |-> [id |-> log[h].of, files |-> files(h)]]
<1>1. IsLog(log)
  BY DEF IsHistory, IsLog, CommitHeaders
<1>2. PICK acc : /\ Reads(log, acc)
                 /\ ParseLog(log) = [order |-> Flush(acc[n]), files |-> acc[n].files]
  BY LinesOneByOne DEF IsHistory
<1>3. n \in Nat /\ DOMAIN log = 1..n
  BY <1>1 DEF IsLog
<1>4. ReadUpTo(log, acc[n], n)
  <2> DEFINE Fine == {k \in 0..n : ReadUpTo(log, acc[k], k)}
  <2>1. 0 \in Fine
    <3>1. acc[0] = NothingRead
      BY <1>2 DEF Reads
    <3>2. \A h \in H : h > 0 /\ h \in Nat
      BY <1>3 DEF CommitHeaders
    <3>3. \A h \in H : \A j \in CommitLines(log, h) : ~(j <= 0)
      BY <1>3 DEF CommitLines, CommitHeaders
    <3>4. \A h \in H : ~Past(log, h, 0)
      BY <3>2 DEF Past
    <3>5. ReadUpTo(log, acc[0], 0)
      BY <3>1, <3>3, <3>4 DEF ReadUpTo, NothingRead, Never
    <3> QED
      BY <1>3, <3>5
  <2>2. \A k \in 0..n - 1 : k \in Fine => k + 1 \in Fine
    <3> TAKE k \in 0..n - 1
    <3> HAVE k \in Fine
    <3>1. ReadUpTo(log, acc[k + 1], k + 1)
      <4> HIDE DEF log
      <4> QED
        BY <1>1, <1>2, OneLineMore
    <3>2. k + 1 \in 0..n
      BY <1>3
    <3> QED
      BY <3>1, <3>2
  <2>3. \A k \in 0..n : k \in Fine
    <3> HIDE DEF Fine, n
    <3> QED
      BY <1>3, <2>1, <2>2, UpTo
  <2> QED
    BY <1>3, <2>3
<1> DEFINE r == acc[n]
           order == Flush(r)
           Here == {i \in DOMAIN order : <<order[i], f>> \in r.files}
           There == {c \in q.commits : f \in c.files}
<1>5. ChangeFrequency(log, f) = Cardinality(Here)
  BY <1>2 DEF ChangeFrequency
<1>6. r \in Readings(log)
  BY <1>2, <1>3 DEF Reads
<1>7. q.commits = {commit[h] : h \in H}
  BY DEF IsHistory
<1>8. \A h, i \in H : log[h].of = log[i].of => h = i
  BY DEF IsHistory
<1>9. ASSUME NEW h \in H, f \in files(h) PROVE Plain(log, h)
  <2>1. commit[h] \in q.commits /\ commit[h].files = files(h)
    BY <1>7
  <2>2. "odd" \notin files(h)
    BY <1>9, <2>1
  <2> QED
    BY <2>2 DEF Plain, IsHistory
<1>10. ASSUME NEW h \in H
       PROVE  <<log[h].of, f>> \in r.files <=> f \in files(h)
  <2>1. <<log[h].of, f>> \in r.files <=>
           \E j \in CommitLines(log, h) : j <= n /\ log[j].kind = "file" /\ log[j].of = f
    BY <1>4 DEF ReadUpTo
  <2>2. \A j \in CommitLines(log, h) : j <= n /\ log[j].kind \in {"odd", "file"}
    <3> TAKE j \in CommitLines(log, h)
    <3>1. /\ j \in 1..n /\ j > h /\ h \in 1..n
          /\ \A i \in h + 1..j : log[i].kind # "header"
      BY <1>3 DEF CommitLines, CommitHeaders
    <3>2. j \in h + 1..j
      BY <1>3, <3>1
    <3> QED
      BY <1>1, <1>3, <3>1, <3>2 DEF IsLog
  <2>3. f \in files(h) => \A j \in CommitLines(log, h) : log[j].kind # "odd"
    BY <1>9 DEF Plain
  <2> QED
    BY <2>1, <2>2, <2>3
<1>11. ASSUME NEW h \in H, Plain(log, h) PROVE Once(order, log[h].of)
  <2>1. n > 0 /\ h \in Nat /\ h <= n
    BY <1>3 DEF CommitHeaders
  <2>2. PICK o : LastHeader(log, o, n) /\ r.current = <<log[o].of>>
    BY <1>4, <2>1 DEF ReadUpTo
  <2>3. o \in H /\ o \in Nat /\ o <= n /\ \A i \in o + 1..n : log[i].kind # "header"
    BY <1>3, <2>2 DEF LastHeader, CommitHeaders
  <2>4. r.current # <<>> /\ order = r.order \o <<log[o].of>>
    BY <2>2 DEF Flush
  <2>5. r.order \in Seq(Ids(log)) /\ log[o].of \in Ids(log)
    BY <1>6, <2>3 DEF Readings, Ids
  <2>6. /\ Past(log, h, n) => Once(r.order, log[h].of)
        /\ ~Past(log, h, n) => Never(r.order, log[h].of)
    BY <1>4, <1>11 DEF ReadUpTo
  <2> DEFINE y == log[o].of
             had == r.order
  <2>7. had \in Seq(Ids(log)) /\ y \in Ids(log)
    BY <2>5
  <2>8. /\ Never(had, y) => Once(had \o <<y>>, y)
        /\ \A x : x # y => /\ Once(had, x) => Once(had \o <<y>>, x)
                           /\ Never(had, x) => Never(had \o <<y>>, x)
    <3> HIDE DEF had, y
    <3> QED
      BY <2>7, Stored
  <2>9. CASE h = o
    <3>1. ~Past(log, h, n)
      <4> SUFFICES ASSUME NEW g \in H, h < g, g <= n PROVE FALSE
        BY DEF Past
      <4>1. g \in o + 1..n
        BY <1>3, <2>3, <2>9 DEF CommitHeaders
      <4> QED
        BY <2>3, <4>1 DEF CommitHeaders
    <3> QED
      BY <2>4, <2>6, <2>8, <2>9, <3>1
  <2>10. CASE h # o
    <3>1. ~(o < h)
      <4> SUFFICES ASSUME o < h PROVE FALSE
        OBVIOUS
      <4>1. h \in o + 1..n
        BY <1>3, <2>1, <2>3
      <4> QED
        BY <2>3, <4>1 DEF CommitHeaders
    <3>2. h < o
      BY <2>1, <2>3, <2>10, <3>1
    <3>3. Past(log, h, n)
      BY <2>3, <3>2 DEF Past
    <3>4. log[h].of # y
      BY <1>8, <2>3, <2>10
    <3> QED
      BY <2>4, <2>6, <2>8, <3>3, <3>4
  <2> QED
    BY <2>9, <2>10
<1>12. order \in Seq(Ids(log))
  <2>1. r.order \in Seq(Ids(log)) /\ r.current \in Seq(Ids(log))
    BY <1>6 DEF Readings
  <2>2. \A a, b \in Seq(Ids(log)) : a \o b \in Seq(Ids(log))
    OBVIOUS
  <2> HIDE DEF r
  <2> QED
    BY <2>1, <2>2 DEF Flush
<1>13. \A i \in DOMAIN order : \E h \in H : order[i] = log[h].of
  BY <1>12 DEF Ids
<1> DEFINE of == [i \in Here |-> commit[CHOOSE h \in H : order[i] = log[h].of]]
<1> HIDE DEF order, r, files, H, log
<1>14. ASSUME NEW i \in Here
       PROVE  \E h \in H : order[i] = log[h].of /\ f \in files(h) /\ of[i] = commit[h]
                           /\ of[i] \in There /\ of[i].id = order[i]
  <2> DEFINE h == CHOOSE x \in H : order[i] = log[x].of
  <2>1. h \in H /\ order[i] = log[h].of
    BY <1>13
  <2>2. of[i] = commit[h]
    OBVIOUS
  <2> HIDE DEF h, of
  <2>3. f \in files(h)
    BY <1>10, <2>1
  <2>4. commit[h].id = log[h].of /\ commit[h].files = files(h) /\ commit[h] \in q.commits
    BY <1>7, <2>1
  <2> QED
    BY <2>1, <2>2, <2>3, <2>4
<1>15. of \in [Here -> There]
  <2>1. \A i \in Here : of[i] \in There
    BY <1>14
  <2>2. of = [i \in Here |-> of[i]]
    OBVIOUS
  <2> HIDE DEF of, Here, There
  <2> QED
    BY <2>1, <2>2
<1>16. ASSUME NEW i \in Here, NEW j \in Here, of[i] = of[j] PROVE i = j
  <2>1. PICK h \in H : order[i] = log[h].of /\ f \in files(h)
    BY <1>14
  <2>2. order[j] = order[i]
    <3> HIDE DEF of, Here
    <3>1. of[i].id = order[i] /\ of[j].id = order[j]
      BY <1>14
    <3> QED
      BY <1>16, <3>1
  <2>3. Once(order, log[h].of)
    BY <1>9, <1>11, <2>1
  <2> QED
    BY <2>1, <2>2, <2>3 DEF Once
<1>17. ASSUME NEW c \in There PROVE \E i \in Here : of[i] = c
  <2>1. PICK h \in H : c = commit[h]
    BY <1>7
  <2>2. f \in files(h) /\ commit[h].files = files(h)
    BY <2>1
  <2>3. PICK i \in DOMAIN order : order[i] = log[h].of
    BY <1>9, <1>11, <2>2 DEF Once
  <2>4. i \in Here
    BY <1>10, <2>2, <2>3
  <2>5. PICK g \in H : order[i] = log[g].of /\ of[i] = commit[g]
    <3> HIDE DEF of, Here, commit
    <3> QED
      BY <1>14, <2>4
  <2>6. g = h
    BY <1>8, <2>3, <2>5 DEF H, log
  <2> QED
    BY <2>1, <2>4, <2>5, <2>6
<1>18. IsFiniteSet(Here)
  <2>1. DOMAIN order = 1..Len(order) /\ Len(order) \in Nat
    BY <1>12
  <2>2. IsFiniteSet(1..Len(order)) /\ Here \subseteq 1..Len(order)
    BY <2>1, FS_Interval
  <2> HIDE DEF Here
  <2> QED
    BY <2>2, FS_Subset
<1> HIDE DEF of, Here, There
<1>19. of \in Bijection(Here, There)
  BY <1>15, <1>16, <1>17 DEF Bijection, Injection, IsInjective, Surjection
<1>20. Cardinality(There) = Cardinality(Here)
  BY <1>18, <1>19, FS_Bijection DEF ExistsBijection
<1> QED
  BY <1>5, <1>20 DEF There, log

\* For all logs, a file's change frequency is the number of commits with it,
\* unless one of them has a path with a "|".
THEOREM HistoryIsCounted == Spec => []CommitsCountedOnce
<1>1. AnswersInv => CommitsCountedOnce
  <2> SUFFICES ASSUME AnswersInv, Answered("git-metrics") PROVE CommitsCountedOnce
    BY DEF CommitsCountedOnce
  <2>1. IsHistory(question)
    BY AnalysesAssumption DEF AnswersInv, AnalysisAsked, ReviewAsked, PilotAsked, Answered
  <2>2. answer = [f \in question.paths |-> ChangeFrequency(question.log, f)]
    BY DEF AnswersInv
  <2> SUFFICES ASSUME NEW f \in question.paths,
                      \A c \in question.commits : "odd" \in c.files => f \notin c.files
               PROVE  ChangeFrequency(question.log, f) = Cardinality({c \in question.commits : f \in c.files})
    BY <2>2 DEF CommitsCountedOnce
  <2> QED
    BY <2>1, CommitsAreCounted
<1> QED
  BY <1>1, Answers, PTL

-----------------------------------------------------------------------------
(* The debt score.                                                         *)

\* What is missing is no number.
LEMMA DebtsMeasured == Missing \notin Int /\ Debts \subseteq DebtRecord
  BY AnalysesAssumption

\* what the score is computed from, in debts and in what is worse than one
Measured(d) ==
    /\ d.p0 \in Int /\ d.p1 \in Int /\ d.p2 \in Int
    /\ d.maintainability \in Int \cup {Missing}
    /\ d.git \in {"off", "failed", "measured"}
    /\ d.hotspots \in Int /\ d.silos \in Int /\ d.orphans \in Int /\ d.entities \in Int
    /\ d.hubs \in Int /\ d.gods \in Int /\ d.fans \in Int
    /\ d.placeholders \in Int /\ d.density \in Int

\* A debt that is worse in some of what a dimension looks at, and no better
\* in the rest, does not score better in it.
AtLeastAsBad(w, d) ==
    /\ w.p0 * 10 + w.p1 * 5 + w.p2 >= d.p0 * 10 + d.p1 * 5 + d.p2
    /\ w.git = d.git /\ w.hotspots >= d.hotspots /\ w.silos >= d.silos
    /\ d.orphans * 5 > d.entities => w.orphans * 5 > w.entities
    /\ d.orphans * 10 > d.entities => w.orphans * 10 > w.entities
    /\ w.hubs >= d.hubs /\ 5 * w.gods + 3 * w.fans >= 5 * d.gods + 3 * d.fans
    /\ w.placeholders >= d.placeholders /\ w.density >= d.density
    /\ d.maintainability = Missing <=> w.maintainability = Missing
    /\ d.maintainability # Missing => w.maintainability <= d.maintainability

\* One step worse is at least as bad in every measure.
LEMMA WorseIsBad ==
    ASSUME NEW d \in DebtRecord, NEW w \in Worse(d)
    PROVE  Measured(d) /\ Measured(w) /\ AtLeastAsBad(w, d)
<1>1. Measured(d)
  BY DEF DebtRecord, Measured
<1>2. CASE w = [d EXCEPT !.p0 = @ + 1]
  BY <1>1, <1>2, DebtsMeasured DEF DebtRecord, Measured, AtLeastAsBad
<1>3. CASE w = [d EXCEPT !.p1 = @ + 1]
  BY <1>1, <1>3, DebtsMeasured DEF DebtRecord, Measured, AtLeastAsBad
<1>4. CASE w = [d EXCEPT !.p2 = @ + 1]
  BY <1>1, <1>4, DebtsMeasured DEF DebtRecord, Measured, AtLeastAsBad
<1>5. CASE w = [d EXCEPT !.p1 = @ - 1, !.p0 = @ + 1]
  BY <1>1, <1>5, DebtsMeasured DEF DebtRecord, Measured, AtLeastAsBad
<1>6. CASE w = [d EXCEPT !.hotspots = @ + 1]
  BY <1>1, <1>6, DebtsMeasured DEF DebtRecord, Measured, AtLeastAsBad
<1>7. CASE w = [d EXCEPT !.silos = @ + 1]
  BY <1>1, <1>7, DebtsMeasured DEF DebtRecord, Measured, AtLeastAsBad
<1>8. CASE w = [d EXCEPT !.orphans = @ + 1]
  BY <1>1, <1>8, DebtsMeasured DEF DebtRecord, Measured, AtLeastAsBad
<1>9. CASE w = [d EXCEPT !.orphans = @ + 1, !.entities = @ + 1]
  BY <1>1, <1>9, DebtsMeasured DEF DebtRecord, Measured, AtLeastAsBad
<1>10. CASE w = [d EXCEPT !.hubs = @ + 1]
  BY <1>1, <1>10, DebtsMeasured DEF DebtRecord, Measured, AtLeastAsBad
<1>11. CASE w = [d EXCEPT !.fans = @ + 1]
  BY <1>1, <1>11, DebtsMeasured DEF DebtRecord, Measured, AtLeastAsBad
<1>12. CASE w = [d EXCEPT !.fans = @ - 1, !.gods = @ + 1]
  BY <1>1, <1>12, DebtsMeasured DEF DebtRecord, Measured, AtLeastAsBad
<1>13. CASE w = [d EXCEPT !.placeholders = @ + 1]
  BY <1>1, <1>13, DebtsMeasured DEF DebtRecord, Measured, AtLeastAsBad
<1>14. CASE w = [d EXCEPT !.density = @ + 1]
  BY <1>1, <1>14, DebtsMeasured DEF DebtRecord, Measured, AtLeastAsBad
<1>15. CASE d.maintainability \notin {0, Missing} /\ w = [d EXCEPT !.maintainability = @ - 1]
  BY <1>1, <1>15, DebtsMeasured DEF DebtRecord, Measured, AtLeastAsBad
<1> QED
  BY <1>2, <1>3, <1>4, <1>5, <1>6, <1>7, <1>8, <1>9, <1>10, <1>11, <1>12, <1>13, <1>14, <1>15 DEF Worse

\* At least as bad in every measure, no dimension scores better.
LEMMA DimensionsFollow ==
    ASSUME NEW d, NEW w, Measured(d), Measured(w), AtLeastAsBad(w, d)
    PROVE  /\ QualityScore(w) \in Int /\ QualityScore(d) \in Int
           /\ QualityScore(w) <= QualityScore(d)
           /\ Structural(w) \in Int /\ Structural(d) \in Int
           /\ Structural(w) <= Structural(d)
<1>1. /\ QualityScore(w) \in Int /\ QualityScore(d) \in Int
      /\ QualityScore(w) <= QualityScore(d)
  BY DEF QualityScore, AtLeast0, Measured, AtLeastAsBad
<1>2. GitScore(w) \in Int /\ GitScore(d) \in Int /\ GitScore(w) <= GitScore(d)
  BY DEF GitScore, AtLeast0, AtMost, Measured, AtLeastAsBad
<1>3. TopologyScore(w) \in Int /\ TopologyScore(d) \in Int /\ TopologyScore(w) <= TopologyScore(d)
  <2> DEFINE orphan(x) == IF x.orphans * 5 > x.entities THEN 25
                          ELSE IF x.orphans * 10 > x.entities THEN 15 ELSE 0
             hub(x) == AtMost(5 * x.hubs, 20)
             god(x) == AtMost(5 * x.gods + 3 * x.fans, 25)
             hole(x) == AtMost(5 * x.placeholders, 15)
  <2>1. orphan(w) \in Int /\ orphan(d) \in Int /\ orphan(w) >= orphan(d)
    BY DEF Measured, AtLeastAsBad
  <2>2. hub(w) \in Int /\ hub(d) \in Int /\ hub(w) >= hub(d)
    BY DEF AtMost, Measured, AtLeastAsBad
  <2>3. god(w) \in Int /\ god(d) \in Int /\ god(w) >= god(d)
    BY DEF AtMost, Measured, AtLeastAsBad
  <2>4. hole(w) \in Int /\ hole(d) \in Int /\ hole(w) >= hole(d)
    BY DEF AtMost, Measured, AtLeastAsBad
  <2>5. /\ DensityPenalty(w) \in Int /\ DensityPenalty(d) \in Int
        /\ DensityPenalty(w) >= DensityPenalty(d)
    BY DEF DensityPenalty, Measured, AtLeastAsBad
  <2>6. /\ TopologyScore(w) = AtLeast0(100 - (orphan(w) + hub(w) + god(w) + hole(w) + DensityPenalty(w)))
        /\ TopologyScore(d) = AtLeast0(100 - (orphan(d) + hub(d) + god(d) + hole(d) + DensityPenalty(d)))
    BY DEF TopologyScore
  <2> HIDE DEF orphan, hub, god, hole
  <2> QED
    BY <2>1, <2>2, <2>3, <2>4, <2>5, <2>6 DEF AtLeast0
<1>4. Structural(w) \in Int /\ Structural(d) \in Int /\ Structural(w) <= Structural(d)
  <2>1. w.git = d.git
    BY DEF AtLeastAsBad
  <2>2. CASE d.git = "off"
    <3>1. Structural(d) = TopologyScore(d) /\ Structural(w) = TopologyScore(w)
      BY <2>1, <2>2, Zenon DEF Structural
    <3> QED
      BY <3>1, <1>3
  <2>3. CASE d.git = "failed"
    <3>1. Structural(d) = 100 /\ Structural(w) = 100
      BY <2>1, <2>3, Zenon DEF Structural
    <3> QED
      BY <3>1
  <2>4. CASE d.git = "measured"
    <3>1. Structural(d) = GitScore(d) /\ Structural(w) = GitScore(w)
      BY <2>1, <2>4, Zenon DEF Structural
    <3> QED
      BY <3>1, <1>2
  <2> QED
    BY <2>2, <2>3, <2>4 DEF Measured
<1> QED
  BY <1>1, <1>4

\* For all debts, one step worse in any measure never raises the score.
THEOREM ScoreIsMonotone == Spec => []WorseNeverScoresBetter
<1>1. AnswersInv => WorseNeverScoresBetter
  <2> SUFFICES ASSUME AnswersInv, Answered("debt"), NEW w \in Worse(question)
               PROVE  TotalScore(w) <= TotalScore(question)
    BY DEF WorseNeverScoresBetter, AnswersInv
  <2>1. question \in DebtRecord
    BY DebtsMeasured DEF AnswersInv, AnalysisAsked, ReviewAsked, PilotAsked, Answered
  <2>2. Measured(question) /\ Measured(w) /\ AtLeastAsBad(w, question)
    BY <2>1, WorseIsBad
  <2>3. /\ QualityScore(w) \in Int /\ QualityScore(question) \in Int
        /\ QualityScore(w) <= QualityScore(question)
        /\ Structural(w) \in Int /\ Structural(question) \in Int
        /\ Structural(w) <= Structural(question)
    BY <2>2, DimensionsFollow
  <2> QED
    BY <2>2, <2>3, DebtsMeasured DEF TotalScore, Measured, AtLeastAsBad
<1> QED
  BY <1>1, Answers, PTL
=============================================================================
