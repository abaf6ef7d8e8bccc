------------------------------ MODULE Analyses -------------------------------
(***************************************************************************)
(* The commands that only read the store or git: what they may be asked,   *)
(* and what their answers promise, against definitions of what is asked    *)
(* that do not follow the code.  The answers are computed by BranchDiff,   *)
(* CodegraphReader, ImpactAnalysis, GraphQueries and DebtHistory; the      *)
(* actions are in ReadingCommands.                                         *)
(***************************************************************************)
EXTENDS Answering, BranchDiff, CodegraphReader, ImpactAnalysis, GraphQueries, DebtHistory

CONSTANTS
    Snapshots,   \* what a workspace may hold
    Databases,   \* what codegraph's database may hold
    Impacts, Edits, Walks, Layouts, Topologies, Logs, Debts   \* questions

DebtRecord ==
    [p0 : Nat, p1 : Nat, p2 : Nat, maintainability : (0..100) \cup {Missing},
     git : {"off", "failed", "measured"}, hotspots : Nat, silos : Nat, orphans : Nat,
     entities : Nat, hubs : Nat, gods : Nat, fans : Nat, placeholders : Nat, density : Nat]

IsImpact(q) ==
    /\ q.depth \in Nat \ {0} /\ q.changed \in Seq(Symbols) /\ q.ratio \in {NoRatio} \cup Nat
    /\ q.backend \in {"codeindex", "codegraph"} /\ q.nodes \subseteq Symbols
    /\ IsFiniteSet(q.calls) /\ \A c \in q.calls : {c[1], c[2]} \subseteq q.nodes
    /\ IsFiniteSet(q.unresolved) /\ \A c \in q.unresolved : c[1] \in q.nodes

\* each symbol has one block of lines
InBlocks(owner) ==
    \A i, j, k \in DOMAIN owner : i < j /\ j < k /\ owner[i] = owner[k] => owner[j] = owner[i]

IsEdit(q) ==
    /\ q.script \in Seq({"=", "-", "+"})
    /\ q.owner \in [DOMAIN q.script -> Symbols] /\ InBlocks(q.owner)
    /\ q.tree \in Seq(Symbols) /\ InBlocks(q.tree)
    /\ q.type \in {"added", "deleted", "modified"}
    /\ q.type = "added" => LinesWith(q.script, "+") = DOMAIN q.script

IsLayout(q) ==
    /\ IsFiniteSet(DOMAIN q.dir) /\ \A e \in DOMAIN q.dir : q.dir[e] \in Seq(STRING)
    /\ IsFiniteSet(q.rels) /\ \A r \in q.rels : r[3] \in BOOLEAN
    /\ q.depth \in Nat

IsTopology(q) ==
    /\ IsFiniteSet(DOMAIN q.kind) /\ IsFiniteSet(q.edges)
    /\ q.hub \in Nat /\ q.god \in Nat

CommitHeaders(log) == {i \in DOMAIN log : log[i].kind = "header"}

\* the lines of the commit whose header is line h
CommitLines(log, h) ==
    {j \in DOMAIN log : j > h /\ \A i \in h + 1..j : log[i].kind # "header"}

\* git prints a commit once, its files behind it
IsHistory(q) ==
    /\ q.log \in Seq(ToSet(q.log))
    /\ \A i \in DOMAIN q.log : q.log[i].kind \in {"header", "odd", "file"}
    /\ q.log # <<>> => q.log[1].kind = "header"
    /\ \A h, i \in CommitHeaders(q.log) : q.log[h].of = q.log[i].of => h = i
    /\ \A h \in CommitHeaders(q.log) : \A j \in CommitLines(q.log, h) :
          q.log[j].kind = "odd" => q.log[j].of = "odd"
    /\ q.commits = {[id |-> q.log[h].of, files |-> {q.log[j].of : j \in CommitLines(q.log, h)}] :
                       h \in CommitHeaders(q.log)}

ASSUME AnalysesAssumption ==
    /\ NoContentHash = NoHash
    /\ LowThreshold \in Nat /\ HighThreshold \in Nat /\ LowThreshold < HighThreshold
    /\ \A q \in Impacts : IsImpact(q)
    /\ \A q \in Edits : IsEdit(q)
    /\ \A q \in Walks : q.depth \in Nat
    /\ \A q \in Layouts : IsLayout(q)
    /\ \A q \in Topologies : IsTopology(q)
    /\ \A q \in Logs : IsHistory(q)
    /\ \A db \in Databases : IsFiniteSet(DOMAIN db.nodes)
    /\ Missing \notin Int /\ Debts \subseteq DebtRecord
-----------------------------------------------------------------------------
(* Branch diff and compare.                                                *)

\* Every caller that survives the loss of its callee is reported as a broken
\* chain, whether head still has a dangling row for the call or none; and
\* every removed edge is accounted for, as a broken chain or by its removed
\* source, and once under the module its source had where the edge was.
BrokenChainsComplete ==
    Answered("branch-diff") =>
        LET b == question[1]
            h == question[2]
        IN  /\ \A e \in b.rels : /\ {e[1], e[2]} \subseteq Names(b)
                                 /\ e[1] \in Names(h) /\ e[2] \notin Names(h)
                                 => e \in answer.broken_chains
            /\ \A e \in answer.edges_removed :
                  /\ e \in answer.broken_chains <=> e[1] \notin answer.entities_removed
                  /\ \E m \in DOMAIN answer.module_delta :
                        /\ m = b.ents[e[1]].mod
                        /\ e \in answer.module_delta[m].removed
            /\ \A e \in answer.edges_added :
                  /\ e \in answer.new_chains <=> e[1] \notin answer.entities_added
                  /\ h.ents[e[1]].mod \in DOMAIN answer.module_delta
                  /\ e \in answer.module_delta[h.ents[e[1]].mod].added

\* A report that shows no difference and says its content comparison is
\* available is of two workspaces with the same entities, the same content
\* and the same edges between entities: nothing changes silently, "not
\* compared" is never shown as "unchanged".
EmptyDiffMeansSame ==
    Answered("branch-diff") =>
        LET b == question[1]
            h == question[2]
        IN  /\ answer.entities_added = {} /\ answer.entities_removed = {}
            /\ answer.edges_added = {} /\ answer.edges_removed = {}
            /\ answer.content_status = "available" /\ answer.content_changed = {}
            => /\ Names(b) = Names(h)
               /\ \A n \in Names(b) : b.ents[n].hash = h.ents[n].hash
               /\ Resolvable(b) = Resolvable(h)

\* `compare` looks at rows, `branch-diff` at edges between entities.  The
\* chains only the latter sees are those whose row head has kept although
\* the callee is gone.
CompareMissesOnlyDangling ==
    Answered("compare") =>
        \A e \in Broken(question[1], question[2]) :
            \/ /\ e[1] \in DOMAIN answer.relation_changes
               /\ e \in answer.relation_changes[e[1]].removed
            \/ e \in question[2].rels /\ e[2] \in answer.only_in_ws1

\* the nodes both databases have, as they were
Kept(d1, d2) == {n \in Ingested(d1) \cap Ingested(d2) : d1.nodes[n] = d2.nodes[n]}

Unique(db, n) == \A m \in Ingested(db) \ {n} : db.nodes[m].qname # db.nodes[n].qname

\* n alone has its qualified name in one of the databases only
HomonymCame(d1, d2, n) == Unique(d1, n) # Unique(d2, n)

\* Names of a codegraph workspace depend on the whole database: a new node of
\* the same qualified name, in any file, renames the old one.  Only then is a
\* call between two untouched nodes reported as broken.
FalseBreaksAreHomonyms ==
    Answered("codegraph-diff") =>
        LET d1 == question[1]
            d2 == question[2]
        IN  \A e \in Mapped(d1) \cap Mapped(d2) :
                /\ {e[1], e[2]} \subseteq Kept(d1, d2)
                /\ Key(d1, e) \in answer.broken_chains
                => \E n \in {e[1], e[2]} : HomonymCame(d1, d2, n)

-----------------------------------------------------------------------------
(* Impact.                                                                 *)

\* the nodes that call one of a set, and those that call these, by a relation
Calling(calls, called) == {c[1] : c \in {d \in calls : d[2] \in called}}
CallingTwice(calls, called) ==
    Calling(calls, called) \cup Calling(calls, Calling(calls, called))

Entities(q, nodes) == {Id(q, s) : s \in nodes}

Changed(q) == ToSet(q.changed)

\* the calls there may be: the resolved ones, and the unresolved ones whose
\* text is what a symbol is stored or looked up as
Possible(q) ==
    q.calls \cup UNION {{<<c[1], s>> : s \in {t \in Symbols : c[2] \in {Id(q, t), QueryName(q, t)}}} :
                           c \in q.unresolved}

\* what the changed symbols may be taken for: themselves, and outside .py
\* files, on a codegraph workspace, the one node of the name they parse under
Meant(q) ==
    Changed(q) \cup {t \in q.nodes :
        /\ q.backend = "codegraph" /\ Alone(q, t)
        /\ \E s \in Changed(q) \ q.python : q.parsed[s] = q.qname[t]}

\* _qualify_symbol_name knows how codeindex names symbols of .py files, and
\* elsewhere has the name of a codegraph node without namesakes
Nameable(q, s) ==
    IF q.backend = "codeindex" THEN s \in q.python
    ELSE s \notin q.python /\ Alone(q, s) /\ q.parsed[s] = q.qname[s]

\* the k-th changed symbol is looked up under its entity's name, successfully
LookedUp(q, k) == Nameable(q, q.changed[k]) /\ OfSymbol(q, k) \notin q.failing

\* no changed symbol is one the backend can be asked for
OtherLanguage(q) ==
    IF q.backend = "codeindex" THEN Changed(q) \cap q.python = {} ELSE Changed(q) \subseteq q.python

\* `impact` reports direct callers and their callers only, however large
\* --depth, of what the changed symbols may be taken for; every caller of a
\* changed symbol that was looked up under its entity's name, in one of its
\* two lists; and, if no lookup failed, all of two calls' distance, unless a
\* caller of one changed symbol was first met as an indirect caller of an
\* earlier one: its own callers are then not looked up.  Of .py symbols on a
\* codegraph workspace and others on a codeindex one resolved calls have no
\* callers at all.
CallersComplete ==
    Answered("impact") =>
        LET q == question
            found == answer.direct \cup answer.indirect
            callers == Entities(q, Calling(q.calls, Changed(q)))
        IN  /\ answer.direct \subseteq Entities(q, Calling(Possible(q), Meant(q)))
            /\ found \subseteq Entities(q, CallingTwice(Possible(q), Meant(q)))
            /\ \A k \in DOMAIN q.changed : LookedUp(q, k) =>
                  Entities(q, Calling(q.calls, {q.changed[k]})) \subseteq found
            /\ /\ \A s \in Changed(q) : Nameable(q, s)
               /\ q.failing = {} /\ q.depth > 1 /\ callers \cap answer.indirect = {}
               => Entities(q, CallingTwice(q.calls, Changed(q))) \subseteq found
            /\ OtherLanguage(q) /\ q.unresolved = {} => found = {}

\* "low risk" is never said of a core change, nor, in a store known to have
\* most of its edges unresolved, where no caller was found or nearly all edges
\* are unresolved.  That the callers are few indeed it only says if every
\* changed symbol was looked up under its entity's name: a failed read of the
\* relations, or a name no entity has, passes for no callers.
LowMeansFewCallers ==
    Answered("impact") /\ answer.risk = "low" =>
        LET q == question
        IN  /\ Changed(q) \cap CoreSymbols = {}
            /\ \/ q.ratio = NoRatio \/ q.ratio >= 5
               \/ q.ratio >= 1 /\ answer.direct \cup answer.indirect # {}
            /\ (\A k \in DOMAIN q.changed : LookedUp(q, k)) =>
                  Cardinality(Entities(q, Calling(q.calls, Changed(q)))) < LowThreshold

\* how far the lines in front of line i have moved
Shift(script, i) == Count(script, i - 1, {"+"}) - Count(script, i - 1, {"-"})

\* the checkout has the lines of the diff's new side where they were then
InPlace(q) ==
    \A i \in DOMAIN q.script : q.script[i] # "-" =>
        LET n == NewLine(q.script, i)
        IN  n \in DOMAIN q.tree /\ q.tree[n] = q.owner[i]

\* Symbols are looked for in the file that is checked out, whichever commit
\* or range was asked about.  If it was parsed and has the new side's lines in
\* place, every surviving symbol that got a line is reported, and without
\* deletions no other, but those added since to a new file.  Deleted lines have
\* numbers of the old file: a symbol that only lost lines is reported if one of
\* them was in front of a line it kept and nothing had moved there.  Where the
\* file is gone or was not parsed, nothing is reported as changed.
AttributionIsExact ==
    Answered("changed") =>
        LET q == question
            gained == {q.owner[i] : i \in LinesWith(q.script, "+")}
            lost == LinesWith(q.script, "-")
        IN  /\ q.parse # "parsed" => answer = {}
            /\ q.parse = "parsed" /\ InPlace(q) /\ q.type # "deleted" =>
                  /\ gained \subseteq answer
                  /\ lost = {} /\ (q.type = "modified" \/ Len(q.tree) = Len(q.script))
                     => answer = gained
                  /\ \A i \in lost :
                        /\ Shift(q.script, i) = 0
                        /\ \E j \in LinesWith(q.script, "=") : j > i /\ q.owner[j] = q.owner[i]
                        => q.owner[i] \in answer

-----------------------------------------------------------------------------
(* Traversal, modules, topology.                                           *)

\* there is a walk of at most depth edges
Reaches(edges, n, m, depth) ==
    \E len \in 1..depth : \E w \in [0..len -> {n, m} \cup {e[1] : e \in edges}] :
        /\ w[0] = n /\ w[len] = m
        /\ \A i \in 1..len : \E e \in edges : e[1] = w[i - 1] /\ e[2] = w[i]

\* `graph` answers with exactly the entities within --depth calls over edges
\* it may follow, in both directions, and for a class also over the calls of
\* its methods; a cycle neither hides one nor lists the start.
TraversalIsReach ==
    Answered("graph") =>
        LET q == question
            out == {e \in q.edges : e[3] \/ q.include_unresolved}
            nodes == UNION {{e[1], e[2]} : e \in q.edges}
        IN  /\ answer.callers = {n \in nodes \ {q.start} : Reaches(out, n, q.start, q.depth)}
            /\ answer.callees = {n \in nodes : \E s \in {q.start} \cup q.methods :
                                                  n # s /\ Reaches(out, s, n, q.depth)}

\* the one module at depth d a name may stand for
StandsFor(q, x, m, d) ==
    LET own == {e \in DOMAIN q.dir : e = x}
        within == {e \in DOMAIN q.dir : <<e, x>> \in q.inside}
    IN  \/ own # {} /\ ExtractModule(q.dir[x], d) = m
        \/ /\ own = {} /\ within # {}
           /\ \A e \in within : ExtractModule(q.dir[e], d) = m

CallsCounted(count) == MapThenSumSet(LAMBDA p : count[p], DOMAIN count)

\* `deps` shows structure whenever there is some: entities of two different
\* directories below the root never end in one module, at the smallest depth
\* that tells any two apart; each call between its modules is counted under
\* one pair, and each resolved import of module ids that lie in one module.
DepsFindsStructure ==
    Answered("deps") =>
        LET q == question
            dirs == {q.dir[e] : e \in DOMAIN q.dir}
            real == answer.modules \ {<<>>}
            counted == {r \in q.rels :
                \E m1, m2 \in answer.modules :
                    /\ m1 # m2
                    /\ r[3] \/ {r[1], r[2]} \subseteq DOMAIN q.dir
                    /\ StandsFor(q, r[1], m1, answer.depth)
                    /\ StandsFor(q, r[2], m2, answer.depth)}
        IN  /\ \A d1, d2 \in dirs \ {<<>>} : d1 # d2 => Cardinality(real) > 1
            /\ answer.depth > q.depth =>
                  Cardinality({ExtractModule(d, answer.depth - 1) : d \in dirs} \ {<<>>}) <= 1
            /\ CallsCounted(answer.count) = Cardinality(counted)

\* When the store's own queries raise, the fallback over rows answers the
\* same, but for a class whose constructor has edges (no orphan; more of a
\* hub or god if it has edges itself), for hubs of utility modules, and where
\* the graph has entities with noise names.
FallbackAgrees ==
    Answered("topology") /\ "noise" \notin {question.kind[n] : n \in DOMAIN question.kind} =>
        LET s == answer.server
            c == answer.client
            classes == {n \in DOMAIN question.kind :
                            Constructors(question.kind, question.init, n) # {}}
            utilities == {n \in DOMAIN question.kind : question.kind[n] = "utility"}
        IN  /\ c.orphans \subseteq s.orphans /\ s.orphans \ c.orphans \subseteq classes
            /\ s.orphans \cap classes \subseteq
                  c.orphans \cup {n \in classes : \E x \in Constructors(question.kind, question.init, n) :
                                                     x \notin s.orphans}
            /\ s.hubs \ utilities \subseteq c.hubs /\ c.hubs \subseteq s.hubs \cup classes
            /\ s.gods \subseteq c.gods /\ c.gods \subseteq s.gods \cup classes

-----------------------------------------------------------------------------
(* Technical debt.                                                         *)

\* The change frequency of a file is the number of commits that touch it,
\* unless one of those commits also touches a path with a "|".
CommitsCountedOnce ==
    Answered("git-metrics") =>
        \A f \in question.paths :
            (\A c \in question.commits : "odd" \in c.files => f \notin c.files)
            => answer[f] = Cardinality({c \in question.commits : f \in c.files})

\* one step worse: an issue more, a smell more, a lower average
Worse(d) ==
    {[d EXCEPT !.p0 = @ + 1], [d EXCEPT !.p1 = @ + 1], [d EXCEPT !.p2 = @ + 1],
     [d EXCEPT !.p1 = @ - 1, !.p0 = @ + 1],
     [d EXCEPT !.hotspots = @ + 1], [d EXCEPT !.silos = @ + 1],
     [d EXCEPT !.orphans = @ + 1], [d EXCEPT !.orphans = @ + 1, !.entities = @ + 1],
     [d EXCEPT !.hubs = @ + 1], [d EXCEPT !.fans = @ + 1], [d EXCEPT !.fans = @ - 1, !.gods = @ + 1],
     [d EXCEPT !.placeholders = @ + 1], [d EXCEPT !.density = @ + 1]}
    \cup {[d EXCEPT !.maintainability = @ - 1] : x \in {d.maintainability} \ {0, Missing}}

\* No step for the worse raises the score or the grade, through all caps and
\* thresholds; each issue, hotspot, orphan or hub more costs something or
\* nothing.
WorseNeverScoresBetter ==
    Answered("debt") => \A w \in Worse(question) : TotalScore(w) <= answer.score
=============================================================================
