---------------------------- MODULE GraphQueries -----------------------------
(***************************************************************************)
(* Three questions about one workspace's graph: `graph` and               *)
(* `find --with-relations` (cli/_search.py), `deps` (core/deps.py) and     *)
(* `topology` (core/topology.py), the last in its two implementations, in  *)
(* SQL and, when that raises, over the rows.                               *)
(***************************************************************************)
EXTENDS Integers, FiniteSets, Sequences, FiniteSetsExt

-----------------------------------------------------------------------------
(* Traversal.  An edge is <<source, target, trusted>>; one whose qualifier *)
(* is not "resolved" is not trusted.                                       *)

\* Mutant: the qualifier is not looked at.
WalkableAll(edges, include_unresolved) == edges

Walkable(edges, include_unresolved) == {e \in edges : e[3] \/ include_unresolved}

\* a layer of the search: new neighbors of the last layer
Neighbors(edges, frontier, visited) == {e[2] : e \in {x \in edges : x[1] \in frontier}} \ visited

\* _bfs_collect
Bfs(edges, start, depth) ==
    LET layer[d \in 0..depth] ==
            IF d = 0 THEN [visited |-> {start}, frontier |-> {start}]
            ELSE LET new == Neighbors(edges, layer[d - 1].frontier, layer[d - 1].visited)
                 IN  [visited |-> layer[d - 1].visited \cup new, frontier |-> new]
    IN  layer[depth].visited \ {start}

Backwards(edges) == {<<e[2], e[1], e[3]>> : e \in edges}

\* A class has the callees of its methods too; its callers are its own.
GraphQuery(edges, methods, start, depth, include_unresolved) ==
    LET out == Walkable(edges, include_unresolved)
    IN  [callers |-> Bfs(Backwards(out), start, depth),
         callees |-> UNION {Bfs(out, n, depth) : n \in {start} \cup methods}]

-----------------------------------------------------------------------------
(* Modules.  The files of the entities are sequences of directories.       *)

\* "." when a file is at the root
ExtractModule(dir, depth) == SubSeq(dir, 1, IF Len(dir) < depth THEN Len(dir) ELSE depth)

ModulesAt(dirs, depth) == {ExtractModule(d, depth) : d \in dirs}

\* Mutant: the deepest level is not tried.
DeepestLessOne(dirs, depth) == Max({depth} \cup {Len(d) - 1 : d \in dirs})

\* how deep it pays to look
Deepest(dirs, depth) == Max({depth} \cup {Len(d) : d \in dirs})

\* the depth `deps` settles on: the first that tells two modules apart
SettledDepth(dirs, depth) ==
    LET deepest == Deepest(dirs, depth)
        apart == {d \in depth..deepest : Cardinality(ModulesAt(dirs, d) \ {<<>>}) > 1}
    IN  IF apart = {} THEN deepest ELSE Min(apart)

\* the modules an endpoint of a relation may stand for: an entity stands for
\* its own; the id a resolved import has for a source module, for those of the
\* entities in it
ModulesOf(x, dir, inside, d) ==
    IF x \in DOMAIN dir THEN {ExtractModule(dir[x], d)}
    ELSE {ExtractModule(dir[e], d) : e \in {c \in DOMAIN dir : <<c, x>> \in inside}}

\* dir maps an entity to its directory; <<e, id>> \in inside if id is e's name
\* up to the last dot; rels are <<source, target, is a resolved import>>.  An
\* endpoint that stands for no module or for several is skipped.
Deps(dir, inside, rels, depth) ==
    LET dirs == {dir[e] : e \in DOMAIN dir}
        d == SettledDepth(dirs, depth)
        Ends(r) == ModulesOf(r[1], dir, IF r[3] THEN inside ELSE {}, d)
                   \X ModulesOf(r[2], dir, IF r[3] THEN inside ELSE {}, d)
        across == {r \in rels : \E m1, m2 \in ModulesAt(dirs, d) : m1 # m2 /\ Ends(r) = {<<m1, m2>>}}
    IN  [modules |-> ModulesAt(dirs, d), depth |-> d,
         count |-> [p \in UNION {Ends(r) : r \in across} |->
                       Cardinality({r \in across : Ends(r) = {p}})]]

-----------------------------------------------------------------------------
(* Topology.  kind maps an entity to "class", "function", "utility" (of    *)
(* _common.py or config.py), "file" or "noise" (external, or a name of the *)
(* standard library), init a class to its constructor; edges are           *)
(* <<source, target, keyword>>.                                            *)

Joined(edges, names) == {e \in edges : e[1] \in names /\ e[2] \in names}

InDegree(edges, n) == Cardinality({e \in edges : e[2] = n})
OutDegree(edges, n) == Cardinality({e \in edges : e[1] = n})
InDegrees(edges, names) == MapThenSumSet(LAMBDA n : InDegree(edges, n), names)
OutDegrees(edges, names) == MapThenSumSet(LAMBDA n : OutDegree(edges, n), names)

\* file entities contain and do not call; noise is filtered from the answer
Reported(kind) == {n \in DOMAIN kind : kind[n] \notin {"file", "noise"}}

\* get_orphan_entities and get_degree_distribution join with all entities
ServerTopology(kind, edges, hub, god) ==
    LET joined == Joined(edges, DOMAIN kind)
    IN  [orphans |-> {n \in Reported(kind) : InDegree(joined, n) + OutDegree(joined, n) = 0},
         hubs    |-> {n \in Reported(kind) : InDegree(joined, n) >= hub},
         gods    |-> {n \in Reported(kind) : OutDegree(joined, n) >= god}]

\* the constructor of a class, if the graph has it
Constructors(kind, init, n) == {c \in DOMAIN kind : kind[n] = "class" /\ <<n, c>> \in init}

\* Mutant: the constructor's list is put in the place of the class's.
AliasedReplaced(own, ctors) == IF own = 0 \/ ctors = 0 THEN own ELSE ctors

\* the list of one direction: a class has its constructor's entries behind
\* its own.  The aggregated lists are those of the plain degree maps, so a
\* class with an entry of its own shows the sum there; with none, nothing.
Aliased(own, ctors) == IF own = 0 THEN 0 ELSE own + ctors

\* analyze_from_data: noise is no endpoint
ClientTopology(kind, init, edges, hub, god) ==
    LET joined == Joined(edges, {n \in DOMAIN kind : kind[n] # "noise"})
        in(n) == InDegree(joined, n)
        out(n) == OutDegree(joined, n)
        ctors(n) == Constructors(kind, init, n)
        hubness(n) == Aliased(in(n), InDegrees(joined, ctors(n)))
        godness(n) == Aliased(out(n), OutDegrees(joined, ctors(n)))
    IN  [orphans |-> {n \in Reported(kind) : \A c \in {n} \cup ctors(n) : in(c) + out(c) = 0},
         hubs    |-> {n \in Reported(kind) : kind[n] # "utility" /\ hubness(n) >= hub},
         gods    |-> {n \in Reported(kind) : godness(n) >= god}]
=============================================================================
