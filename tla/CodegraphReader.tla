-------------------------- MODULE CodegraphReader ----------------------------
(***************************************************************************)
(* How the database codegraph keeps becomes rows of the graph store        *)
(* (io/codegraph_reader.py).  A database is a function nodes from ids to   *)
(* records of file, qualified name and kind ("symbol" stands for the       *)
(* whitelisted kinds, "import" for the others) and a set of edges          *)
(* <<source id, target id, kind>>.  The store's upsert merges nodes that   *)
(* get the same name.                                                      *)
(***************************************************************************)
EXTENDS Naturals, FiniteSets

CONSTANTS NoContentHash   \* codegraph has no content hash

\* nodes of a whitelisted kind
Ingested(db) == {n \in DOMAIN db.nodes : db.nodes[n].kind = "symbol"}

\* Mutant: nodes of every kind count.
HomonymsOfAnyKind(db, n) == {m \in DOMAIN db.nodes : db.nodes[m].qname = db.nodes[n].qname}

\* the ingested nodes that share the qualified name of n
Homonyms(db, n) == {m \in Ingested(db) : db.nodes[m].qname = db.nodes[n].qname}

\* a qualified name that is not unique gets its file in front
NameOf(db, n) ==
    LET node == db.nodes[n]
    IN  IF Cardinality(Homonyms(db, n)) = 1 THEN <<node.qname>> ELSE <<node.file, node.qname>>

\* contains, exports, type_of, returns and overrides are dropped
EdgeKindMap == [calls |-> "CALLS", instantiates |-> "CALLS", imports |-> "IMPORTS",
                extends |-> "INHERITS", implements |-> "INHERITS",
                references |-> "REFERENCES", decorates |-> "REFERENCES"]

\* the target is an ingested node, or its raw name
TargetName(db, n) == IF n \in Ingested(db) THEN NameOf(db, n) ELSE <<db.nodes[n].qname>>

Key(db, e) == <<NameOf(db, e[1]), TargetName(db, e[2]), EdgeKindMap[e[3]]>>

\* the edges that become rows
Mapped(db) == {e \in db.edges : e[1] \in Ingested(db) /\ e[3] \in DOMAIN EdgeKindMap}

SnapshotOf(db) ==
    [ents |-> [name \in {NameOf(db, n) : n \in Ingested(db)} |->
                  LET n == CHOOSE m \in Ingested(db) : NameOf(db, m) = name
                  IN  [mod |-> db.nodes[n].file, hash |-> NoContentHash]],
     rels |-> {Key(db, e) : e \in Mapped(db)},
     backend |-> "codegraph"]
=============================================================================
