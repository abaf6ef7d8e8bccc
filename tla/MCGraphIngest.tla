--------------------------- MODULE MCGraphIngest ----------------------------
(***************************************************************************)
(* GraphIngest on a TypeScript repository: w.ts and w.tsx (the first path  *)
(* is a LIKE prefix of the second's source_ids), k.ts that no other path   *)
(* shadows, and the codeindex config.  k.ts has a version in which the     *)
(* symbol k2 is gone and one in which k1 has changed and moved.            *)
(***************************************************************************)
EXTENDS GraphIngest, TLC

MCFiles == {"w.ts", "w.tsx", "k.ts", "cfg"}
MCNames == {"w", "x", "k1", "k2"}
MCOwner == [n \in MCNames |-> CASE n = "w" -> "w.ts" [] n = "x" -> "w.tsx" [] OTHER -> "k.ts"]
MCSources == {"w.ts:1", "w.tsx:1", "k.ts:1", "k.ts:2", "k.ts:9"}
MCFileOf == [s \in MCSources |-> CASE s = "w.ts:1" -> "w.ts" [] s = "w.tsx:1" -> "w.tsx"
                                   [] OTHER -> "k.ts"]
MCLike == {<<f, s>> \in MCFiles \X MCSources : MCFileOf[s] = f \/ (f = "w.ts" /\ s = "w.tsx:1")}
MCEndpoints == MCNames \cup {"?w", "?x", "?k1", "?k2"}
MCRawOf == [n \in MCNames |-> CASE n = "w" -> "?w" [] n = "x" -> "?x" [] n = "k1" -> "?k1"
                                [] OTHER -> "?k2"]
MCEdgeKeys == {<<"w", "k2", "calls">>, <<"w", "?k2", "calls">>, <<"x", "w", "calls">>,
               <<"x", "?w", "calls">>, <<"k1", "k2", "calls">>, <<"k1", "?k2", "calls">>}
MCContents == {"c1", "c2", "c0"}
MCHashOf == [c \in MCContents |-> IF c = "c0" THEN "none" ELSE c]
MCEmbeddingOf == [c \in MCContents |-> c]
MCMetaValues == SUBSET MCEdgeKeys
MCMetaKeys == {"resolved_ratio", "internal_unresolved_ratio", "external_unresolved_ratio",
               "extraction_backend"}

Row(s, c) == [source |-> s, content |-> c]

\* version 1 and 2 of each file
MCDecl == [f \in MCFiles |-> [v \in {1, 2} |->
    CASE f = "w.ts"  -> [n \in {"w"} |-> Row("w.ts:1", IF v = 1 THEN "c1" ELSE "c2")]
      [] f = "w.tsx" -> [n \in {"x"} |-> Row("w.tsx:1", IF v = 1 THEN "c1" ELSE "c0")]
      [] f = "k.ts" /\ v = 1 -> [n \in {"k1", "k2"} |->
                                   IF n = "k1" THEN Row("k.ts:1", "c1") ELSE Row("k.ts:9", "c1")]
      [] f = "k.ts" /\ v = 2 -> [n \in {"k1"} |-> Row("k.ts:2", "c2")]
      [] OTHER -> <<>>]]

\* w calls k2, x calls w, k1 calls k2 while it exists
MCRefs == [f \in MCFiles |-> [v \in {1, 2} |->
    CASE f = "w.ts"  -> [p \in {<<"w", "k2">>} |-> "w.ts:1"]
      [] f = "w.tsx" -> [p \in {<<"x", "w">>} |-> "w.tsx:1"]
      [] f = "k.ts" /\ v = 1 -> [p \in {<<"k1", "k2">>} |-> "k.ts:1"]
      [] OTHER -> <<>>]]

\* version 2 of the config turns the language of w.tsx off
MCIgnored == [v \in {1, 2, 0} |-> IF v = 2 THEN {"w.tsx"} ELSE {}]

T(w, x, k, c) == [f \in MCFiles |-> CASE f = "w.ts" -> w [] f = "w.tsx" -> x
                                      [] f = "k.ts" -> k [] OTHER -> c]

\* one run after another: edits of each file, of two files at once, of the
\* config; w.tsx created or deleted; a tree without any symbol
MCTreesSeq == {T(1, 1, 1, 1), T(2, 1, 2, 1), T(1, 2, 1, 1), T(1, 0, 1, 1), T(1, 1, 2, 2),
               T(0, 0, 0, 1)}

\* runs side by side: two files change together, one may not be there
MCTreesPar == {T(1, 1, 1, 1), T(2, 1, 2, 1), T(1, 0, 1, 1)}

MCPathArgs == {{"k.ts"}}
MCSymmetry == Permutations(Writers)
=============================================================================
