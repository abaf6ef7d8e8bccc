----------------------------- MODULE MCAnalyses ------------------------------
(***************************************************************************)
(* Small questions of every kind.                                          *)
(***************************************************************************)
EXTENDS ReadingCommands, MCReviews

\* two entities: a moves and changes, b comes and goes
MCEnts ==
    UNION {{[n \in D |-> IF n = "a" THEN [mod |-> m, hash |-> x] ELSE [mod |-> "m1", hash |-> 1]] :
                m \in {"m1", "m2"}, x \in {NoHash, 1, 2}} : D \in SUBSET {"a", "b"}}
MCRels == SUBSET {<<"a", "b", "CALLS">>, <<"b", "a", "CALLS">>, <<"b", "b", "CALLS">>}
MCSnapshots ==
    {g \in [ents : MCEnts, rels : MCRels, backend : {"codeindex", "codegraph"}] :
        g.backend = "codegraph" => g.rels = {} /\ "a" \in DOMAIN g.ents}

\* q in two files and once more in f (an overload), an import of q, a caller
MCNode == [n1 |-> [file |-> "f", qname |-> "q", kind |-> "symbol"],
           n2 |-> [file |-> "g", qname |-> "q", kind |-> "symbol"],
           n3 |-> [file |-> "f", qname |-> "q", kind |-> "symbol"],
           n4 |-> [file |-> "g", qname |-> "q", kind |-> "import"],
           n5 |-> [file |-> "g", qname |-> "r", kind |-> "symbol"]]
MCEdges == {<<"n5", "n1", "calls">>, <<"n1", "n5", "references">>, <<"n5", "n4", "calls">>,
            <<"n2", "n5", "contains">>}
MCDatabases ==
    UNION {[nodes : {[n \in D |-> MCNode[n]]},
            edges : SUBSET {e \in MCEdges : {e[1], e[2]} \subseteq D}] : D \in SUBSET DOMAIN MCNode}

\* b and c call a, d calls c and b, e calls d; a and b change
Lookup(k, of, name) == [round |-> k, of |-> of, name |-> name]
MCCalls == {<<"c", "a">>, <<"d", "c">>, <<"d", "b">>, <<"e", "d">>, <<"b", "a">>, <<"a", "b">>}
OwnNames == [s \in Symbols |-> s]
MCResolved ==
    [calls : SUBSET MCCalls, changed : {<<"a">>, <<"a", "b">>, <<"b", "a">>, <<"a", "e">>},
     python : {Symbols, Symbols \ {"a"}, {}}, backend : {"codeindex", "codegraph"},
     depth : {1, 2, 3}, ratio : {NoRatio, 0, 3, 5}, nodes : {Symbols}, scripts : {{"d"}},
     parsed : {OwnNames}, qname : {OwnNames}, unresolved : {{}}, failing : {{}}]

\* Namesakes: b is parsed under a's name, may have it in the graph, or is not
\* stored yet; a is stored under another.  Calls of which only the text is
\* known, and lookups that fail.
MCDoubtful ==
    [calls : SUBSET {<<"c", "a">>, <<"d", "c">>, <<"d", "b">>, <<"a", "b">>},
     changed : {<<"a", "b">>, <<"b">>}, python : {Symbols, {}},
     backend : {"codeindex", "codegraph"}, depth : {1, 2}, ratio : {NoRatio, 3},
     nodes : {Symbols}, scripts : {{}},
     parsed : {OwnNames, [OwnNames EXCEPT !["b"] = "a"]},
     qname : {OwnNames, [OwnNames EXCEPT !["b"] = "a"], [OwnNames EXCEPT !["a"] = "f"]},
     unresolved : SUBSET {<<"e", <<"name", "a">>>>, <<"e", <<"module", "c">>>>},
     failing : {{}, {Lookup(1, "symbol", <<"module", "a">>), Lookup(1, "symbol", <<"name", "a">>)},
                {Lookup(1, "caller", <<"module", "c">>), Lookup(2, "symbol", <<"name", "b">>)}}]
MCUnstored ==
    {[q EXCEPT !.nodes = @ \ {"b"}] :
        q \in {r \in MCDoubtful : \A c \in r.calls : "b" \notin {c[1], c[2]}}}
MCImpacts == MCResolved \cup MCDoubtful \cup MCUnstored

Blocks(n) == {o \in [1..n -> {"a", "b", "c"}] :
                 \A i \in 1..n - 1 : <<o[i], o[i + 1]>> \in {<<"a", "a">>, <<"a", "b">>, <<"b", "b">>,
                                                            <<"b", "c">>, <<"c", "c">>}}

\* the new side of a diff, and what may be checked out instead: the same with
\* a line behind it, or anything
NewSide(script, owner) ==
    LET kept == SelectSeq([i \in DOMAIN script |-> i], LAMBDA i : script[i] # "-")
    IN  [k \in DOMAIN kept |-> owner[kept[k]]]
Checkouts(script, owner) ==
    LET new == NewSide(script, owner)
        longer == new \o <<IF new = <<>> THEN "a" ELSE Last(new)>>
    IN  {new, longer} \cup IF Len(script) > 3 THEN {} ELSE UNION {Blocks(n) : n \in 0..3}

Types(script) ==
    {"modified"} \cup (IF ToSet(script) = {"+"} THEN {"added"} ELSE {})
                 \cup (IF ToSet(script) = {"-"} THEN {"deleted"} ELSE {})
MCEdits ==
    UNION {[script : {script}, owner : {owner}, tree : Checkouts(script, owner),
            type : Types(script), parse : {"parsed", IF Len(script) = 2 THEN "failed" ELSE "missing"}] :
              <<script, owner>> \in
                  UNION {[1..n -> {"=", "-", "+"}] \X Blocks(n) : n \in 1..5}}

MCWalks ==
    [edges : {{<<p[1], p[2], t[p]>> : p \in DOMAIN t} :
                t \in UNION {[P -> BOOLEAN] : P \in SUBSET {<<"s", "x">>, <<"x", "y">>, <<"y", "s">>,
                                                          <<"m", "y">>, <<"y", "z">>}}},
     methods : {{}, {"m"}}, start : {"s"}, depth : 1..3, include_unresolved : BOOLEAN]

\* x and y in one source module "mod", z in none; "ext" is not in the graph
MCLayouts ==
    [dir : [{"x", "y", "z"} -> {<<>>, <<"s">>, <<"s", "p">>, <<"s", "p", "c">>, <<"s", "p", "d">>, <<"t">>}],
     inside : {{<<"x", "mod">>, <<"y", "mod">>}},
     rels : SUBSET {<<"x", "y", FALSE>>, <<"x", "ext", FALSE>>, <<"z", "mod", FALSE>>,
                    <<"mod", "z", TRUE>>, <<"z", "ext", TRUE>>}, depth : {1, 2}]

\* a class, its constructor, a caller and one entity of any kind
MCTopologies ==
    [kind : {[n \in {"C", "I", "F", "X"} \ G |-> CASE n = "C" -> "class" [] n = "X" -> k
                                                 [] OTHER -> "function"] :
                 k \in {"function", "file", "utility", "noise"}, G \in {{}, {"I"}, {"F"}}},
     init : {{<<"C", "I">>}},
     edges : SUBSET {<<"F", "C", "CALLS">>, <<"X", "C", "CALLS">>, <<"F", "I", "CALLS">>,
                     <<"I", "X", "CALLS">>, <<"C", "F", "CALLS">>, <<"F", "X", "CALLS">>},
     hub : {2}, god : {2}]

\* up to three commits with the files they touch, as git prints them
MCBodies == {<<>>, <<"f">>, <<"f", "g">>, <<"odd">>, <<"f", "odd">>, <<"odd", "g">>}
Line(x) == [kind |-> IF x = "odd" THEN "odd" ELSE "file", of |-> x]
MCLog(bodies) ==
    [log |-> FlattenSeq([i \in DOMAIN bodies |->
                 <<[kind |-> "header", of |-> i]>> \o [j \in DOMAIN bodies[i] |-> Line(bodies[i][j])]]),
     commits |-> {[id |-> i, files |-> ToSet(bodies[i])] : i \in DOMAIN bodies},
     paths |-> {"f", "g"}]
MCLogs == {MCLog(bodies) : bodies \in UNION {[1..n -> MCBodies] : n \in 0..3}}

Static == [p0 : {0, 9, 10}, p1 : {0, 1}, p2 : {0, 1}, maintainability : {Missing, 0, 55, 100}]
MCDebts ==
    {[p0 |-> s.p0, p1 |-> s.p1, p2 |-> s.p2, maintainability |-> s.maintainability, git |-> t.git,
      hotspots |-> t.hotspots, silos |-> t.silos, orphans |-> t.orphans, entities |-> 10,
      hubs |-> t.hubs, gods |-> t.gods, fans |-> 1, placeholders |-> t.placeholders,
      density |-> t.density] :
        s \in Static,
        t \in [git : {"off"}, hotspots : {0}, silos : {0}, orphans : 0..2, hubs : {0, 3, 4},
               gods : {0, 4}, placeholders : {0, 3}, density : {0, 30, 50}]
              \cup [git : {"measured", "failed"}, hotspots : 0..3, silos : {0, 4, 5}, orphans : {1},
                    hubs : {1}, gods : {0}, placeholders : {0}, density : {0}]}
=============================================================================
