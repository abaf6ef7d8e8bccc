--------------------------- MODULE ImpactAnalysis ----------------------------
(***************************************************************************)
(* `impact`: from a diff to the changed symbols, from those to their       *)
(* callers in the graph, from both to a risk level (core/impact).          *)
(*                                                                         *)
(* A question about a changed file q has its change_type in the diff, its  *)
(* edit script, a sequence of "=" (kept), "-" and "+" lines with the owner *)
(* of each line, the symbol whose body it is in, and what `codeindex       *)
(* parse` makes of the file now checked out, which need not be the one the *)
(* diff leads to: q.parse says whether it is there and was parsed, q.tree  *)
(* has the owners of its lines.                                            *)
(*                                                                         *)
(* A question about callers q has the changed symbols in the order they    *)
(* were extracted and the name each was parsed under, the store's nodes    *)
(* with codegraph's qualified names, the backend that made them, the       *)
(* resolved calls between nodes, the unresolved ones with the text that    *)
(* stands for the callee, which symbols are in .py files and which are     *)
(* such files themselves, --depth, the store's resolved ratio (in tenths,  *)
(* none if it could not be read) and the lookups in the store that fail.   *)
(***************************************************************************)
EXTENDS Integers, FiniteSets, SequencesExt

CONSTANTS
    Symbols,
    CoreSymbols,     \* symbols of files in CORE_MODULES
    NoRatio,         \* the store has no resolved ratio
    LowThreshold, HighThreshold, ManyModules  \* RiskAssessor: 3, 10 and 5

-----------------------------------------------------------------------------
(* Line numbers and changed symbols.                                       *)

Count(script, i, ops) == Cardinality({j \in 1..i : script[j] \in ops})

\* the hunks' new-file and old-file line numbers
NewLine(script, i) == Count(script, i, {"=", "+"})
OldLine(script, i) == Count(script, i, {"=", "-"})

LinesWith(script, op) == {i \in DOMAIN script : script[i] = op}

AddedLines(script) == {NewLine(script, i) : i \in LinesWith(script, "+")}
DeletedLines(script) == {OldLine(script, i) : i \in LinesWith(script, "-")}

\* Of a file that is missing, of no supported type, or that codeindex fails
\* on in any way, there are no symbols.
ParsedSymbols(q) == IF q.parse = "parsed" THEN ToSet(q.tree) ELSE {}

\* line_start..line_end in the file that is checked out
Span(q, s) == {i \in DOMAIN q.tree : q.tree[i] = s}

\* Mutant: the end of a range is taken for the line behind it.
ModifiedOffByOne(q) ==
    {s \in ParsedSymbols(q) :
        \E i \in Span(q, s) :
            /\ i \in AddedLines(q.script) \cup DeletedLines(q.script)
            /\ i + 1 \in Span(q, s)}

\* spans of the checked-out file against ranges of both sides of the diff
Modified(q) ==
    {s \in ParsedSymbols(q) :
        Span(q, s) \cap (AddedLines(q.script) \cup DeletedLines(q.script)) # {}}

\* a new file has all its symbols changed; of a deleted one a placeholder
\* is left, which no entity has the name of
ChangedSymbols(q) ==
    CASE q.type = "added" -> ParsedSymbols(q)
      [] q.type = "deleted" -> {}
      [] q.type = "modified" -> Modified(q)

-----------------------------------------------------------------------------
(* Callers.                                                                *)

\* no other node has its qualified name
Alone(q, s) == \A t \in q.nodes \ {s} : q.qname[t] # q.qname[s]

\* A node's entity: codeindex qualifies it by its module, codegraph by its
\* file where the qualified name alone is not unique.
Id(q, s) ==
    CASE q.backend = "codeindex" -> <<"module", s>>
      [] q.backend = "codegraph" /\ Alone(q, s) -> <<"name", q.qname[s]>>
      [] q.backend = "codegraph" /\ ~Alone(q, s) -> <<"file", s>>

\* _qualify_symbol_name: qualified like codeindex does in .py files, as it
\* was parsed elsewhere
QueryName(q, s) == IF s \in q.python THEN <<"module", s>> ELSE <<"name", q.parsed[s]>>

\* The sources of the store's CALLS rows that end in a name: a resolved row
\* ends in an entity, an unresolved one in the text of the call.
SourcesOf(q, name) ==
    {Id(q, c[1]) : c \in {d \in q.calls : Id(q, d[2]) = name}
                         \cup {d \in q.unresolved : d[2] = name}}

\* A lookup reads all relations.  One that fails answers with no callers.
CallersOf(q, lookup) == IF lookup \in q.failing THEN {} ELSE SourcesOf(q, lookup.name)

\* the lookups made for the k-th changed symbol
OfSymbol(q, k) == [round |-> k, of |-> "symbol", name |-> QueryName(q, q.changed[k])]
OfCaller(k, d) == [round |-> k, of |-> "caller", name |-> d]

\* Mutant: the loop goes over the direct callers of the earlier symbols.
FollowedEarlier(acc, direct) == acc.direct

\* the callers whose callers are looked up: all direct ones so far
Followed(acc, direct) == direct

\* One symbol.  Who was seen, in either list, is not added again: a direct
\* caller that is already an indirect one stays there.
AddCallers(q, acc, k) ==
    LET direct == acc.direct \cup (CallersOf(q, OfSymbol(q, k)) \ acc.indirect)
        next == UNION {CallersOf(q, OfCaller(k, d)) : d \in Followed(acc, direct)}
    IN  [direct |-> direct,
         indirect |-> acc.indirect \cup (IF q.depth > 1 THEN next \ direct ELSE {})]

FindCallers(q) ==
    FoldLeft(LAMBDA acc, k : AddCallers(q, acc, k), [direct |-> {}, indirect |-> {}],
             [k \in DOMAIN q.changed |-> k])

-----------------------------------------------------------------------------
(* Risk.                                                                   *)

\* A caller's file is read off its row: codegraph's rows have the caller's
\* entity there, which passes for a .py file if it is one.
Located(q) == IF q.backend = "codeindex" THEN q.python ELSE q.scripts

\* _file_to_module has no module for files that are not .py
AffectedModules(q, found) ==
    (ToSet(q.changed) \cap q.python)
    \cup {s \in Located(q) : Id(q, s) \in found.direct \cup found.indirect}

\* Mutant: a sparse graph's empty answer is taken at face value.
SparseIgnored(q, total) == FALSE

\* nothing found where most edges are unresolved
Sparse(q, total) == q.ratio # NoRatio /\ q.ratio < 5 /\ total = 0

RiskLevel(q, found) ==
    LET total == Cardinality(found.direct) + Cardinality(found.indirect)
        high == \/ ToSet(q.changed) \cap CoreSymbols # {}
                \/ total >= HighThreshold
                \/ Cardinality(AffectedModules(q, found)) >= ManyModules
        few == ~high /\ total < LowThreshold
        blind == q.ratio # NoRatio /\ q.ratio < 1
    IN  CASE high -> "high"
          [] ~high /\ total >= LowThreshold -> "medium"
          [] few /\ blind -> "unknown"
          [] few /\ ~blind /\ Sparse(q, total) -> "medium"
          [] few /\ ~blind /\ ~Sparse(q, total) -> "low"

Impact(q) ==
    LET found == FindCallers(q)
    IN  [direct |-> found.direct, indirect |-> found.indirect, risk |-> RiskLevel(q, found)]
=============================================================================
