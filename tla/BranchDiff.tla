----------------------------- MODULE BranchDiff ------------------------------
(***************************************************************************)
(* What `branch-diff` and `compare` make of two workspaces                 *)
(* (core/branch_diff.py, core/compare.py), as operators.                   *)
(*                                                                         *)
(* A workspace is read into a snapshot: ents maps the name of an entity to *)
(* its module and content hash, rels is the set of its relation rows, by   *)
(* the store's key <<source, target, keyword>>, dangling rows included,    *)
(* and backend is the recorded one.  The lists of a report are sets here,  *)
(* before they are sorted and capped.                                      *)
(***************************************************************************)
EXTENDS Integers, FiniteSets, FiniteSetsExt

CONSTANT NoHash   \* the content hash of an entity that was stored without one

Names(g) == DOMAIN g.ents

\* rows both of whose endpoints are entities; the others are only counted
Resolvable(g) == {r \in g.rels : r[1] \in Names(g) /\ r[2] \in Names(g)}

EntitiesRemoved(b, h) == Names(b) \ Names(h)

Shared(b, h) == Names(b) \cap Names(h)

EdgesRemoved(b, h) == Resolvable(b) \ Resolvable(h)

\* added and new are removed and broken of the opposite direction
EntitiesAdded(b, h) == EntitiesRemoved(h, b)
EdgesAdded(b, h) == EdgesRemoved(h, b)

\* Mutant: a chain is broken when both of its ends survive.
BrokenIfBothSurvive(b, h) ==
    {k \in EdgesRemoved(b, h) : k[1] \in Names(h) /\ k[2] \in Names(h)}

\* removed edges whose caller is still there
Broken(b, h) == {k \in EdgesRemoved(b, h) : k[1] \in Names(h)}

NewChains(b, h) == {k \in EdgesAdded(b, h) : k[1] \in Names(b)}

-----------------------------------------------------------------------------
(* Content: hashes of codeindex on both sides, or nothing is said.         *)

Hashed(b, h) == {n \in Shared(b, h) : b.ents[n].hash # NoHash /\ h.ents[n].hash # NoHash}

\* why nothing can be compared, before any hash is looked at
Reason(b, h) ==
    CASE b.backend # h.backend -> "cross_backend"
      [] b.backend = h.backend /\ b.backend # "codeindex" -> "backend_has_no_hash"
      [] OTHER -> "none"

\* Mutant: entities without a hash are left out of the status.
ContentStatusOptimistic(b, h) == IF Reason(b, h) # "none" THEN "unavailable" ELSE "available"

ContentStatus(b, h) ==
    LET missing == Shared(b, h) \ Hashed(b, h)
    IN  CASE Reason(b, h) # "none" \/ (Hashed(b, h) = {} /\ missing # {}) -> "unavailable"
          [] OTHER -> IF missing # {} THEN "partial" ELSE "available"

ContentChanged(b, h) ==
    IF ContentStatus(b, h) = "unavailable" THEN {}
    ELSE {n \in Hashed(b, h) : b.ents[n].hash # h.ents[n].hash}

-----------------------------------------------------------------------------
(* Edges by the module of their source.                                    *)

\* the side the edge is on knows its source; the other one is the fallback
ModuleOf(k, first, second) ==
    IF k[1] \in Names(first) THEN first.ents[k[1]].mod ELSE second.ents[k[1]].mod

ModuleDelta(b, h) ==
    LET added == EdgesAdded(b, h)
        removed == EdgesRemoved(b, h)
        mods == {ModuleOf(k, h, b) : k \in added} \cup {ModuleOf(k, b, h) : k \in removed}
    IN  [m \in mods |-> [added   |-> {k \in added : ModuleOf(k, h, b) = m},
                         removed |-> {k \in removed : ModuleOf(k, b, h) = m}]]

Diff(b, h) ==
    [entities_added   |-> EntitiesAdded(b, h), entities_removed |-> EntitiesRemoved(b, h),
     edges_added      |-> EdgesAdded(b, h),    edges_removed    |-> EdgesRemoved(b, h),
     broken_chains    |-> Broken(b, h),        new_chains       |-> NewChains(b, h),
     content_status   |-> ContentStatus(b, h), content_changed  |-> ContentChanged(b, h),
     module_delta     |-> ModuleDelta(b, h)]

-----------------------------------------------------------------------------
(* compare: symmetric, every row of a shared entity, resolvable or not.    *)

\* Mutant: rows are grouped by their target only.
RowsByTarget(g, n) == {r \in g.rels : n = r[2]}

\* the rows of a shared entity, as caller or as callee
RowsOf(g, n) == {r \in g.rels : n \in {r[1], r[2]}}

RelationChanges(g1, g2) ==
    LET changed == {n \in Shared(g1, g2) : RowsOf(g1, n) # RowsOf(g2, n)}
    IN  [n \in changed |-> [added   |-> RowsOf(g2, n) \ RowsOf(g1, n),
                            removed |-> RowsOf(g1, n) \ RowsOf(g2, n)]]

Compare(g1, g2) ==
    [only_in_ws1 |-> Names(g1) \ Names(g2), only_in_ws2 |-> Names(g2) \ Names(g1),
     relation_changes |-> RelationChanges(g1, g2)]
=============================================================================
