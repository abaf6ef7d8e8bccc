------------------------ MODULE MCSnapshotProvision -------------------------
(***************************************************************************)
(* Two refs whose names sanitize to the same database name (f/x and f-x),  *)
(* on two commits.                                                         *)
(***************************************************************************)
EXTENDS SnapshotProvision, TLC

MCDbs == {<<"f-x">>} \cup {<<"f-x", s>> : s \in Shas}
MCDbOf == [r \in Refs |-> <<"f-x">>]
MCFallbackDb == [r \in Refs |-> [s \in Shas |-> <<"f-x", s>>]]
MCInto == {<<"f-x">>}
MCSymmetry == {f @@ g @@ h : f \in Permutations(Procs), g \in Permutations(Refs), h \in Permutations(Shas)}
=============================================================================
