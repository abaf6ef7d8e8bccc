---------------------------- MODULE ReviewPilots -----------------------------
(***************************************************************************)
(* The pilots of the temporal reviews: a driver runs a cohort of cells,    *)
(* one after the other, each a checkout, a run of the adapter and, in a    *)
(* treatment, a repeat of the comparison on the warm snapshots.  From      *)
(* version 3 on it stops at the first fault of the protocol, from version  *)
(* 4 on the model that answers is registered before.                       *)
(*                                                                         *)
(* A pilot is what the driver meets: the registered identity, the cells in *)
(* the order they run, and the cell in which it is killed, 0 for none.     *)
(* What its output directory is left with is the answer.                   *)
(***************************************************************************)
EXTENDS ReviewRuns

CONSTANT RequestedModel

\* the arms of the i-th cell: per task twice two, the second time reversed
ArmAt(i) == IF i % 4 \in {0, 1} THEN "baseline" ELSE "treatment"
-----------------------------------------------------------------------------
(* Which model answers: a probe before the pilot, of which the stream's    *)
(* labels are kept; version 9 calibrates both arms twice.                  *)

\* the order in which the labels appear first, each being as early as itself;
\* a malformed one is a label, too
FirstSeen(labels) ==
    {o \in Range(labels) \X Range(labels) :
        \A j \in DOMAIN labels : labels[j] = o[2] => \E i \in 1..j : labels[i] = o[1]}

Probed(f) == f.version /\ f.ended /\ \A i \in DOMAIN f.streams : LabelsValid(f.streams[i])

run_preflight_v4(f) == Probed(f) /\ (f.specific => FirstSeen(f.streams[1]) = {<<f.asked, f.asked>>})
run_preflight_v5(f) == run_preflight_v4(f)
run_preflight_v6(f) == run_preflight_v5(f)

\* by what the labels are, whatever their order
run_preflight_v7(f) == Probed(f) /\ (f.specific => Range(f.streams[1]) = {f.asked})
run_preflight_v8(f) == run_preflight_v7(f)

\* one model in all of the calibrations, one command surface per arm
run_preflight_v9(f) ==
    /\ f.asked = RequestedModel /\ Probed(f) /\ f.alike
    /\ \A i \in DOMAIN f.streams : Range(f.streams[i]) = {RequestedModel}

\* The driver registers a complete probe of its own model, as it was written.
Own(p) == p.preflight.asked = p.model /\ p.preflight.untouched
model_identity_v4(p) == Own(p) /\ run_preflight_v4(p.preflight)
model_identity_v5(p) == Own(p) /\ run_preflight_v5(p.preflight)
model_identity_v6(p) == Own(p) /\ run_preflight_v6(p.preflight)
model_identity_v7(p) == Own(p) /\ run_preflight_v7(p.preflight)
model_identity_v8(p) == Own(p) /\ run_preflight_v8(p.preflight)
model_identity_v9(p) == Own(p) /\ run_preflight_v9(p.preflight)

\* Is a cell's model the registered one?  Version 8 counts every occurrence.
identity_matches_v4(known, labels) == FirstSeen(labels) = FirstSeen(known)
identity_matches_v5(known, labels) == identity_matches_v4(known, labels)
identity_matches_v6(known, labels) == identity_matches_v5(known, labels)
identity_matches_v7(known, labels) == LabelsValid(labels) /\ Range(labels) = Range(known)
identity_matches_v8(known, labels) == LabelsValid(labels) /\ labels = known

\* Mutant: version 9 as version 8.
MatchesByOccurrence(known, labels) == LabelsValid(labels) /\ labels = known

identity_matches_v9(known, labels) == LabelsValid(labels) /\ Range(labels) = Range(known)

IdentityMatches(p, c) ==
    LET known == p.preflight.streams[1]
        labels == c.run.labels
    IN  CASE p.version < 4 -> TRUE
          [] p.version = 4 -> identity_matches_v4(known, labels)
          [] p.version = 5 -> identity_matches_v5(known, labels)
          [] p.version = 6 -> identity_matches_v6(known, labels)
          [] p.version = 7 -> identity_matches_v7(known, labels)
          [] p.version = 8 -> identity_matches_v8(known, labels)
          [] p.version = 9 -> identity_matches_v9(known, labels)
-----------------------------------------------------------------------------
(* A cell: how far it gets, r being the packet of its run.                 *)

Instructed(v, c) == InstructionLoads(v, c.run.defects)
CheckedOut(v, c) == Materialized(v, c.run.defects, c.site) = "ready"

\* the packet, if the driver finds one it can read
HasPacket(c, r) == c.file = "read" /\ r.status \notin {"refused", "wasted"}

\* The adapter exits with success if its packet is complete.
has_valid_raw_comparison(c) ==
    \E i \in ObjectsAt(c.run.stream) : parse_raw_response(c.run.task, c.run.stream[i].body)
selected_certificate(v, c) == ValidAt(c.run, summarize_stream(c.run.stream, v)) # {}

\* when the comparison is repeated; what it returns is for the audit
warm_record_v1(c, r) == c.run.condition = "treatment" /\ r.status = "complete"
warm_record_v2(c, r) ==
    c.run.condition = "treatment" /\ HasPacket(c, r) /\ has_valid_raw_comparison(c)
warm_repeat(v, c, r) ==
    c.run.condition = "treatment" /\ HasPacket(c, r) /\ selected_certificate(v, c)

WarmRepeated(v, c, r) ==
    CASE v = 1 -> warm_record_v1(c, r)
      [] v = 2 -> warm_record_v2(c, r)
      [] v > 2 -> warm_repeat(v, c, r)

WarmRaises(v, c, r) == WarmRepeated(v, c, r) /\ c.warm = "raises"

\* An exception ends the first drivers, and they do not stop for anything else.
CellOfFirst(v, c, r) ==
    IF \/ ~Instructed(v, c) \/ ~CheckedOut(v, c) \/ ~c.starts
       \/ c.status = "raises" \/ WarmRaises(v, c, r)
    THEN "killed" ELSE "ran"

\* Mutant: a failing git status counts as a clean checkout.
DirtyOnly(c, r) == c.status = "dirty" \/ r.hard

Violates(c, r) == c.status # "clean" \/ r.hard

\* then each has its stage, but for the repeat
StagesOfThird(v, c, r) ==
    <<Rung(~Instructed(v, c), "contract", TRUE), Rung(~CheckedOut(v, c), "materialize", TRUE),
      Rung(~c.starts, "runner", TRUE), Rung(c.status = "raises", "source_clean", TRUE),
      Rung(WarmRaises(v, c, r), "killed", TRUE), Rung(~HasPacket(c, r), "runner_artifact", TRUE)>>

Ran == <<Rung(TRUE, "ran", FALSE)>>

cell_v3(p, c, r) ==
    FirstOf(StagesOfThird(3, c, r) \o <<Rung(Violates(c, r), "protocol_validation", TRUE)>> \o Ran).status

IdentifiedCell(v, p, c, r) ==
    FirstOf(StagesOfThird(v, c, r)
            \o <<Rung(~IdentityMatches(p, c), "model_identity", TRUE),
                 Rung(Violates(c, r), "protocol_validation", TRUE)>> \o Ran).status

\* and then, once more, every exception is as good as another: no identity
CaughtCell(v, p, c, r, other) ==
    FirstOf(<<Rung(\/ CellOfFirst(v, c, r) = "killed" \/ ~HasPacket(c, r)
                   \/ ~IdentityMatches(p, c), "model_identity", TRUE),
              Rung(Violates(c, r) \/ other, "protocol_validation", TRUE)>> \o Ran).status

Cell(p, c, r) ==
    CASE p.version \in 1..2 -> CellOfFirst(p.version, c, r)
      [] p.version = 3 -> cell_v3(p, c, r)
      [] p.version \in 4..7 -> IdentifiedCell(p.version, p, c, r)
      [] p.version = 8 -> CaughtCell(8, p, c, r, FALSE)
      [] p.version = 9 -> CaughtCell(9, p, c, r, ~c.alike)
-----------------------------------------------------------------------------
(* A pilot: nothing is ever resumed, the directory must be new.            *)

Left(what, stage, ran) == [left |-> what, stage |-> stage, ran |-> ran]

\* one driver writes its results, or stops, or dies without either
Driven(p, stages) ==
    LET ends == {i \in DOMAIN stages : i = p.cut \/ stages[i] # "ran"}
        i == CHOOSE i \in ends : \A j \in ends : i <= j
    IN  CASE ends = {} -> Left("results", "none", Len(p.cells))
          [] ends # {} -> IF i = p.cut \/ stages[i] = "killed" THEN Left("nothing", "killed", i)
                          ELSE Left("protocol-stop", stages[i], i)

Drive(p) == Driven(p, [i \in DOMAIN p.cells |-> Cell(p, p.cells[i], run(p.cells[i].run))])

Unregistered == Left("protocol-stop", "preregistration", 0)

\* out is what driving the cells leaves, if it comes to that
run_pilot_v1(p, out) == IF p.prepared THEN out ELSE Left("nothing", "killed", 0)
run_pilot_v2(p, out) == IF p.prepared THEN out ELSE Left("nothing", "killed", 0)
run_pilot_v3(p, out) == IF p.prepared THEN out ELSE Unregistered
run_pilot_v4(p, out) == IF p.prepared /\ model_identity_v4(p) THEN out ELSE Unregistered
run_pilot_v5(p, out) == IF p.prepared /\ model_identity_v5(p) THEN out ELSE Unregistered
run_pilot_v6(p, out) == IF p.prepared /\ model_identity_v6(p) THEN out ELSE Unregistered
run_pilot_v7(p, out) == IF p.prepared /\ model_identity_v7(p) THEN out ELSE Unregistered
run_pilot_v8(p, out) == IF p.prepared /\ model_identity_v8(p) THEN out ELSE Unregistered
run_pilot_v9(p, out) == IF p.prepared /\ model_identity_v9(p) THEN out ELSE Unregistered

Registered(p, out) ==
    CASE p.version = 1 -> run_pilot_v1(p, out) [] p.version = 2 -> run_pilot_v2(p, out)
      [] p.version = 3 -> run_pilot_v3(p, out) [] p.version = 4 -> run_pilot_v4(p, out)
      [] p.version = 5 -> run_pilot_v5(p, out) [] p.version = 6 -> run_pilot_v6(p, out)
      [] p.version = 7 -> run_pilot_v7(p, out) [] p.version = 8 -> run_pilot_v8(p, out)
      [] p.version = 9 -> run_pilot_v9(p, out)

\* Version 9 fixes the model and the budget.
run_pilot(p) ==
    CASE ~p.fresh \/ (p.version = 9 /\ (~p.budget \/ p.model # RequestedModel)) ->
             Left("refused", "none", 0)
      [] OTHER -> Registered(p, Drive(p))
=============================================================================
