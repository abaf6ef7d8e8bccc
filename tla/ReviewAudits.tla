---------------------------- MODULE ReviewAudits -----------------------------
(***************************************************************************)
(* The audits of the pilots: no model is run again, every row is rebuilt   *)
(* from what the cells retained, and from version 6 on the cohort may ask  *)
(* for a larger one.                                                       *)
(*                                                                         *)
(* An audit starts from the pilot and what it left; since then something   *)
(* that was registered may have changed, or an audit been written.         *)
(***************************************************************************)
EXTENDS ReviewPilots

\* Pilots is a set of families of pilots.
CONSTANT Pilots

\* The driver asks for the runs, of its own version.
IsPilot(p) ==
    /\ p.version \in 1..9 /\ IsList(p.cells) /\ p.cut \in Nat
    /\ IsList(p.preflight.streams) /\ 1 \in DOMAIN p.preflight.streams
    /\ \A i \in DOMAIN p.preflight.streams : IsList(p.preflight.streams[i])
    /\ \A i \in DOMAIN p.cells :
          LET q == p.cells[i].run
          IN  /\ IsQuestion(q) /\ ~q.calibration
              /\ q.surface = p.version /\ q.contracts \subseteq {p.version}

ASSUME PilotAssumption == \A family \in Pilots : \A p \in family : IsPilot(p)

Row(valid, failures, mismatches) ==
    [valid |-> valid, failures |-> failures, mismatches |-> mismatches]

RefusedAudit == [status |-> "refused", rows |-> <<>>, eligible |-> FALSE]
Audit(rows, eligible) == [status |-> "audited", rows |-> rows, eligible |-> eligible]
-----------------------------------------------------------------------------
(* The first two read the packets alone, as many as there are.             *)

\* the cells that got as far as their adapter, and left a packet's file
Recorded(p, out) ==
    {i \in 1..out.ran : LET c == p.cells[i]
                        IN  /\ i # p.cut
                            /\ Instructed(p.version, c) /\ CheckedOut(p.version, c) /\ c.starts
                            /\ c.file # "missing"
                            /\ run(c.run).status \notin {"refused", "wasted"}}

Readable(p, recorded) == recorded # {} /\ \A i \in recorded : p.cells[i].file = "read"

\* Version 1 builds the packet anew, of the tools that are LoomGraph's: the
\* others' calls no longer count against the budget.
Rebuilt(q) ==
    LET s == summarize_stream(q.stream, 1)
    IN  build_temporal_review_packet(q, [s EXCEPT !.uses = {i \in @ : q.stream[i].tool = "diff"}])

audit_pilot_v1(p, recorded) ==
    IF ~Readable(p, recorded) THEN RefusedAudit
    ELSE Audit([i \in recorded |->
                   Row(Rebuilt(p.cells[i].run).status = "complete", {}, {})], FALSE)

\* Version 2 has results to audit, and a row is of a packet that is complete.
require_v2_root(out) == out.left = "results"

RawStatusFits(q) ==
    LET raw == ObjectsAt(q.stream)
    IN  CASE q.condition = "baseline" -> raw = {}
          [] q.condition = "treatment" -> \E i \in raw : parse_raw_response(q.task, q.stream[i].body)

semantic_replay_v2(q) ==
    LET a == summarize_stream(q.stream, 2).answer
    IN  /\ a # NoAnswer
        /\ CASE q.condition = "baseline" -> evaluate_v2(q, a, NoRaw)
             [] q.condition = "treatment" ->
                    \E i \in ObjectsAt(q.stream) : evaluate_v2(q, a, q.stream[i].body)

audit_run_v2(c) ==
    Row(/\ ~c.run.mutated /\ run(c.run).status = "complete"
        /\ RawStatusFits(c.run) /\ semantic_replay_v2(c.run), {}, {})

audit_pilot_v2(p, out, recorded) ==
    IF ~require_v2_root(out) \/ ~Readable(p, recorded) THEN RefusedAudit
    ELSE Audit([i \in recorded |-> audit_run_v2(p.cells[i])], FALSE)
-----------------------------------------------------------------------------
(* The later ones read the stream again; r is the packet of a cell's run.  *)

\* a branch-diff response by the last use of its id before it
raw_events_v3(stream) ==
    {i \in DOMAIN stream : /\ stream[i].type = "out"
                           /\ ToolOf(SubSeq(stream, 1, i), stream[i].id) = "diff"}
raw_events_v4(stream) == raw_events_v3(stream)
raw_events_v5(stream) == raw_events_v4(stream)
raw_events_v6(stream) == raw_events_v5(stream)
raw_events_v7(stream) == raw_events_v6(stream)
raw_events_v8(stream) == raw_events_v7(stream)
raw_events_v9(stream) == raw_events_v8(stream)

\* No other server's tools, in a baseline no server's; the packet counts the
\* same calls.
tool_trace_v5(q) ==
    ToolsIn(q.stream) \cap McpTools \subseteq IF q.condition = "treatment" THEN {"diff"} ELSE {}
tool_trace_v6(q) == tool_trace_v5(q)
tool_trace_v7(q) == tool_trace_v6(q)

\* and within the budget, while there was one
tool_trace_v3(q) == Cardinality(UsesAt(q.stream)) <= ToolCallBudget /\ tool_trace_v5(q)

\* valid responses before the answer, nothing else, and none in a baseline
RawTrace(q, raw) ==
    LET final == FinalAt(q.stream)
    IN  CASE q.condition = "baseline" -> raw = {}
          [] q.condition = "treatment" ->
                 /\ final # 0 /\ raw # {}
                 /\ \A i \in raw : i < final /\ parse_raw_response(q.task, q.stream[i].body)

Before(q, raw) ==
    {i \in raw : i < FinalAt(q.stream) /\ parse_raw_response(q.task, q.stream[i].body)}

\* what the oracle is given
SelectedRaw(q, raw) ==
    IF q.condition = "treatment" /\ Before(q, raw) # {} THEN q.stream[Largest(Before(q, raw))].body
    ELSE NoRaw

CertificateMatches(q, raw) ==
    q.condition = "treatment" =>
        LET s == summarize_stream(q.stream, q.surface)
        IN  /\ Before(q, raw) # {} /\ ValidAt(q, s) # {}
            /\ Largest(Before(q, raw)) = Selected(q, s)

\* Mutant: it may have built them again.
WarmAnyhow(v, c, r) ==
    c.run.condition = "treatment" => warm_repeat(v, c, r) /\ c.warm \in {"reused", "rebuilt"}

\* The repeat must have found both snapshots where the first call left them.
WarmValid(v, c, r) ==
    c.run.condition = "treatment" => warm_repeat(v, c, r) /\ c.warm = "reused"

SourceClean(c) == ~c.run.mutated /\ c.status = "clean"

\* a row without its semantics
Reproduced(v, c, r, raw, traced) ==
    /\ SourceClean(c) /\ ~c.run.failed /\ r.status = "complete"
    /\ RawTrace(c.run, raw) /\ traced
    /\ CertificateMatches(c.run, raw) /\ WarmValid(v, c, r)

Replayed(v, q, raw) ==
    LET a == summarize_stream(q.stream, q.surface).answer
    IN  a # NoAnswer /\ Evaluate(v, q, a, SelectedRaw(q, raw))

audit_cell_v3(c, r) ==
    LET raw == raw_events_v3(c.run.stream)
    IN  Row(Reproduced(3, c, r, raw, tool_trace_v3(c.run)) /\ Replayed(3, c.run, raw), {}, {})

\* the model is the registered one's, for the driver and once more
audit_cell_v4(p, c, r) ==
    LET raw == raw_events_v4(c.run.stream)
    IN  Row(/\ Reproduced(4, c, r, raw, tool_trace_v3(c.run)) /\ IdentityMatches(p, c)
            /\ Replayed(4, c.run, raw), {}, {})
audit_cell_v5(p, c, r) ==
    LET raw == raw_events_v5(c.run.stream)
    IN  Row(/\ Reproduced(5, c, r, raw, tool_trace_v5(c.run)) /\ IdentityMatches(p, c)
            /\ Replayed(5, c.run, raw), {}, {})

\* From version 6 on the answer is the retained result's, which is the last
\* one of the stream whether it has an answer or not.
Results(stream) == {j \in DOMAIN stream : stream[j].type = "result"}
final_payload_v6(q) == q.stream[Largest(Results(q.stream))].answer
final_payload_v7(q) == final_payload_v6(q)
final_payload_v8(q) == final_payload_v7(q)
final_payload_v9(q) == final_payload_v8(q)

PayloadMatches(q, payload) ==
    payload # NoAnswer /\ payload = summarize_stream(q.stream, q.surface).answer

\* what the packet said of the answer; a treatment without a response, nothing
Observed(q) ==
    LET s == summarize_stream(q.stream, q.surface)
    IN  CASE q.condition = "baseline" -> failures_v6(q, s.answer, NoRaw)
          [] q.condition = "treatment" -> IF ValidAt(q, s) = {} THEN {"none"}
                                          ELSE failures_v6(q, s.answer, q.stream[Selected(q, s)].body)

semantic_replay_v6(c, raw, payload) ==
    IF SourceClean(c) THEN failures_v6(c.run, payload, SelectedRaw(c.run, raw)) ELSE {"source"}
semantic_replay_v7(c, raw, payload) == semantic_replay_v6(c, raw, payload)

Retained(p, c, r, raw, traced, payload, failures) ==
    LET mismatches == {m \in {"semantic", "payload", "identity"} :
                          CASE m = "semantic" -> failures # Observed(c.run)
                            [] m = "payload" -> ~PayloadMatches(c.run, payload)
                            [] m = "identity" -> ~IdentityMatches(p, c)}
    IN  Row(Reproduced(p.version, c, r, raw, traced) /\ failures = {} /\ mismatches = {},
            failures, mismatches)

audit_cell_v6(p, c, r) ==
    LET raw == raw_events_v6(c.run.stream)
        payload == final_payload_v6(c.run)
    IN  Retained(p, c, r, raw, tool_trace_v6(c.run), payload, semantic_replay_v6(c, raw, payload))
audit_cell_v7(p, c, r) ==
    LET raw == raw_events_v7(c.run.stream)
        payload == final_payload_v7(c.run)
    IN  Retained(p, c, r, raw, tool_trace_v7(c.run), payload, semantic_replay_v7(c, raw, payload))
audit_cell_v8(p, c, r) ==
    LET raw == raw_events_v8(c.run.stream)
        payload == final_payload_v8(c.run)
    IN  Retained(p, c, r, raw, tool_trace_v7(c.run), payload, semantic_replay_v7(c, raw, payload))

\* and each arm ran the commands it was calibrated with
audit_cell_v9(p, c, r) ==
    LET raw == raw_events_v9(c.run.stream)
        payload == final_payload_v9(c.run)
    IN  Retained(p, c, r, raw, tool_trace_v7(c.run) /\ c.alike, payload,
                 semantic_replay_v7(c, raw, payload))
-----------------------------------------------------------------------------
(* The larger cohort: both arms of a pair must be valid, of three pairs    *)
(* and of one at least per task, and none of the answers beside the point. *)

paired_navigation_records_v6(rows) ==
    {i \in DOMAIN rows : i % 2 = 1 /\ i < Len(rows) /\ rows[i].valid /\ rows[i + 1].valid}
paired_navigation_records_v7(rows) == paired_navigation_records_v6(rows)

Gate(rows, pairs, counted) ==
    /\ Cardinality(pairs) >= 3
    /\ \A t \in {(i - 1) \div 4 : i \in DOMAIN rows} : \E i \in pairs : (i - 1) \div 4 = t
    /\ \A i \in DOMAIN rows : /\ rows[i].failures \cap {"unresolved", "structure"} = {}
                              /\ rows[i].mismatches \cap counted = {}

expansion_gate_v6(rows) ==
    Gate(rows, paired_navigation_records_v6(rows), {"semantic", "payload"})
expansion_gate_v7(rows) ==
    Gate(rows, paired_navigation_records_v7(rows), {"semantic", "payload", "identity"})
expansion_gate_v8(rows) ==
    Gate(rows, paired_navigation_records_v7(rows), {"semantic", "payload", "identity"})
expansion_gate_v9(rows) == expansion_gate_v8(rows)
-----------------------------------------------------------------------------
(* A later audit: of a whole cohort, and of what was registered for it.    *)

\* what the drivers register of the model; version 7 forgot one
RegisteredIdentity(v) ==
    {"labels"} \cup IF v \in 8..9 THEN {"model_categories_valid"} ELSE {}

CategoriesRegistered(v) == "model_categories_valid" \in RegisteredIdentity(v)

require_complete_root_v3(p, out) == out.left = "results" /\ p.frozen
require_complete_root_v4(p, out) == require_complete_root_v3(p, out) /\ model_identity_v4(p)
require_complete_root_v5(p, out) == require_complete_root_v3(p, out) /\ model_identity_v5(p)
require_complete_root_v6(p, out) == require_complete_root_v3(p, out) /\ model_identity_v6(p)
require_complete_root_v7(p, out) ==
    require_complete_root_v3(p, out) /\ CategoriesRegistered(7) /\ model_identity_v7(p)
require_complete_root_v8(p, out) ==
    require_complete_root_v3(p, out) /\ CategoriesRegistered(8) /\ model_identity_v8(p)
audit_calibrations(p) == model_identity_v9(p)
require_complete_root_v9(p, out) ==
    require_complete_root_v3(p, out) /\ CategoriesRegistered(9) /\ audit_calibrations(p)

\* A result that is not there is no JSON object, and ends the audit.
AllRetained(p) == \A i \in DOMAIN p.cells : Results(p.cells[i].run.stream) # {}

audit_pilot_v3(p, out, packets) ==
    IF ~require_complete_root_v3(p, out) \/ p.audited THEN RefusedAudit
    ELSE Audit([i \in DOMAIN p.cells |-> audit_cell_v3(p.cells[i], packets[i])], FALSE)
audit_pilot_v4(p, out, packets) ==
    IF ~require_complete_root_v4(p, out) \/ p.audited THEN RefusedAudit
    ELSE Audit([i \in DOMAIN p.cells |-> audit_cell_v4(p, p.cells[i], packets[i])], FALSE)
audit_pilot_v5(p, out, packets) ==
    IF ~require_complete_root_v5(p, out) \/ p.audited THEN RefusedAudit
    ELSE Audit([i \in DOMAIN p.cells |-> audit_cell_v5(p, p.cells[i], packets[i])], FALSE)
audit_pilot_v6(p, out, packets) ==
    LET rows == [i \in DOMAIN p.cells |-> audit_cell_v6(p, p.cells[i], packets[i])]
    IN  IF ~require_complete_root_v6(p, out) \/ ~AllRetained(p) \/ p.audited THEN RefusedAudit
        ELSE Audit(rows, expansion_gate_v6(rows))
audit_pilot_v7(p, out, packets) ==
    LET rows == [i \in DOMAIN p.cells |-> audit_cell_v7(p, p.cells[i], packets[i])]
    IN  IF ~require_complete_root_v7(p, out) \/ ~AllRetained(p) \/ p.audited THEN RefusedAudit
        ELSE Audit(rows, expansion_gate_v7(rows))

\* these write nothing
audit_pilot_v8(p, out, packets) ==
    LET rows == [i \in DOMAIN p.cells |-> audit_cell_v8(p, p.cells[i], packets[i])]
    IN  IF ~require_complete_root_v8(p, out) \/ ~AllRetained(p) THEN RefusedAudit
        ELSE Audit(rows, expansion_gate_v8(rows))
audit_pilot_v9(p, out, packets) ==
    LET rows == [i \in DOMAIN p.cells |-> audit_cell_v9(p, p.cells[i], packets[i])]
    IN  IF ~require_complete_root_v9(p, out) \/ ~AllRetained(p) THEN RefusedAudit
        ELSE Audit(rows, expansion_gate_v9(rows))

AuditOf(p, out, recorded, packets) ==
    CASE p.version = 1 -> audit_pilot_v1(p, recorded)
      [] p.version = 2 -> audit_pilot_v2(p, out, recorded)
      [] p.version = 3 -> audit_pilot_v3(p, out, packets)
      [] p.version = 4 -> audit_pilot_v4(p, out, packets)
      [] p.version = 5 -> audit_pilot_v5(p, out, packets)
      [] p.version = 6 -> audit_pilot_v6(p, out, packets)
      [] p.version = 7 -> audit_pilot_v7(p, out, packets)
      [] p.version = 8 -> audit_pilot_v8(p, out, packets)
      [] p.version = 9 -> audit_pilot_v9(p, out, packets)

audit_pilot(p, out) ==
    AuditOf(p, out, Recorded(p, out), [i \in DOMAIN p.cells |-> run(p.cells[i].run)])
-----------------------------------------------------------------------------
(* What a cohort is worth.                                                 *)

\* A cell that has to stop the pilot.  Only a run without an answer hides its
\* faults from it.
Spoiling(p, c, r) ==
    \/ ~Instructed(p.version, c) \/ ~CheckedOut(p.version, c) \/ ~c.starts \/ ~HasPacket(c, r)
    \/ c.status # "clean" \/ WarmRaises(p.version, c, r)
    \/ r.status # "missing_or_invalid_agent_response" /\ Faulty(c.run)
    \/ p.version >= 4 /\ Range(c.run.labels) # Range(p.preflight.streams[1])
    \/ p.version = 9 /\ ~c.alike

\* Versions 4 to 6 insist on the order in which the models appear, version 8
\* on how often they do.
LabelsAsRegistered(p, c) ==
    LET labels(l) == IF p.version \in 4..6 THEN FirstSeen(l) ELSE l
    IN  p.version \in {4, 5, 6, 8} => labels(c.run.labels) = labels(p.preflight.streams[1])

\* From version 3 on, results are only left by a pilot in which nothing went
\* wrong in any cell.  It stops at the first cell in which something did, and
\* for nothing else but the labels, and then nothing is run any more; without a
\* word it is only left when the driver is killed or a repeat raises.
PilotStopsAtFirstFault ==
    LET p == question
        spoiled(i) == Spoiling(p, p.cells[i], run(p.cells[i].run))
    IN  Answered("pilot") /\ p.version >= 3 /\ p.fresh =>
        /\ answer.left = "results" => p.prepared /\ \A i \in DOMAIN p.cells : ~spoiled(i)
        /\ \A i \in 1..answer.ran - 1 : ~spoiled(i)
        /\ answer.left = "protocol-stop" /\ answer.ran > 0 =>
              spoiled(answer.ran) \/ ~LabelsAsRegistered(p, p.cells[answer.ran])
        /\ answer.left = "nothing" =>
              \/ answer.ran = p.cut
              \/ LET c == p.cells[answer.ran] IN WarmRaises(p.version, c, run(c.run))

\* The last result of the stream is the one that is used.
LastIsUsed(q) == \E j \in DOMAIN q.stream : Used(q, j) /\ \A k \in j + 1..Len(q.stream) :
                                                              q.stream[k].type # "result"

\* the rows there are, each valid as it should
Confirmed(p, audited) ==
    /\ DOMAIN answer.rows = audited
    /\ \A i \in audited :
          LET c == p.cells[i]
              status == run(c.run).status
          IN  IF p.version = 1
              THEN answer.rows[i].valid => status \in {"complete", "tool_call_budget_exceeded"}
              ELSE answer.rows[i].valid <=>
                      /\ status = "complete"
                      /\ c.run.condition = "baseline" =>
                            IF p.version = 2 THEN ObjectsAt(c.run.stream) = {}
                            ELSE "diff" \notin ToolsIn(c.run.stream)
                      /\ p.version >= 3 /\ c.run.condition = "treatment" => c.warm = "reused"
                      /\ p.version >= 6 => LastIsUsed(c.run)

\* A row of an audit is valid only if the run's packet was complete, and the
\* packet of a valid run that did not use the tool in a baseline, whose repeat
\* found the snapshots and whose last result was its answer, is confirmed; so a
\* pilot has no other successes than its audit.  Version 1's audit forgets the
\* budget, and version 2's does not see a call that did not return an object.
AuditConfirms ==
    Answered("audit") /\ answer.status = "audited" =>
        Confirmed(question, IF question.version <= 2 THEN Recorded(question, run_pilot(question))
                            ELSE DOMAIN question.cells)

\* everything as it is meant to be; the later cohorts are of eight cells
Honest(p) ==
    LET known == Range(p.preflight.streams[1])
    IN  /\ p.cells # <<>> /\ (p.version >= 6 => Len(p.cells) = 8)
        /\ p.fresh /\ p.prepared /\ p.cut = 0 /\ p.frozen /\ ~p.audited
        /\ p.budget /\ p.model = RequestedModel /\ Own(p) /\ Probed(p.preflight)
        /\ ~p.preflight.specific /\ p.preflight.alike
        /\ p.version = 9 => known = {RequestedModel}
        /\ \A i \in DOMAIN p.preflight.streams : Range(p.preflight.streams[i]) = known
        /\ \A i \in DOMAIN p.cells :
              LET c == p.cells[i]
              IN  /\ c.site = [exists |-> FALSE, repository |-> TRUE, commits |-> "here",
                               visible |-> FALSE]
                  /\ c.run.surface = p.version /\ c.run.contracts = {p.version}
                  /\ c.run.ready /\ c.run.defects = {} /\ c.run.task.located
                  /\ c.run.condition = ArmAt(i)
                  /\ c.starts /\ c.file = "read" /\ c.status = "clean" /\ c.warm = "reused" /\ c.alike
                  /\ Obeys(c.run) /\ Range(c.run.labels) = known /\ LabelsAsRegistered(p, c)

\* A cohort in which everybody did as told ends with results, all confirmed,
\* and with leave to ask for more; only what version 7 registers its own audit
\* refuses.
HonestCohortPasses ==
    LET p == question
        out == run_pilot(p)
    IN  Answered("audit") /\ Honest(p) =>
        /\ out.left = "results" /\ out.ran = Len(p.cells)
        /\ IF p.version = 7 THEN answer.status = "refused"
           ELSE /\ answer.status = "audited"
                /\ \A i \in DOMAIN answer.rows : answer.rows[i].valid
                /\ p.version >= 6 => answer.eligible
=============================================================================
