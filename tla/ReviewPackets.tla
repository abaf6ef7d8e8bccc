---------------------------- MODULE ReviewPackets ----------------------------
(***************************************************************************)
(* The adapter of the temporal-review evaluations: one run of an agent is  *)
(* an event stream; the adapter summarises it, judges the answer against   *)
(* the task's contract and leaves one packet.  Ten protocol versions are   *)
(* kept side by side, 0 being the additive one before the reviews; a plain *)
(* surface of LoomGraph's navigation tools is below 0.                     *)
(*                                                                         *)
(* A stream is a sequence of events: a tool use with its call id, what a   *)
(* call returned, and results, which may carry the structured answer.      *)
(* Times, costs, hashes and the texts of the packets are left out.         *)
(***************************************************************************)
EXTENDS Integers, Sequences, FiniteSets, SequencesExt

CONSTANTS ToolCallBudget, NoAnswer

\* tools of MCP servers: LoomGraph's own, and one of any other server; apart
\* from them an agent reads, and gives its structured answer
McpTools == {"find", "graph", "diff", "foreign"}

\* the tools an arm of the surface may use; below 0 the plain surfaces
AllowedTools(surface) == IF surface >= 0 THEN {"diff"} ELSE {"find", "graph"}

\* Plain surfaces look at LoomGraph's own tools only.
Unexpected(surface, tools) ==
    {t \in tools \cap McpTools : /\ t \notin AllowedTools(surface)
                                 /\ surface < 0 => t # "foreign"}

Largest(S) == CHOOSE i \in S : \A j \in S : j <= i

\* What the agent's client writes: a call has an id of its own, and what it
\* returned comes after it.
IsList(l) == l \in Seq(Range(l))
IsStream(stream) ==
    /\ IsList(stream)
    /\ \A k, i \in DOMAIN stream :
          stream[k].type = "use" /\ stream[i].type \in {"use", "out"} /\ stream[i].id = stream[k].id =>
              IF stream[i].type = "use" THEN i = k ELSE k < i

UsesAt(stream) == {i \in DOMAIN stream : stream[i].type = "use"}
ToolsIn(stream) == {stream[i].tool : i \in UsesAt(stream)}

\* the name of a call: its last use's
ToolOf(stream, id) ==
    LET of == {i \in UsesAt(stream) : stream[i].id = id}
    IN  IF of = {} THEN "unknown" ELSE stream[Largest(of)].tool

\* where the stream has a branch-diff response; only later versions count
\* one that is no JSON object
DiffsAt(stream) ==
    {i \in DOMAIN stream : stream[i].type = "out" /\ ToolOf(stream, stream[i].id) = "diff"}

ObjectsAt(stream) == {i \in DiffsAt(stream) : stream[i].body.form = "object"}

\* The answer is that of the last result that has one.
AnswersAt(stream) ==
    {i \in DOMAIN stream : stream[i].type = "result" /\ stream[i].answer # NoAnswer}

FinalAt(stream) == IF AnswersAt(stream) = {} THEN 0 ELSE Largest(AnswersAt(stream))

summarize_stream(stream, surface) ==
    [uses       |-> UsesAt(stream),
     unexpected |-> Unexpected(surface, ToolsIn(stream)),
     objects    |-> ObjectsAt(stream),
     diffs      |-> DiffsAt(stream),
     final      |-> FinalAt(stream),
     answer     |-> IF FinalAt(stream) = 0 THEN NoAnswer ELSE stream[FinalAt(stream)].answer]

\* From version 7 on every model label of the stream must be well formed and
\* the assistant's must be there; "" is a malformed one.
LabelsValid(labels) == labels # <<>> /\ "" \notin Range(labels)
-----------------------------------------------------------------------------
(* What a branch-diff response is worth.                                   *)

Comparison(b) == <<b.provisioned, b.content>>

\* what is replayed where no response was selected
NoRaw == [form |-> "text"]
NoComparison == <<>>

\* Version 0: the refs by name, any commit, an available comparison.
parse_temporal_branch_diff_response(b) ==
    b.form = "object" /\ b.success /\ b.refs # "other" /\ b.content = "available"

\* The reviews freeze the commits and expect the task's comparison.
parse_raw_response(task, b) ==
    b.form = "object" /\ b.success /\ b.refs = "frozen" /\ b.content = task.expects

\* What the diff says of the required locus: content is looked up by path and
\* by the end of the name, an edge by the end of the name alone.
Supports(task, b) ==
    b.lists \cap (IF task.evidence = "content_delta" THEN {"required", "namesake"}
                  ELSE {"required", "namesake", "elsewhere"}) # {}

BoundaryOf(b) == b.content
-----------------------------------------------------------------------------
(* The oracles.  An answer names the loci to review; "ghost" is one the    *)
(* checkout does not define.                                               *)

\* the fields of an answer, which the versions share in groups
Fields(v) == CASE v = 0 -> 0 [] v = 1 -> 1 [] v = 2 -> 2
               [] v = 3 -> 3 [] v \in 4..5 -> 4 [] v \in 6..9 -> 6

NamesRequired(a) == "required" \in Range(a.loci)

\* The checkout's head defines every locus; the required one, if located.
AllResolve(q, a) == /\ "ghost" \notin Range(a.loci)
                    /\ q.task.located \/ ~NamesRequired(a)

\* the finding, and an explicit null where no comparison was to be had
available_comparison(trust) == trust # NoComparison /\ trust[2] = "available"
evaluate_finding_answer(q, a) ==
    /\ a.outcome
    /\ CASE q.condition = "baseline" -> a.trust = NoComparison
         [] q.condition = "treatment" -> available_comparison(a.trust)

\* phrases and loci, and a comparison with the status the task expects
validate_answer_comparison(task, trust) == trust = NoComparison \/ trust[2] = task.expects
validate_answer(q, a) ==
    /\ a.fields = 1 /\ a.outcome /\ NamesRequired(a)
    /\ validate_answer_comparison(q.task, a.trust)

\* in a treatment the comparison is that of a valid response
evaluate_review_answer(q, a, b) ==
    /\ validate_answer(q, a)
    /\ CASE q.condition = "baseline" -> a.trust = NoComparison
         [] q.condition = "treatment" ->
                parse_raw_response(q.task, b) /\ a.trust = Comparison(b)

\* outcome and one boundary for both arms, loci of the checkout
evaluate_v2(q, a, b) ==
    /\ a.fields = 2 /\ a.outcome /\ a.boundary = q.task.boundary
    /\ NamesRequired(a) /\ AllResolve(q, a)
    /\ CASE q.condition = "baseline" -> a.trust = NoComparison
         [] q.condition = "treatment" -> /\ parse_raw_response(q.task, b)
                                         /\ a.trust = Comparison(b)
                                         /\ Supports(q.task, b)

\* what an arm may know of the comparison
ArmBoundary(q) == IF q.condition = "baseline" THEN "not_observed" ELSE q.task.expects

\* Mutant: the answer is not held against the selected response.
RawIgnored(q, a, b) == q.condition = "treatment" => parse_raw_response(q.task, b)

RawAgrees(q, a, b) ==
    q.condition = "treatment" => /\ parse_raw_response(q.task, b)
                                 /\ a.boundary = BoundaryOf(b)
                                 /\ Supports(q.task, b)

\* outcome and the arm's boundary; the comparison is the adapter's affair
evaluate_v3(q, a, b) ==
    /\ a.fields = 3 /\ a.outcome /\ a.boundary = ArmBoundary(q)
    /\ NamesRequired(a) /\ AllResolve(q, a)
    /\ RawAgrees(q, a, b)

\* no outcome any more; at most three loci, none twice
evaluate_v4(q, a, b) ==
    /\ a.fields = 4 /\ a.boundary = ArmBoundary(q)
    /\ Len(a.loci) \in 1..3 /\ IsInjective(a.loci)
    /\ NamesRequired(a) /\ AllResolve(q, a)
    /\ RawAgrees(q, a, b)

evaluate_v5(q, a, b) == evaluate_v4(q, a, b)

\* exactly one locus, the required one; what failed is kept for the audit
failures_v6(q, a, b) ==
    IF a = NoAnswer THEN {"structure"}
    ELSE IF a.fields # 6 THEN {"structure"}
    ELSE {f \in {"boundary", "unresolved", "identity", "raw"} :
             CASE f = "boundary" -> a.boundary # ArmBoundary(q)
               [] f = "unresolved" -> ~AllResolve(q, a)
               [] f = "identity" -> a.loci # <<"required">> \/ ~AllResolve(q, a)
               [] f = "raw" -> ~RawAgrees(q, a, b)}
evaluate_v6(q, a, b) == failures_v6(q, a, b) = {}

evaluate_v7(q, a, b) == evaluate_v6(q, a, b)
evaluate_v8(q, a, b) == evaluate_v6(q, a, b)
evaluate_v9(q, a, b) == evaluate_v6(q, a, b)

Evaluate(v, q, a, b) ==
    CASE v = 3 -> evaluate_v3(q, a, b) [] v = 4 -> evaluate_v4(q, a, b)
      [] v = 5 -> evaluate_v5(q, a, b) [] v = 6 -> evaluate_v6(q, a, b)
      [] v = 7 -> evaluate_v7(q, a, b) [] v = 8 -> evaluate_v8(q, a, b)
      [] v = 9 -> evaluate_v9(q, a, b)
-----------------------------------------------------------------------------
(* The packets.  A packet's status is that of the first rung that holds;   *)
(* from version 3 on some of them stop the pilot.                          *)

Rung(holds, status, hard) == [holds |-> holds, status |-> status, hard |-> hard]

FirstOf(rungs) ==
    LET r == rungs[CHOOSE i \in DOMAIN rungs : /\ rungs[i].holds
                                               /\ \A j \in 1..i - 1 : ~rungs[j].holds]
    IN  [status |-> r.status, hard |-> r.hard]

Complete == <<Rung(TRUE, "complete", FALSE)>>

\* what every version looks at first; h: is it a reason to stop?
RunRungs(q, s, h) ==
    <<Rung(q.mutated, "invalid_source_mutation", h),
      Rung(q.failed, "agent_error", h),
      Rung(s.answer = NoAnswer, "missing_or_invalid_agent_response", FALSE)>>

Budget(s, h) == <<Rung(Cardinality(s.uses) > ToolCallBudget, "tool_call_budget_exceeded", h)>>
Foreign(s, h) == <<Rung(s.unexpected # {}, "unexpected_mcp_tool", h)>>
Oracle(passed) == <<Rung(~passed, "oracle_failed", FALSE)>>

\* A comparison is claimed as the one of some valid response.
Aligned(q, s, valid) ==
    \E i \in valid : s.answer # NoAnswer /\ s.answer.trust = Comparison(q.stream[i].body)

TrustRungs(q, s, valid) ==
    <<Rung(q.condition = "treatment" /\ valid = {}, "missing_treatment_comparison_evidence", FALSE),
      Rung(q.condition = "treatment" /\ ~Aligned(q, s, valid),
           "unverified_treatment_comparison_trust", FALSE)>>

\* An answer without trust next to a valid response ends in a KeyError.
build_temporal_packet(q) ==
    LET s == summarize_stream(q.stream, 0)
        a == s.answer
        valid == {i \in s.objects : parse_temporal_branch_diff_response(q.stream[i].body)}
        well == a # NoAnswer /\ a.fields = 0
    IN  FirstOf(<<Rung(valid # {} /\ a # NoAnswer /\ a.fields > 2, "raised", FALSE)>>
                \o RunRungs(q, s, FALSE)
                \o <<Rung(~well, "missing_or_invalid_agent_response", FALSE)>>
                \o Budget(s, FALSE) \o Foreign(s, FALSE)
                \o <<Rung(q.condition = "baseline" /\ a # NoAnswer /\ a.trust # NoComparison,
                          "unverified_baseline_comparison_trust", FALSE)>>
                \o TrustRungs(q, s, valid)
                \o Oracle(well /\ evaluate_finding_answer(q, a)) \o Complete)

\* the oracle passes with any of the responses
build_temporal_review_packet(q, s) ==
    LET valid == {i \in s.objects : parse_raw_response(q.task, q.stream[i].body)}
        passed == /\ s.answer # NoAnswer
                  /\ IF q.condition = "baseline" THEN evaluate_review_answer(q, s.answer, <<>>)
                     ELSE \E i \in s.objects : evaluate_review_answer(q, s.answer, q.stream[i].body)
    IN  FirstOf(RunRungs(q, s, FALSE) \o Budget(s, FALSE) \o Foreign(s, FALSE)
                \o TrustRungs(q, s, valid) \o Oracle(passed) \o Complete)

build_temporal_review_v2_packet(q) ==
    LET s == summarize_stream(q.stream, 2)
        valid == {i \in s.objects : parse_raw_response(q.task, q.stream[i].body)}
        passed == /\ s.answer # NoAnswer
                  /\ IF q.condition = "baseline" THEN evaluate_v2(q, s.answer, <<>>)
                     ELSE \E i \in s.objects : evaluate_v2(q, s.answer, q.stream[i].body)
    IN  FirstOf(RunRungs(q, s, FALSE) \o Budget(s, FALSE) \o Foreign(s, FALSE)
                \o TrustRungs(q, s, valid) \o Oracle(passed) \o Complete)

\* From version 3 on one response is selected and certified: the last valid
\* one before the answer.
Eligible(s) == {i \in s.diffs : i < s.final}
ValidAt(q, s) == {i \in Eligible(s) : parse_raw_response(q.task, q.stream[i].body)}
Selected(q, s) == Largest(ValidAt(q, s))

\* Mutant: a response after the answer is no reason to stop.
EvidenceOfAnyTime(q, s) ==
    LET t == q.condition = "treatment"
    IN  <<Rung(t /\ s.diffs = {}, "missing_treatment_comparison_evidence", TRUE),
          Rung(t /\ ValidAt(q, s) = {}, "missing_treatment_comparison_evidence", TRUE)>>

\* Every response must come before the answer and be valid.
EvidenceRungs(q, s) ==
    LET t == q.condition = "treatment"
    IN  <<Rung(t /\ s.diffs = {}, "missing_treatment_comparison_evidence", TRUE),
          Rung(t /\ Eligible(s) # s.diffs, "invalid_treatment_comparison_certificate", TRUE),
          Rung(t /\ ValidAt(q, s) # Eligible(s), "invalid_treatment_comparison_certificate", TRUE),
          Rung(t /\ ValidAt(q, s) = {}, "missing_treatment_comparison_evidence", TRUE)>>

Judge(v, q, s) ==
    s.answer # NoAnswer /\ IF q.condition = "baseline" THEN Evaluate(v, q, s.answer, <<>>)
                           ELSE /\ ValidAt(q, s) # {}
                                /\ Evaluate(v, q, s.answer, q.stream[Selected(q, s)].body)

build_temporal_review_v3_packet(q) ==
    LET s == summarize_stream(q.stream, 3)
    IN  FirstOf(RunRungs(q, s, TRUE) \o Budget(s, TRUE) \o Foreign(s, TRUE) \o EvidenceRungs(q, s)
                \o Oracle(Judge(3, q, s)) \o Complete)

build_temporal_review_v4_packet(q) ==
    LET s == summarize_stream(q.stream, 4)
    IN  FirstOf(RunRungs(q, s, TRUE) \o Budget(s, TRUE) \o Foreign(s, TRUE) \o EvidenceRungs(q, s)
                \o Oracle(Judge(4, q, s)) \o Complete)

\* no budget any more
build_temporal_review_v5_packet(q) ==
    LET s == summarize_stream(q.stream, 5)
    IN  FirstOf(RunRungs(q, s, TRUE) \o Foreign(s, TRUE) \o EvidenceRungs(q, s)
                \o Oracle(Judge(5, q, s)) \o Complete)

build_temporal_review_v6_packet(q) ==
    LET s == summarize_stream(q.stream, 6)
    IN  FirstOf(RunRungs(q, s, TRUE) \o Foreign(s, TRUE) \o EvidenceRungs(q, s)
                \o Oracle(Judge(6, q, s)) \o Complete)

\* The labels of the models must tell which model answered.
Labelled(v, q) ==
  LET s == summarize_stream(q.stream, v)
  IN
    FirstOf(RunRungs(q, s, TRUE)
            \o <<Rung(~LabelsValid(q.labels), "invalid_model_identity_evidence", TRUE)>>
            \o Foreign(s, TRUE) \o EvidenceRungs(q, s)
            \o Oracle(Judge(v, q, s)) \o Complete)

build_temporal_review_v7_packet(q) == Labelled(7, q)
build_temporal_review_v8_packet(q) == Labelled(8, q)
build_temporal_review_v9_packet(q) == Labelled(9, q)

\* the calibration before a pilot looks for an answer only
build_temporal_review_v9_calibration_packet(q) ==
    LET ok == ~q.mutated /\ ~q.failed /\ LabelsValid(q.labels)
              /\ summarize_stream(q.stream, 9).answer # NoAnswer
    IN  [status |-> IF ok THEN "complete" ELSE "failed", hard |-> ~ok]

\* What find or graph returned counts if it found something; a graph's
\* resolution may be cited, 0 is none.
RetrievalsAt(stream) ==
    {i \in DOMAIN stream : /\ stream[i].type = "out"
                           /\ ToolOf(stream, stream[i].id) \in {"find", "graph"}
                           /\ stream[i].body.success /\ stream[i].body.found}

Resolutions(stream) ==
    {stream[i].body.resolution : i \in {j \in RetrievalsAt(stream) :
                                           ToolOf(stream, stream[j].id) = "graph"}} \ {0}

\* a path outside of the checkout spoils the answer
normalize_candidate_paths(a) ==
    IF a = NoAnswer \/ "outside" \in Range(a.loci) THEN NoAnswer ELSE a

valid_payload(a, require_trust) ==
    /\ a # NoAnswer /\ Len(a.loci) \in 1..5
    /\ a.fields = IF require_trust THEN -2 ELSE -1

\* the plain surfaces: candidates, and if asked for the trust in the graph
build_packet(q) ==
    LET s == summarize_stream(q.stream, -1)
        a == normalize_candidate_paths(s.answer)
        well == valid_payload(a, q.require_trust)
        claims == q.require_trust /\ q.condition = "treatment"
    IN  FirstOf(RunRungs(q, s, FALSE)
                \o <<Rung(~well, "missing_or_invalid_agent_response", FALSE),
                     Rung(claims /\ well /\ a.trust = NoComparison,
                          "missing_treatment_trust_evidence", FALSE),
                     Rung(claims /\ well /\ \A r \in Resolutions(q.stream) : a.trust # <<r>>,
                          "unverified_treatment_trust_resolution", FALSE)>>
                \o Budget(s, FALSE) \o Foreign(s, FALSE)
                \o <<Rung(/\ q.condition = "treatment" /\ q.assisted
                          /\ RetrievalsAt(q.stream) = {},
                          "missing_assisted_structural_retrieval", FALSE)>>
                \o Complete)

Packet(v, q) ==
    CASE v = 0 -> build_temporal_packet(q)
      [] v = 1 -> build_temporal_review_packet(q, summarize_stream(q.stream, 1))
      [] v = 2 -> build_temporal_review_v2_packet(q) [] v = 3 -> build_temporal_review_v3_packet(q)
      [] v = 4 -> build_temporal_review_v4_packet(q) [] v = 5 -> build_temporal_review_v5_packet(q)
      [] v = 6 -> build_temporal_review_v6_packet(q) [] v = 7 -> build_temporal_review_v7_packet(q)
      [] v = 8 -> build_temporal_review_v8_packet(q) [] v = 9 -> build_temporal_review_v9_packet(q)
      [] v < 0 -> build_packet(q)
=============================================================================
