---------------------------- MODULE ReviewProofs -----------------------------
(***************************************************************************)
(* What the packets of the temporal reviews, their pilots and the audits   *)
(* are worth, for all streams and all cohorts.                             *)
(***************************************************************************)
EXTENDS ReadingCommands, WellFoundedInduction, SequenceTheorems, FiniteSetTheorems, TLAPS

\* An answer once given is the one its command computes from the question.
ReviewInv ==
    /\ cmd = "orientation" => IsQuestion(question)
    /\ Answered("orientation") => answer = run(question)
    /\ cmd \in {"pilot", "audit"} => IsPilot(question)
    /\ Answered("pilot") => answer = run_pilot(question)
    /\ Answered("audit") => answer = audit_pilot(question, run_pilot(question))

\* Every answer is that of its operator on the question, which is well formed.
LEMMA ReviewAnswers == Spec => []ReviewInv
<1>1. Init => ReviewInv
  BY ReviewAssumption, PilotAssumption
     DEF Init, AnalysisAsked, ReviewAsked, PilotAsked, ReviewInv, Answered
<1>2. ReviewInv /\ [Next]_vars => ReviewInv'
  <2> SUFFICES ASSUME ReviewInv, [Next]_vars PROVE ReviewInv'
    OBVIOUS
  <2>1. CASE OrientationCommand
    BY <2>1 DEF ReviewInv, Answered, OrientationCommand, Answer
  <2>2. CASE PilotCommand
    BY <2>2 DEF ReviewInv, Answered, PilotCommand, Answer
  <2>3. CASE AuditCommand
    BY <2>3 DEF ReviewInv, Answered, AuditCommand, Answer
  <2>4. CASE AnalysisStep
    <3>1. cmd' = cmd /\ cmd \notin {"orientation", "pilot", "audit"}
      BY <2>4 DEF Answer, AnalysisStep, BranchDiffCommand, CompareCommand, CodegraphDiffCommand,
                  ImpactCommand, ChangedCommand, GraphCommand, DepsCommand, TopologyCommand,
                  GitMetricsCommand, DebtCommand
    <3> QED
      BY <3>1 DEF ReviewInv, Answered
  <2>5. CASE UNCHANGED vars
    BY <2>5 DEF ReviewInv, Answered, vars
  <2> QED
    BY <2>1, <2>2, <2>3, <2>4, <2>5 DEF Next
<1> QED
  BY <1>1, <1>2, PTL DEF Spec
-----------------------------------------------------------------------------
(* Ladders: the first rung that holds.                                     *)

Verdicts ==
    {"raised", "invalid_source_mutation", "agent_error", "missing_or_invalid_agent_response",
     "invalid_model_identity_evidence", "tool_call_budget_exceeded", "unexpected_mcp_tool",
     "unverified_baseline_comparison_trust", "missing_treatment_comparison_evidence",
     "unverified_treatment_comparison_trust", "invalid_treatment_comparison_certificate",
     "missing_treatment_trust_evidence", "unverified_treatment_trust_resolution",
     "missing_assisted_structural_retrieval", "oracle_failed", "complete",
     "contract", "materialize", "runner", "source_clean", "killed", "runner_artifact",
     "model_identity", "protocol_validation", "ran"}
Rungs == [holds : BOOLEAN, status : Verdicts, hard : BOOLEAN]
Stops(rungs) == \E i \in DOMAIN rungs : rungs[i].holds

\* A set of numbers that is not empty has a least one.
LEMMA LeastOne ==
    ASSUME NEW S, S \subseteq Nat, S # {}
    PROVE  \E m \in S : \A k \in S : m <= k
<1>1. PICK m \in S : \A k \in S : <<k, m>> \notin OpToRel(<, Nat)
  BY NatLessThanWellFounded, WFMin
<1>2. \A k \in S : ~(k < m)
  BY <1>1 DEF OpToRel
<1> QED
  BY <1>2

\* The rung that is used is the only one that holds with none before it.
LEMMA FirstRung ==
    ASSUME NEW rungs \in Seq(Rungs), NEW i \in DOMAIN rungs,
           rungs[i].holds, \A j \in 1..i - 1 : ~rungs[j].holds
    PROVE  FirstOf(rungs) = [status |-> rungs[i].status, hard |-> rungs[i].hard]
<1> DEFINE first(k) == rungs[k].holds /\ \A j \in 1..k - 1 : ~rungs[j].holds
<1>1. DOMAIN rungs = 1..Len(rungs) /\ Len(rungs) \in Nat
  OBVIOUS
<1>2. \A k \in DOMAIN rungs : first(k) => k = i
  <2> SUFFICES ASSUME NEW k \in DOMAIN rungs, first(k) PROVE k = i
    OBVIOUS
  <2>1. k < i => FALSE
    BY <1>1
  <2>2. i < k => FALSE
    BY <1>1
  <2> QED
    BY <1>1, <2>1, <2>2
<1>3. (CHOOSE k \in DOMAIN rungs : first(k)) = i
  BY <1>2
<1> QED
  BY <1>3 DEF FirstOf

\* If a ladder has a rung that holds, there is a first one.
LEMMA SomeFirst ==
    ASSUME NEW rungs \in Seq(Rungs), Stops(rungs)
    PROVE  \E i \in DOMAIN rungs : rungs[i].holds /\ \A j \in 1..i - 1 : ~rungs[j].holds
<1>1. DOMAIN rungs = 1..Len(rungs) /\ Len(rungs) \in Nat
  OBVIOUS
<1> DEFINE holding == {i \in DOMAIN rungs : rungs[i].holds}
<1>2. holding \subseteq Nat /\ holding # {}
  BY <1>1 DEF Stops
<1>3. PICK i \in holding : \A k \in holding : i <= k
  BY <1>2, LeastOne
<1> QED
  BY <1>1, <1>3

\* Of two ladders, one on the other, the first that stops is used.
LEMMA FirstOfTwo ==
    ASSUME NEW s \in Seq(Rungs), NEW t \in Seq(Rungs)
    PROVE  /\ s \o t \in Seq(Rungs)
           /\ Stops(s \o t) <=> Stops(s) \/ Stops(t)
           /\ Stops(s) => FirstOf(s \o t) = FirstOf(s)
           /\ ~Stops(s) /\ Stops(t) => FirstOf(s \o t) = FirstOf(t)
<1> DEFINE u == s \o t
<1>1. /\ u \in Seq(Rungs) /\ Len(u) = Len(s) + Len(t)
      /\ \A i \in 1..Len(u) : u[i] = IF i <= Len(s) THEN s[i] ELSE t[i - Len(s)]
  BY ConcatProperties
<1>2. /\ DOMAIN s = 1..Len(s) /\ DOMAIN t = 1..Len(t) /\ DOMAIN u = 1..Len(u)
      /\ Len(s) \in Nat /\ Len(t) \in Nat
  BY <1>1
<1> HIDE DEF u
<1>3. \A i \in DOMAIN s : i \in DOMAIN u /\ u[i] = s[i]
  BY <1>1, <1>2
<1>4. \A i \in DOMAIN t : i + Len(s) \in DOMAIN u /\ u[i + Len(s)] = t[i]
  BY <1>1, <1>2
<1>5. \A i \in DOMAIN u : i \in DOMAIN s \/ i - Len(s) \in DOMAIN t
  BY <1>1, <1>2
<1>6. Stops(u) <=> Stops(s) \/ Stops(t)
  <2>1. Stops(u) => Stops(s) \/ Stops(t)
    BY <1>1, <1>2, <1>5 DEF Stops
  <2> QED
    BY <2>1, <1>3, <1>4 DEF Stops
<1>7. ASSUME Stops(s) PROVE FirstOf(u) = FirstOf(s)
  <2>1. PICK i \in DOMAIN s : s[i].holds /\ \A j \in 1..i - 1 : ~s[j].holds
    BY <1>7, SomeFirst
  <2>2. u[i].holds /\ \A j \in 1..i - 1 : ~u[j].holds
    BY <1>2, <1>3, <2>1
  <2>3. FirstOf(s) = [status |-> s[i].status, hard |-> s[i].hard]
    BY <2>1, FirstRung
  <2>4. FirstOf(u) = [status |-> u[i].status, hard |-> u[i].hard]
    BY <1>1, <1>3, <2>2, FirstRung
  <2> QED
    BY <1>3, <2>3, <2>4
<1>8. ASSUME ~Stops(s), Stops(t) PROVE FirstOf(u) = FirstOf(t)
  <2>1. PICK i \in DOMAIN t : t[i].holds /\ \A j \in 1..i - 1 : ~t[j].holds
    BY <1>8, SomeFirst
  <2>2. u[i + Len(s)].holds
    BY <1>4, <2>1
  <2>3. ASSUME NEW j \in 1..(i + Len(s)) - 1 PROVE ~u[j].holds
    <3>1. CASE j \in DOMAIN s
      BY <1>3, <1>8, <3>1 DEF Stops
    <3>2. CASE j - Len(s) \in 1..i - 1
      <4>1. j - Len(s) \in DOMAIN t /\ u[j] = t[j - Len(s)]
        BY <1>1, <1>2, <3>2
      <4> QED
        BY <2>1, <3>2, <4>1
    <3> QED
      BY <1>2, <3>1, <3>2
  <2>4. FirstOf(t) = [status |-> t[i].status, hard |-> t[i].hard]
    BY <2>1, FirstRung
  <2>5. FirstOf(u) = [status |-> u[i + Len(s)].status, hard |-> u[i + Len(s)].hard]
    BY <1>1, <1>4, <2>2, <2>3, FirstRung
  <2> QED
    BY <1>4, <2>4, <2>5
<1> QED
  BY <1>1, <1>6, <1>7, <1>8 DEF u

\* A ladder of faults: whatever holds stops the pilot, and is neither a
\* success nor a missing answer.
NoFault == {"complete", "missing_or_invalid_agent_response", "refused", "wasted"}
Strict(rungs) ==
    /\ rungs \in Seq(Rungs)
    /\ \A i \in DOMAIN rungs : rungs[i].holds => rungs[i].hard /\ rungs[i].status \notin NoFault

\* Strict ladders on each other are one.
LEMMA StrictOnStrict ==
    ASSUME NEW s, Strict(s), NEW t, Strict(t)
    PROVE  Strict(s \o t) /\ (Stops(s \o t) <=> Stops(s) \/ Stops(t))
<1> DEFINE u == s \o t
<1>1. /\ s \in Seq(Rungs) /\ t \in Seq(Rungs)
      /\ u \in Seq(Rungs) /\ Len(u) = Len(s) + Len(t)
      /\ \A i \in 1..Len(u) : u[i] = IF i <= Len(s) THEN s[i] ELSE t[i - Len(s)]
  BY ConcatProperties DEF Strict
<1>2. Stops(u) <=> Stops(s) \/ Stops(t)
  BY <1>1, FirstOfTwo
<1>3. ASSUME NEW i \in DOMAIN u, u[i].holds PROVE u[i].hard /\ u[i].status \notin NoFault
  <2>1. i \in 1..Len(u) /\ Len(s) \in Nat /\ Len(t) \in Nat
    BY <1>1
  <2> HIDE DEF u
  <2>2. CASE i <= Len(s)
    <3>1. i \in DOMAIN s /\ u[i] = s[i]
      BY <1>1, <2>1, <2>2
    <3> QED
      BY <1>3, <3>1 DEF Strict
  <2>3. CASE i > Len(s)
    <3>1. i - Len(s) \in DOMAIN t /\ u[i] = t[i - Len(s)]
      BY <1>1, <2>1, <2>3
    <3> QED
      BY <1>3, <3>1 DEF Strict
  <2> QED
    BY <2>1, <2>2, <2>3
<1> QED
  BY <1>1, <1>2, <1>3 DEF Strict

\* A ladder of one rung.
LEMMA OneRung ==
    ASSUME NEW r \in Rungs
    PROVE  /\ <<r>> \in Seq(Rungs) /\ (Stops(<<r>>) <=> r.holds)
           /\ r.holds => FirstOf(<<r>>) = [status |-> r.status, hard |-> r.hard]
<1>1. <<r>> \in Seq(Rungs) /\ DOMAIN <<r>> = {1} /\ <<r>>[1] = r
  OBVIOUS
<1>2. Stops(<<r>>) <=> r.holds
  BY <1>1 DEF Stops
<1>3. ASSUME r.holds PROVE FirstOf(<<r>>) = [status |-> r.status, hard |-> r.hard]
  <2> DEFINE l == <<r>>
  <2>1. l \in Seq(Rungs) /\ DOMAIN l = {1} /\ l[1] = r
    BY <1>1
  <2> HIDE DEF l
  <2>2. FirstOf(l) = [status |-> l[1].status, hard |-> l[1].hard]
    BY <1>3, <2>1, FirstRung
  <2> QED
    BY <2>1, <2>2 DEF l
<1> QED
  BY <1>1, <1>2, <1>3

\* A packet whose ladder is strict but for the oracle: a fault is hard, what
\* the oracle says is not.
LEMMA FaultsThenOracle ==
    ASSUME NEW s, Strict(s), NEW ok \in BOOLEAN
    PROVE  LET r == FirstOf(s \o Oracle(ok) \o Complete)
           IN  IF Stops(s) THEN r.hard = TRUE /\ r.status \notin NoFault
               ELSE r = [status |-> IF ok THEN "complete" ELSE "oracle_failed", hard |-> FALSE]
<1> DEFINE t == s \o Oracle(ok)
<1>1. /\ Oracle(ok) \in Seq(Rungs) /\ (Stops(Oracle(ok)) <=> ~ok)
      /\ Complete \in Seq(Rungs) /\ Stops(Complete)
      /\ ~ok => FirstOf(Oracle(ok)) = [status |-> "oracle_failed", hard |-> FALSE]
      /\ FirstOf(Complete) = [status |-> "complete", hard |-> FALSE]
  <2> DEFINE o == Rung(~ok, "oracle_failed", FALSE)
             c == Rung(TRUE, "complete", FALSE)
  <2>1. /\ o \in Rungs /\ (o.holds <=> ~ok) /\ o.status = "oracle_failed" /\ o.hard = FALSE
        /\ c \in Rungs /\ c.holds /\ c.status = "complete" /\ c.hard = FALSE
    BY DEF Rung, Rungs, Verdicts
  <2>2. Oracle(ok) = <<o>> /\ Complete = <<c>>
    BY DEF Oracle, Complete
  <2> HIDE DEF o, c
  <2> QED
    BY <2>1, <2>2, OneRung
<1>2. s \in Seq(Rungs)
  BY DEF Strict
<1>3. /\ t \in Seq(Rungs) /\ (Stops(t) <=> Stops(s) \/ ~ok)
      /\ Stops(s) => FirstOf(t) = FirstOf(s)
      /\ ~Stops(s) /\ ~ok => FirstOf(t) = FirstOf(Oracle(ok))
  BY <1>1, <1>2, FirstOfTwo
<1>4. /\ Stops(t) => FirstOf(t \o Complete) = FirstOf(t)
      /\ ~Stops(t) => FirstOf(t \o Complete) = FirstOf(Complete)
  BY <1>1, <1>3, FirstOfTwo
<1>5. ASSUME Stops(s) PROVE FirstOf(s).hard = TRUE /\ FirstOf(s).status \notin NoFault
  <2>1. PICK i \in DOMAIN s : s[i].holds /\ \A j \in 1..i - 1 : ~s[j].holds
    BY <1>2, <1>5, SomeFirst
  <2>2. FirstOf(s) = [status |-> s[i].status, hard |-> s[i].hard]
    BY <1>2, <2>1, FirstRung
  <2>3. s[i].hard /\ s[i].status \notin NoFault /\ s[i] \in Rungs
    BY <1>2, <2>1 DEF Strict
  <2> QED
    BY <2>2, <2>3 DEF Rungs
<1> QED
  BY <1>1, <1>3, <1>4, <1>5

\* A rung that may hold and is then a fault.
Fault(r) == r \in Rungs /\ (r.holds => r.hard /\ r.status \notin NoFault)

\* Ladders of one, three and four faults.
LEMMA FaultsAreStrict ==
    /\ \A a : Fault(a) => Strict(<<a>>) /\ (Stops(<<a>>) <=> a.holds)
    /\ \A a, b, c : Fault(a) /\ Fault(b) /\ Fault(c) =>
          Strict(<<a, b, c>>) /\ (Stops(<<a, b, c>>) <=> a.holds \/ b.holds \/ c.holds)
    /\ \A a, b, c, d : Fault(a) /\ Fault(b) /\ Fault(c) /\ Fault(d) =>
          /\ Strict(<<a, b, c, d>>)
          /\ Stops(<<a, b, c, d>>) <=> a.holds \/ b.holds \/ c.holds \/ d.holds
<1>1. ASSUME NEW a, Fault(a)
      PROVE  Strict(<<a>>) /\ (Stops(<<a>>) <=> a.holds)
  <2>1. a \in Rungs
    BY <1>1 DEF Fault
  <2> DEFINE l == <<a>>
  <2>2. l \in Seq(Rungs) /\ DOMAIN l = {1} /\ l[1] = a
    BY <2>1
  <2> HIDE DEF l
  <2>3. Strict(l) /\ (Stops(l) <=> a.holds)
    BY <1>1, <2>2 DEF Strict, Stops, Fault
  <2> QED
    BY <2>3 DEF l
<1>2. ASSUME NEW a, NEW b, NEW c, Fault(a), Fault(b), Fault(c)
      PROVE  Strict(<<a, b, c>>) /\ (Stops(<<a, b, c>>) <=> a.holds \/ b.holds \/ c.holds)
  <2>1. a \in Rungs /\ b \in Rungs /\ c \in Rungs
    BY <1>2 DEF Fault
  <2> DEFINE l == <<a, b, c>>
  <2>2. l \in Seq(Rungs) /\ DOMAIN l = {1, 2, 3} /\ l[1] = a /\ l[2] = b /\ l[3] = c
    BY <2>1
  <2> HIDE DEF l
  <2>3. Strict(l) /\ (Stops(l) <=> a.holds \/ b.holds \/ c.holds)
    BY <1>2, <2>2 DEF Strict, Stops, Fault
  <2> QED
    BY <2>3 DEF l
<1>3. ASSUME NEW a, NEW b, NEW c, NEW d, Fault(a), Fault(b), Fault(c), Fault(d)
      PROVE  /\ Strict(<<a, b, c, d>>)
             /\ Stops(<<a, b, c, d>>) <=> a.holds \/ b.holds \/ c.holds \/ d.holds
  <2>1. a \in Rungs /\ b \in Rungs /\ c \in Rungs /\ d \in Rungs
    BY <1>3 DEF Fault
  <2> DEFINE l == <<a, b, c, d>>
  <2>2. /\ l \in Seq(Rungs) /\ DOMAIN l = {1, 2, 3, 4}
        /\ l[1] = a /\ l[2] = b /\ l[3] = c /\ l[4] = d
    BY <2>1
  <2> HIDE DEF l
  <2>3. Strict(l) /\ (Stops(l) <=> a.holds \/ b.holds \/ c.holds \/ d.holds)
    BY <1>3, <2>2 DEF Strict, Stops, Fault
  <2> QED
    BY <2>3 DEF l
<1> QED
  BY <1>1, <1>2, <1>3
-----------------------------------------------------------------------------
(* The packets from version 3 on.                                          *)

\* What stops the pilot, by what the summary of the stream says.
Disordered(q, s) ==
    /\ q.condition = "treatment"
    /\ s.diffs = {} \/ Eligible(s) # s.diffs \/ ValidAt(q, s) # Eligible(s) \/ ValidAt(q, s) = {}

Stopping(v, q, s) ==
    \/ q.mutated \/ q.failed \/ s.unexpected # {} \/ Disordered(q, s)
    \/ v <= 4 /\ Cardinality(s.uses) > ToolCallBudget
    \/ v >= 7 /\ ~LabelsValid(q.labels)

\* The pieces of the ladders are strict.
LEMMA Pieces ==
    ASSUME NEW q, {q.mutated, q.failed} \subseteq BOOLEAN, NEW s
    PROVE  /\ s.answer # NoAnswer =>
                 /\ Strict(RunRungs(q, s, TRUE))
                 /\ Stops(RunRungs(q, s, TRUE)) <=> q.mutated \/ q.failed
           /\ Strict(Budget(s, TRUE))
           /\ Stops(Budget(s, TRUE)) <=> Cardinality(s.uses) > ToolCallBudget
           /\ Strict(Foreign(s, TRUE)) /\ (Stops(Foreign(s, TRUE)) <=> s.unexpected # {})
           /\ Strict(EvidenceRungs(q, s)) /\ (Stops(EvidenceRungs(q, s)) <=> Disordered(q, s))
<1>1. ASSUME NEW holds \in BOOLEAN, NEW status \in Verdicts \ NoFault
      PROVE  Fault(Rung(holds, status, TRUE)) /\ (Rung(holds, status, TRUE).holds <=> holds)
  BY DEF Fault, Rung, Rungs
<1>2. /\ Fault(Rung(FALSE, "missing_or_invalid_agent_response", FALSE))
      /\ ~Rung(FALSE, "missing_or_invalid_agent_response", FALSE).holds
  BY DEF Fault, Rung, Rungs, Verdicts
<1>3. /\ "invalid_source_mutation" \in Verdicts \ NoFault /\ "agent_error" \in Verdicts \ NoFault
      /\ "tool_call_budget_exceeded" \in Verdicts \ NoFault
      /\ "unexpected_mcp_tool" \in Verdicts \ NoFault
      /\ "missing_treatment_comparison_evidence" \in Verdicts \ NoFault
      /\ "invalid_treatment_comparison_certificate" \in Verdicts \ NoFault
  BY DEF Verdicts, NoFault
<1>4. ASSUME s.answer # NoAnswer
      PROVE  /\ Strict(RunRungs(q, s, TRUE))
             /\ Stops(RunRungs(q, s, TRUE)) <=> q.mutated \/ q.failed
  <2>1. (s.answer = NoAnswer) = FALSE
    BY <1>4
  <2>2. RunRungs(q, s, TRUE) =
           <<Rung(q.mutated, "invalid_source_mutation", TRUE), Rung(q.failed, "agent_error", TRUE),
             Rung(FALSE, "missing_or_invalid_agent_response", FALSE)>>
    BY <2>1 DEF RunRungs
  <2>3. /\ Fault(Rung(q.mutated, "invalid_source_mutation", TRUE))
        /\ Rung(q.mutated, "invalid_source_mutation", TRUE).holds <=> q.mutated
    BY <1>1, <1>3
  <2>4. /\ Fault(Rung(q.failed, "agent_error", TRUE))
        /\ Rung(q.failed, "agent_error", TRUE).holds <=> q.failed
    BY <1>1, <1>3
  <2> QED
    BY <1>2, <2>2, <2>3, <2>4, FaultsAreStrict
<1>5. /\ Strict(Budget(s, TRUE))
      /\ Stops(Budget(s, TRUE)) <=> Cardinality(s.uses) > ToolCallBudget
  <2> DEFINE h == Cardinality(s.uses) > ToolCallBudget
  <2>1. h \in BOOLEAN
    OBVIOUS
  <2>2. Budget(s, TRUE) = <<Rung(h, "tool_call_budget_exceeded", TRUE)>>
    BY DEF Budget
  <2> HIDE DEF h
  <2>3. /\ Fault(Rung(h, "tool_call_budget_exceeded", TRUE))
        /\ Rung(h, "tool_call_budget_exceeded", TRUE).holds <=> h
    BY <1>1, <1>3, <2>1
  <2>4. Strict(Budget(s, TRUE)) /\ (Stops(Budget(s, TRUE)) <=> h)
    BY <2>2, <2>3, FaultsAreStrict
  <2> QED
    BY <2>4 DEF h
<1>6. Strict(Foreign(s, TRUE)) /\ (Stops(Foreign(s, TRUE)) <=> s.unexpected # {})
  <2> DEFINE h == s.unexpected # {}
  <2>1. h \in BOOLEAN
    OBVIOUS
  <2>2. Foreign(s, TRUE) = <<Rung(h, "unexpected_mcp_tool", TRUE)>>
    BY DEF Foreign
  <2> HIDE DEF h
  <2>3. /\ Fault(Rung(h, "unexpected_mcp_tool", TRUE))
        /\ Rung(h, "unexpected_mcp_tool", TRUE).holds <=> h
    BY <1>1, <1>3, <2>1
  <2>4. Strict(Foreign(s, TRUE)) /\ (Stops(Foreign(s, TRUE)) <=> h)
    BY <2>2, <2>3, FaultsAreStrict
  <2> QED
    BY <2>4 DEF h
<1>7. Strict(EvidenceRungs(q, s)) /\ (Stops(EvidenceRungs(q, s)) <=> Disordered(q, s))
  <2> DEFINE t == q.condition = "treatment"
             h1 == t /\ s.diffs = {}
             h2 == t /\ Eligible(s) # s.diffs
             h3 == t /\ ValidAt(q, s) # Eligible(s)
             h4 == t /\ ValidAt(q, s) = {}
  <2>1. h1 \in BOOLEAN /\ h2 \in BOOLEAN /\ h3 \in BOOLEAN /\ h4 \in BOOLEAN
    OBVIOUS
  <2>2. EvidenceRungs(q, s) =
           <<Rung(h1, "missing_treatment_comparison_evidence", TRUE),
             Rung(h2, "invalid_treatment_comparison_certificate", TRUE),
             Rung(h3, "invalid_treatment_comparison_certificate", TRUE),
             Rung(h4, "missing_treatment_comparison_evidence", TRUE)>>
    BY DEF EvidenceRungs
  <2>3. Disordered(q, s) <=> h1 \/ h2 \/ h3 \/ h4
    BY DEF Disordered
  <2> HIDE DEF h1, h2, h3, h4
  <2>4. ASSUME NEW h \in BOOLEAN
        PROVE  /\ Fault(Rung(h, "missing_treatment_comparison_evidence", TRUE))
               /\ Fault(Rung(h, "invalid_treatment_comparison_certificate", TRUE))
               /\ Rung(h, "missing_treatment_comparison_evidence", TRUE).holds <=> h
               /\ Rung(h, "invalid_treatment_comparison_certificate", TRUE).holds <=> h
    BY <1>1, <1>3
  <2> DEFINE a == Rung(h1, "missing_treatment_comparison_evidence", TRUE)
             b == Rung(h2, "invalid_treatment_comparison_certificate", TRUE)
             c == Rung(h3, "invalid_treatment_comparison_certificate", TRUE)
             d == Rung(h4, "missing_treatment_comparison_evidence", TRUE)
  <2>5. /\ Fault(a) /\ (a.holds <=> h1) /\ Fault(b) /\ (b.holds <=> h2)
        /\ Fault(c) /\ (c.holds <=> h3) /\ Fault(d) /\ (d.holds <=> h4)
    BY <2>1, <2>4
  <2>6. EvidenceRungs(q, s) = <<a, b, c, d>>
    BY <2>2
  <2> HIDE DEF a, b, c, d
  <2> QED
    BY <2>3, <2>5, <2>6, FaultsAreStrict
<1> QED
  BY <1>4, <1>5, <1>6, <1>7

\* A run without an answer is one, unless the agent failed or the source
\* changed; h: does a fault stop the pilot?
LEMMA NoAnswerRungs ==
    ASSUME NEW q, {q.mutated, q.failed} \subseteq BOOLEAN, NEW s, s.answer = NoAnswer,
           NEW h \in BOOLEAN
    PROVE  /\ RunRungs(q, s, h) \in Seq(Rungs) /\ Stops(RunRungs(q, s, h))
           /\ FirstOf(RunRungs(q, s, h)) =
                 IF q.mutated THEN [status |-> "invalid_source_mutation", hard |-> h]
                 ELSE IF q.failed THEN [status |-> "agent_error", hard |-> h]
                 ELSE [status |-> "missing_or_invalid_agent_response", hard |-> FALSE]
<1> DEFINE a == Rung(q.mutated, "invalid_source_mutation", h)
           b == Rung(q.failed, "agent_error", h)
           c == Rung(TRUE, "missing_or_invalid_agent_response", FALSE)
           l == <<a, b, c>>
<1>1. (s.answer = NoAnswer) = TRUE
  OBVIOUS
<1>2. RunRungs(q, s, h) = l
  BY <1>1 DEF RunRungs
<1>3. /\ a \in Rungs /\ (a.holds <=> q.mutated)
      /\ a.status = "invalid_source_mutation" /\ a.hard = h
      /\ b \in Rungs /\ (b.holds <=> q.failed) /\ b.status = "agent_error" /\ b.hard = h
      /\ c \in Rungs /\ c.holds
      /\ c.status = "missing_or_invalid_agent_response" /\ c.hard = FALSE
  BY DEF Rung, Rungs, Verdicts
<1> HIDE DEF a, b, c
<1>4. l \in Seq(Rungs) /\ DOMAIN l = {1, 2, 3} /\ l[1] = a /\ l[2] = b /\ l[3] = c
  BY <1>3
<1> HIDE DEF l
<1>5. Stops(l)
  BY <1>3, <1>4 DEF Stops
<1>6. PICK i \in DOMAIN l : l[i].holds /\ \A j \in 1..i - 1 : ~l[j].holds
  BY <1>4, <1>5, SomeFirst
<1>7. FirstOf(l) = [status |-> l[i].status, hard |-> l[i].hard]
  BY <1>4, <1>6, FirstRung
<1>8. i = IF q.mutated THEN 1 ELSE IF q.failed THEN 2 ELSE 3
  BY <1>3, <1>4, <1>6
<1> QED
  BY <1>2, <1>3, <1>4, <1>5, <1>7, <1>8

\* The packet of a version from 3 on: a fault stops the pilot and is no
\* success, whatever the answer; without a fault the oracle decides; without an
\* answer only a failed agent and a changed source are faults.
LEMMA LaterPacket ==
    ASSUME NEW v \in 3..9, NEW q, {q.mutated, q.failed} \subseteq BOOLEAN
    PROVE  LET s == summarize_stream(q.stream, v)
               r == Packet(v, q)
           IN  /\ s.answer # NoAnswer =>
                     IF Stopping(v, q, s) THEN r.hard = TRUE /\ r.status \notin NoFault
                     ELSE r = [status |-> IF Judge(v, q, s) THEN "complete" ELSE "oracle_failed",
                               hard |-> FALSE]
               /\ s.answer = NoAnswer =>
                     IF q.mutated \/ q.failed THEN r.hard = TRUE /\ r.status \notin NoFault
                     ELSE r = [status |-> "missing_or_invalid_agent_response", hard |-> FALSE]
<1> DEFINE s == summarize_stream(q.stream, v)
           r == Packet(v, q)
           j == Judge(v, q, s)
           m == RunRungs(q, s, TRUE)
           b == Budget(s, TRUE)
           f == Foreign(s, TRUE)
           e == EvidenceRungs(q, s)
           n == <<Rung(~LabelsValid(q.labels), "invalid_model_identity_evidence", TRUE)>>
           o == Oracle(j)
<1>1. /\ v \in 3..4 => r = FirstOf(m \o b \o f \o e \o o \o Complete)
      /\ v \in 5..6 => r = FirstOf(m \o f \o e \o o \o Complete)
      /\ v \in 7..9 => r = FirstOf(m \o n \o f \o e \o o \o Complete)
  <2>1. CASE v = 3
    BY <2>1 DEF Packet, build_temporal_review_v3_packet
  <2>2. CASE v = 4
    BY <2>2 DEF Packet, build_temporal_review_v4_packet
  <2>3. CASE v = 5
    BY <2>3 DEF Packet, build_temporal_review_v5_packet
  <2>4. CASE v = 6
    BY <2>4 DEF Packet, build_temporal_review_v6_packet
  <2>5. CASE v = 7
    BY <2>5 DEF Packet, build_temporal_review_v7_packet, Labelled
  <2>6. CASE v = 8
    BY <2>6 DEF Packet, build_temporal_review_v8_packet, Labelled
  <2>7. CASE v = 9
    BY <2>7 DEF Packet, build_temporal_review_v9_packet, Labelled
  <2>8. v \in {3, 4, 5, 6, 7, 8, 9}
    OBVIOUS
  <2>9. /\ v \in 3..4 <=> v \in {3, 4}
        /\ v \in 5..6 <=> v \in {5, 6}
        /\ v \in 7..9 <=> v \in {7, 8, 9}
    OBVIOUS
  <2> HIDE DEF r, m, b, f, e, n, o
  <2> QED
    BY <2>1, <2>2, <2>3, <2>4, <2>5, <2>6, <2>7, <2>8, <2>9
<1>2. /\ Strict(b) /\ (Stops(b) <=> Cardinality(s.uses) > ToolCallBudget)
      /\ Strict(f) /\ (Stops(f) <=> s.unexpected # {})
      /\ Strict(e) /\ (Stops(e) <=> Disordered(q, s))
  BY Pieces
<1>3. Strict(n) /\ (Stops(n) <=> ~LabelsValid(q.labels))
  <2> DEFINE h == ~LabelsValid(q.labels)
             rung == Rung(h, "invalid_model_identity_evidence", TRUE)
  <2>1. h \in BOOLEAN
    OBVIOUS
  <2> HIDE DEF h
  <2>2. Fault(rung) /\ (rung.holds <=> h)
    BY <2>1 DEF Fault, Rung, Rungs, Verdicts, NoFault
  <2>3. n = <<rung>>
    BY DEF h
  <2> HIDE DEF rung
  <2>4. Strict(n) /\ (Stops(n) <=> h)
    BY <2>2, <2>3, FaultsAreStrict
  <2> QED
    BY <2>4 DEF h
<1>4. j \in BOOLEAN
  BY DEF Judge
<1>5. o \in Seq(Rungs) /\ Complete \in Seq(Rungs)
  <2> HIDE DEF j
  <2>1. Rung(~j, "oracle_failed", FALSE) \in Rungs /\ Rung(TRUE, "complete", FALSE) \in Rungs
    BY <1>4 DEF Rung, Rungs, Verdicts
  <2> QED
    BY <2>1, OneRung DEF Oracle, Complete
<1> HIDE DEF b, f, e, n, j
<1>6. ASSUME s.answer # NoAnswer
      PROVE  IF Stopping(v, q, s) THEN r.hard = TRUE /\ r.status \notin NoFault
             ELSE r = [status |-> IF j THEN "complete" ELSE "oracle_failed", hard |-> FALSE]
  <2>1. Strict(m) /\ (Stops(m) <=> q.mutated \/ q.failed)
    BY <1>6, Pieces
  <2> HIDE DEF m, r, s
  <2>2. CASE v \in 3..4
    <3> DEFINE x == m \o b \o f \o e
    <3>1. Strict(m \o b) /\ (Stops(m \o b) <=> Stops(m) \/ Stops(b))
      BY <1>2, <2>1, StrictOnStrict
    <3>2. Strict(m \o b \o f) /\ (Stops(m \o b \o f) <=> Stops(m \o b) \/ Stops(f))
      BY <1>2, <3>1, StrictOnStrict
    <3>3. Strict(x) /\ (Stops(x) <=> Stops(m \o b \o f) \/ Stops(e))
      BY <1>2, <3>2, StrictOnStrict
    <3>4. Stops(x) <=> Stopping(v, q, s)
      BY <1>2, <2>1, <2>2, <3>1, <3>2, <3>3 DEF Stopping
    <3>5. r = FirstOf(x \o Oracle(j) \o Complete)
      BY <1>1, <2>2
    <3> HIDE DEF x
    <3> QED
      BY <1>4, <3>3, <3>4, <3>5, FaultsThenOracle
  <2>3. CASE v \in 5..6
    <3> DEFINE x == m \o f \o e
    <3>1. Strict(m \o f) /\ (Stops(m \o f) <=> Stops(m) \/ Stops(f))
      BY <1>2, <2>1, StrictOnStrict
    <3>2. Strict(x) /\ (Stops(x) <=> Stops(m \o f) \/ Stops(e))
      BY <1>2, <3>1, StrictOnStrict
    <3>3. Stops(x) <=> Stopping(v, q, s)
      BY <1>2, <2>1, <2>3, <3>1, <3>2 DEF Stopping
    <3>4. r = FirstOf(x \o Oracle(j) \o Complete)
      BY <1>1, <2>3
    <3> HIDE DEF x
    <3> QED
      BY <1>4, <3>2, <3>3, <3>4, FaultsThenOracle
  <2>4. CASE v \in 7..9
    <3> DEFINE x == m \o n \o f \o e
    <3>1. Strict(m \o n) /\ (Stops(m \o n) <=> Stops(m) \/ Stops(n))
      BY <1>3, <2>1, StrictOnStrict
    <3>2. Strict(m \o n \o f) /\ (Stops(m \o n \o f) <=> Stops(m \o n) \/ Stops(f))
      BY <1>2, <3>1, StrictOnStrict
    <3>3. Strict(x) /\ (Stops(x) <=> Stops(m \o n \o f) \/ Stops(e))
      BY <1>2, <3>2, StrictOnStrict
    <3>4. Stops(x) <=> Stopping(v, q, s)
      BY <1>2, <1>3, <2>1, <2>4, <3>1, <3>2, <3>3 DEF Stopping
    <3>5. r = FirstOf(x \o Oracle(j) \o Complete)
      BY <1>1, <2>4
    <3> HIDE DEF x
    <3> QED
      BY <1>4, <3>3, <3>4, <3>5, FaultsThenOracle
  <2>5. v \in 3..4 \/ v \in 5..6 \/ v \in 7..9
    OBVIOUS
  <2> QED
    BY <2>2, <2>3, <2>4, <2>5
<1>7. ASSUME s.answer = NoAnswer
      PROVE  IF q.mutated \/ q.failed THEN r.hard = TRUE /\ r.status \notin NoFault
             ELSE r = [status |-> "missing_or_invalid_agent_response", hard |-> FALSE]
  <2>1. /\ m \in Seq(Rungs) /\ Stops(m)
        /\ FirstOf(m) = IF q.mutated THEN [status |-> "invalid_source_mutation", hard |-> TRUE]
                        ELSE IF q.failed THEN [status |-> "agent_error", hard |-> TRUE]
                        ELSE [status |-> "missing_or_invalid_agent_response", hard |-> FALSE]
    BY <1>7, NoAnswerRungs
  <2> HIDE DEF m, r, s, o
  <2>2. /\ b \in Seq(Rungs) /\ f \in Seq(Rungs) /\ e \in Seq(Rungs) /\ n \in Seq(Rungs)
        /\ o \in Seq(Rungs) /\ Complete \in Seq(Rungs)
    BY <1>2, <1>3, <1>5 DEF Strict
  <2>3. ASSUME NEW x \in Seq(Rungs), NEW y \in Seq(Rungs), Stops(x)
        PROVE  x \o y \in Seq(Rungs) /\ Stops(x \o y) /\ FirstOf(x \o y) = FirstOf(x)
    BY <2>3, FirstOfTwo
  <2>4. r = FirstOf(m)
    <3>1. CASE v \in 3..4
      <4>1. LET x == m \o b IN x \in Seq(Rungs) /\ Stops(x) /\ FirstOf(x) = FirstOf(m)
        BY <2>1, <2>2, <2>3
      <4>2. LET x == m \o b \o f IN x \in Seq(Rungs) /\ Stops(x) /\ FirstOf(x) = FirstOf(m)
        BY <2>2, <2>3, <4>1
      <4>3. LET x == m \o b \o f \o e IN x \in Seq(Rungs) /\ Stops(x) /\ FirstOf(x) = FirstOf(m)
        BY <2>2, <2>3, <4>2
      <4>4. LET x == m \o b \o f \o e \o o
            IN  x \in Seq(Rungs) /\ Stops(x) /\ FirstOf(x) = FirstOf(m)
        BY <2>2, <2>3, <4>3
      <4> QED
        BY <1>1, <2>2, <2>3, <3>1, <4>4
    <3>2. CASE v \in 5..6
      <4>1. LET x == m \o f IN x \in Seq(Rungs) /\ Stops(x) /\ FirstOf(x) = FirstOf(m)
        BY <2>1, <2>2, <2>3
      <4>2. LET x == m \o f \o e IN x \in Seq(Rungs) /\ Stops(x) /\ FirstOf(x) = FirstOf(m)
        BY <2>2, <2>3, <4>1
      <4>3. LET x == m \o f \o e \o o IN x \in Seq(Rungs) /\ Stops(x) /\ FirstOf(x) = FirstOf(m)
        BY <2>2, <2>3, <4>2
      <4> QED
        BY <1>1, <2>2, <2>3, <3>2, <4>3
    <3>3. CASE v \in 7..9
      <4>1. LET x == m \o n IN x \in Seq(Rungs) /\ Stops(x) /\ FirstOf(x) = FirstOf(m)
        BY <2>1, <2>2, <2>3
      <4>2. LET x == m \o n \o f IN x \in Seq(Rungs) /\ Stops(x) /\ FirstOf(x) = FirstOf(m)
        BY <2>2, <2>3, <4>1
      <4>3. LET x == m \o n \o f \o e IN x \in Seq(Rungs) /\ Stops(x) /\ FirstOf(x) = FirstOf(m)
        BY <2>2, <2>3, <4>2
      <4>4. LET x == m \o n \o f \o e \o o
            IN  x \in Seq(Rungs) /\ Stops(x) /\ FirstOf(x) = FirstOf(m)
        BY <2>2, <2>3, <4>3
      <4> QED
        BY <1>1, <2>2, <2>3, <3>3, <4>4
    <3> QED
      BY <3>1, <3>2, <3>3
  <2> QED
    BY <2>1, <2>4 DEF NoFault
<1> QED
  BY <1>6, <1>7 DEF j
-----------------------------------------------------------------------------
(* Streams and their summaries.                                            *)

\* The largest of some positions is one of them, and there is no other.
LEMMA LargestOne ==
    ASSUME NEW n \in Nat, NEW S, S \subseteq 1..n, S # {}
    PROVE  /\ Largest(S) \in S /\ \A i \in S : i <= Largest(S)
           /\ \A j \in S : (\A i \in S : i <= j) => j = Largest(S)
<1> DEFINE D == {m \in Nat : n - m \in S}
<1>1. D \subseteq Nat /\ D # {}
  <2>1. PICK i \in S : TRUE
    OBVIOUS
  <2>2. n - i \in Nat /\ n - (n - i) = i
    OBVIOUS
  <2> QED
    BY <2>2
<1>2. PICK m \in D : \A k \in D : m <= k
  BY <1>1, LeastOne
<1>3. n - m \in S /\ \A i \in S : i <= n - m
  <2> SUFFICES ASSUME NEW i \in S PROVE i <= n - m
    OBVIOUS
  <2>1. n - i \in Nat /\ n - (n - i) = i
    OBVIOUS
  <2>2. n - i \in D
    BY <2>1
  <2> QED
    BY <1>2, <2>1, <2>2
<1> HIDE DEF D
<1>4. Largest(S) \in S /\ \A i \in S : i <= Largest(S)
  BY <1>3 DEF Largest
<1>5. ASSUME NEW j \in S, \A i \in S : i <= j PROVE j = Largest(S)
  <2>1. \A i \in S : i \in Nat
    OBVIOUS
  <2>2. Largest(S) <= j /\ j <= Largest(S)
    BY <1>4, <1>5
  <2>3. Largest(S) \in Nat /\ j \in Nat
    BY <1>4, <2>1
  <2> QED
    BY <2>2, <2>3
<1> QED
  BY <1>4, <1>5

\* What a stream is, position by position.
LEMMA StreamShape ==
    ASSUME NEW stream, IsStream(stream)
    PROVE  /\ Len(stream) \in Nat /\ DOMAIN stream = 1..Len(stream)
           /\ \A k, i \in DOMAIN stream :
                 stream[k].type = "use" /\ stream[i].type = "use" /\ stream[i].id = stream[k].id =>
                     i = k
           /\ \A k, i \in DOMAIN stream :
                 stream[k].type = "use" /\ stream[i].type = "out" /\ stream[i].id = stream[k].id =>
                     k < i
BY LenProperties DEF IsStream, IsList

\* A response is of the tool whose call has its id, of none if no call has.
LEMMA ToolOfCall ==
    ASSUME NEW stream, IsStream(stream), NEW id
    PROVE  /\ \A k \in UsesAt(stream) : stream[k].id = id => ToolOf(stream, id) = stream[k].tool
           /\ (\A k \in UsesAt(stream) : stream[k].id # id) => ToolOf(stream, id) = "unknown"
<1> DEFINE of == {k \in UsesAt(stream) : stream[k].id = id}
<1>1. ASSUME NEW k \in UsesAt(stream), stream[k].id = id
      PROVE  ToolOf(stream, id) = stream[k].tool
  <2>1. of = {k}
    BY <1>1, StreamShape DEF UsesAt
  <2>2. Largest({k}) = k
    <3>1. k \in 1..Len(stream) /\ Len(stream) \in Nat
      BY StreamShape DEF UsesAt
    <3> QED
      BY <3>1, LargestOne
  <2> QED
    BY <2>1, <2>2 DEF ToolOf
<1>2. ASSUME \A k \in UsesAt(stream) : stream[k].id # id PROVE ToolOf(stream, id) = "unknown"
  <2>1. of = {}
    BY <1>2
  <2> QED
    BY <2>1 DEF ToolOf
<1> QED
  BY <1>1, <1>2

\* The branch-diff responses of the summary are those the calls brought.
LEMMA DiffsAreBrought ==
    ASSUME NEW q, IsStream(q.stream)
    PROVE  DiffsAt(q.stream) = Brought(q)
<1> SUFFICES ASSUME NEW i \in DOMAIN q.stream, q.stream[i].type = "out"
             PROVE  ToolOf(q.stream, q.stream[i].id) = "diff" <=>
                        \E k \in DOMAIN q.stream : /\ q.stream[k].type = "use"
                                                   /\ q.stream[k].tool = "diff"
                                                   /\ q.stream[k].id = q.stream[i].id
  BY DEF DiffsAt, Brought
<1>1. CASE \E k \in UsesAt(q.stream) : q.stream[k].id = q.stream[i].id
  <2>1. PICK k \in UsesAt(q.stream) : q.stream[k].id = q.stream[i].id
    BY <1>1
  <2>2. ToolOf(q.stream, q.stream[i].id) = q.stream[k].tool
    BY <2>1, ToolOfCall
  <2>3. \A l \in DOMAIN q.stream : q.stream[l].type = "use" /\ q.stream[l].id = q.stream[i].id =>
                                       l = k
    BY <2>1, StreamShape DEF UsesAt
  <2> QED
    BY <2>1, <2>2, <2>3 DEF UsesAt
<1>2. CASE \A k \in UsesAt(q.stream) : q.stream[k].id # q.stream[i].id
  <2>1. ToolOf(q.stream, q.stream[i].id) = "unknown"
    BY <1>2, ToolOfCall
  <2> QED
    BY <1>2, <2>1 DEF UsesAt
<1> QED
  BY <1>1, <1>2

\* The answer of the summary is the one that is used, if any is.
LEMMA AnswerIsUsed ==
    ASSUME NEW q, IsStream(q.stream), NEW v
    PROVE  LET s == summarize_stream(q.stream, v)
           IN  /\ s.answer # NoAnswer => /\ s.final \in DOMAIN q.stream /\ Used(q, s.final)
                                         /\ s.answer = q.stream[s.final].answer
               /\ \A j \in DOMAIN q.stream :
                     Used(q, j) => s.answer # NoAnswer /\ s.final = j
<1> DEFINE s == summarize_stream(q.stream, v)
           A == AnswersAt(q.stream)
           n == Len(q.stream)
<1>1. n \in Nat /\ DOMAIN q.stream = 1..n /\ A \subseteq 1..n
  BY StreamShape DEF AnswersAt
<1>2. /\ s.final = FinalAt(q.stream)
      /\ s.answer = IF FinalAt(q.stream) = 0 THEN NoAnswer
                    ELSE q.stream[FinalAt(q.stream)].answer
  BY DEF summarize_stream
<1> HIDE DEF s
<1>3. ASSUME A # {}
      PROVE  /\ s.final \in A /\ s.final = Largest(A) /\ \A i \in A : i <= s.final
             /\ s.final # 0 /\ s.answer = q.stream[s.final].answer /\ s.answer # NoAnswer
  <2>1. Largest(A) \in A /\ \A i \in A : i <= Largest(A)
    BY <1>1, <1>3, LargestOne
  <2>2. s.final = Largest(A)
    BY <1>2, <1>3 DEF FinalAt
  <2>3. s.final # 0
    BY <1>1, <2>1, <2>2
  <2>4. q.stream[s.final].answer # NoAnswer
    BY <2>1, <2>2 DEF AnswersAt
  <2> QED
    BY <1>2, <2>1, <2>2, <2>3, <2>4
<1>4. A = {} => s.answer = NoAnswer
  BY <1>2 DEF FinalAt
<1>5. s.answer # NoAnswer => /\ s.final \in DOMAIN q.stream /\ Used(q, s.final)
                             /\ s.answer = q.stream[s.final].answer
  <2> SUFFICES ASSUME s.answer # NoAnswer
               PROVE  s.final \in DOMAIN q.stream /\ Used(q, s.final)
    BY <1>3, <1>4
  <2>1. A # {}
    BY <1>4
  <2>2. s.final \in A /\ \A i \in A : i <= s.final
    BY <1>3, <2>1
  <2>3. ASSUME NEW k \in s.final + 1..Len(q.stream), q.stream[k].type = "result"
        PROVE  q.stream[k].answer = NoAnswer
    <3>1. k \in 1..n /\ ~(k <= s.final)
      BY <1>1, <2>2
    <3> QED
      BY <1>1, <2>2, <2>3, <3>1 DEF AnswersAt
  <2> QED
    BY <2>2, <2>3 DEF AnswersAt, Used
<1>6. ASSUME NEW j \in DOMAIN q.stream, Used(q, j)
      PROVE  s.answer # NoAnswer /\ s.final = j
  <2>1. j \in A
    BY <1>6 DEF Used, AnswersAt
  <2>2. \A i \in A : i <= j
    <3> SUFFICES ASSUME NEW i \in A, ~(i <= j) PROVE FALSE
      OBVIOUS
    <3>1. i \in j + 1..Len(q.stream)
      BY <1>1
    <3> QED
      BY <1>6, <3>1 DEF Used, AnswersAt
  <2>3. j = Largest(A)
    BY <1>1, <2>1, <2>2, LargestOne
  <2> QED
    BY <1>3, <2>1, <2>3
<1> QED
  BY <1>5, <1>6 DEF s

\* On a temporal surface only branch-diff is expected of the servers' tools.
LEMMA UnexpectedTools ==
    ASSUME NEW stream, NEW v \in 0..9
    PROVE  summarize_stream(stream, v).unexpected # {} <=>
               \E k \in DOMAIN stream : /\ stream[k].type = "use"
                                        /\ stream[k].tool \in {"find", "graph", "foreign"}
<1>1. summarize_stream(stream, v).unexpected =
         {t \in ToolsIn(stream) \cap McpTools : t \notin {"diff"}}
  BY DEF summarize_stream, Unexpected, AllowedTools
<1> QED
  BY <1>1 DEF ToolsIn, UsesAt, McpTools
-----------------------------------------------------------------------------
(* Faults.                                                                 *)

\* The reviews' response is good if its parser takes it.
LEMMA GoodParses ==
    ASSUME NEW q, q.surface \in 1..9, NEW b
    PROVE  parse_raw_response(q.task, b) <=> Good(q, b)
BY DEF parse_raw_response, Good

\* With an answer, what stops the pilot is what is wrong with the run.
LEMMA StoppingIsFaulty ==
    ASSUME NEW q, IsQuestion(q), q.surface \in 3..9, NEW j \in DOMAIN q.stream, Used(q, j)
    PROVE  Stopping(q.surface, q, summarize_stream(q.stream, q.surface)) <=> Faulty(q)
<1> DEFINE s == summarize_stream(q.stream, q.surface)
           B == Brought(q)
           good(k) == Good(q, q.stream[k].body)
<1>1. IsStream(q.stream) /\ Len(q.stream) \in Nat /\ DOMAIN q.stream = 1..Len(q.stream)
  BY StreamShape DEF IsQuestion
<1>2. s.diffs = B /\ s.uses = UsesAt(q.stream)
  BY <1>1, DiffsAreBrought DEF summarize_stream
<1>3. s.final = j
  BY <1>1, AnswerIsUsed
<1>4. B \subseteq DOMAIN q.stream /\ j \notin B
  BY DEF Brought, Used
<1>5. \A k : Used(q, k) /\ k \in DOMAIN q.stream => k = j
  BY <1>1, <1>3, AnswerIsUsed
<1>6. s.unexpected # {} <=> \E k \in UsesAt(q.stream) : q.stream[k].tool \in {"find", "graph", "foreign"}
  BY UnexpectedTools DEF UsesAt
<1>7. /\ Eligible(s) = {k \in B : k < j}
      /\ ValidAt(q, s) = {k \in B : k < j /\ good(k)}
  <2>1. Eligible(s) = {k \in B : k < j}
    BY <1>2, <1>3 DEF Eligible
  <2>2. \A k : parse_raw_response(q.task, q.stream[k].body) <=> good(k)
    BY GoodParses
  <2> QED
    BY <2>1, <2>2 DEF ValidAt
<1> HIDE DEF s, B
<1>8. Disordered(q, s) <=>
          q.condition = "treatment" /\ (B = {} \/ \E k \in B : ~good(k) \/ k > j)
  <2>1. (\E k \in B : k > j) <=> Eligible(s) # B
    <3>1. \A k \in B : k \in Nat /\ k # j
      BY <1>1, <1>4
    <3>2. j \in Nat
      BY <1>1
    <3> QED
      BY <1>7, <3>1, <3>2
  <2>2. Eligible(s) = B => (ValidAt(q, s) # Eligible(s) <=> \E k \in B : ~good(k))
    BY <1>7
  <2>3. Eligible(s) = B /\ ValidAt(q, s) = Eligible(s) => (ValidAt(q, s) = {} <=> B = {})
    OBVIOUS
  <2> QED
    BY <1>2, <2>1, <2>2, <2>3 DEF Disordered
<1>9. Faulty(q) <=>
          \/ q.mutated \/ q.failed
          \/ \E k \in UsesAt(q.stream) : q.stream[k].tool \in {"find", "graph", "foreign"}
          \/ q.surface <= 4 /\ Cardinality(UsesAt(q.stream)) > ToolCallBudget
          \/ q.surface >= 7 /\ ~LabelsValid(q.labels)
          \/ q.condition = "treatment" /\ (B = {} \/ \E k \in B : ~good(k) \/ k > j)
  <2>1. {k \in DOMAIN q.stream : Used(q, k)} = {j}
    BY <1>5
  <2> QED
    BY <2>1 DEF Faulty, UsesAt, B
<1> QED
  BY <1>2, <1>6, <1>8, <1>9 DEF Stopping, s

\* Of a review of one version that is not refused, the packet is that
\* version's.
LEMMA RunIsPacket ==
    ASSUME NEW q, q.surface \in 1..9, q.contracts = {q.surface}, ~q.calibration
    PROVE  run(q) = Refuse \/ run(q) = Packet(q.surface, q)
BY DEF run, Refuse

\* The same with a calibration, which has no contract.
LEMMA ReviewIsNoCalibration ==
    ASSUME NEW q, q.contracts # {}, run(q) # Refuse
    PROVE  ~q.calibration
BY DEF run, Exclusive

\* For all streams: from version 3 on, the pilot stops at a fault of the
\* protocol and at nothing else, and a fault is never counted as a success.
THEOREM FaultsStop == Spec => []FaultsStopThePilot
<1>1. ReviewInv => FaultsStopThePilot
  <2> DEFINE q == question
             s == summarize_stream(q.stream, q.surface)
  <2> SUFFICES ASSUME ReviewInv, Answered("orientation"), q.surface >= 3,
                      q.contracts = {q.surface}, answer.status # "refused",
                      NEW j \in DOMAIN q.stream, Used(q, j)
               PROVE  (answer.hard <=> Faulty(q)) /\ (Faulty(q) => answer.status # "complete")
    BY DEF FaultsStopThePilot
  <2>1. IsQuestion(q) /\ answer = run(q) /\ q.surface \in 3..9
    BY DEF ReviewInv, Answered, IsQuestion
  <2>2. answer = Packet(q.surface, q)
    <3>1. answer # Refuse
      BY DEF Refuse
    <3>2. ~q.calibration
      BY <2>1, <3>1, ReviewIsNoCalibration
    <3> QED
      BY <2>1, <3>1, <3>2, RunIsPacket
  <2>3. s.answer # NoAnswer
    BY <2>1, AnswerIsUsed DEF IsQuestion
  <2>4. Stopping(q.surface, q, s) <=> Faulty(q)
    BY <2>1, StoppingIsFaulty
  <2> HIDE DEF q
  <2>5. IF Stopping(q.surface, q, s) THEN answer.hard = TRUE /\ answer.status \notin NoFault
        ELSE answer.hard = FALSE
    <3>1. {q.mutated, q.failed} \subseteq BOOLEAN
      BY <2>1 DEF IsQuestion
    <3>2. IF Stopping(q.surface, q, s)
          THEN Packet(q.surface, q).hard = TRUE /\ Packet(q.surface, q).status \notin NoFault
          ELSE Packet(q.surface, q) =
                  [status |-> IF Judge(q.surface, q, s) THEN "complete" ELSE "oracle_failed",
                   hard |-> FALSE]
      BY <2>1, <2>3, <3>1, LaterPacket
    <3> HIDE DEF s
    <3> QED
      BY <2>2, <3>2
  <2> QED
    BY <2>4, <2>5 DEF NoFault
<1> QED
  BY <1>1, ReviewAnswers, PTL
-----------------------------------------------------------------------------
(* Cells.                                                                  *)

\* The stages of a cell: none of them is the last, and w is why it may die.
Stages(rungs, w) ==
    /\ rungs \in Seq(Rungs)
    /\ \A i \in DOMAIN rungs : /\ rungs[i].status # "ran"
                               /\ rungs[i].holds /\ rungs[i].status = "killed" => w

\* Stages after stages are stages.
LEMMA StagesAfterStages ==
    ASSUME NEW w, NEW s, Stages(s, w), NEW t, Stages(t, w)
    PROVE  Stages(s \o t, w) /\ (Stops(s \o t) <=> Stops(s) \/ Stops(t))
<1> DEFINE u == s \o t
<1>1. /\ s \in Seq(Rungs) /\ t \in Seq(Rungs)
      /\ u \in Seq(Rungs) /\ Len(u) = Len(s) + Len(t)
      /\ \A i \in 1..Len(u) : u[i] = IF i <= Len(s) THEN s[i] ELSE t[i - Len(s)]
  BY ConcatProperties DEF Stages
<1>2. Stops(u) <=> Stops(s) \/ Stops(t)
  BY <1>1, FirstOfTwo
<1>3. ASSUME NEW i \in DOMAIN u
      PROVE  u[i].status # "ran" /\ (u[i].holds /\ u[i].status = "killed" => w)
  <2>1. i \in 1..Len(u) /\ Len(s) \in Nat /\ Len(t) \in Nat
    BY <1>1
  <2> HIDE DEF u
  <2>2. CASE i <= Len(s)
    <3>1. i \in DOMAIN s /\ u[i] = s[i]
      BY <1>1, <2>1, <2>2
    <3> QED
      BY <1>3, <3>1 DEF Stages
  <2>3. CASE i > Len(s)
    <3>1. i - Len(s) \in DOMAIN t /\ u[i] = t[i - Len(s)]
      BY <1>1, <2>1, <2>3
    <3> QED
      BY <1>3, <3>1 DEF Stages
  <2> QED
    BY <2>1, <2>2, <2>3
<1> QED
  BY <1>1, <1>2, <1>3 DEF Stages

\* A cell has run if no stage stopped it, and dies of what w says only.
LEMMA CellOfStages ==
    ASSUME NEW w, NEW s, Stages(s, w)
    PROVE  /\ FirstOf(s \o Ran).status = "ran" <=> ~Stops(s)
           /\ FirstOf(s \o Ran).status = "killed" => w
<1> DEFINE r == Rung(TRUE, "ran", FALSE)
<1>1. r \in Rungs /\ r.holds /\ r.status = "ran"
  BY DEF Rung, Rungs, Verdicts
<1>2. Ran = <<r>>
  BY DEF Ran
<1> HIDE DEF r
<1>3. Ran \in Seq(Rungs) /\ Stops(Ran) /\ FirstOf(Ran).status = "ran"
  <2>1. FirstOf(<<r>>) = [status |-> r.status, hard |-> r.hard]
    BY <1>1, OneRung
  <2> QED
    BY <1>1, <1>2, <2>1, OneRung
<1>4. s \in Seq(Rungs)
  BY DEF Stages
<1>5. CASE Stops(s)
  <2>1. FirstOf(s \o Ran) = FirstOf(s)
    BY <1>3, <1>4, <1>5, FirstOfTwo
  <2>2. PICK i \in DOMAIN s : s[i].holds /\ \A j \in 1..i - 1 : ~s[j].holds
    BY <1>4, <1>5, SomeFirst
  <2>3. FirstOf(s).status = s[i].status
    BY <1>4, <2>2, FirstRung
  <2> QED
    BY <1>5, <2>1, <2>2, <2>3 DEF Stages
<1>6. CASE ~Stops(s)
  <2>1. FirstOf(s \o Ran) = FirstOf(Ran)
    BY <1>3, <1>4, <1>6, FirstOfTwo
  <2> QED
    BY <1>3, <1>6, <2>1
<1> QED
  BY <1>5, <1>6

\* A stage that is neither the last nor a death.
LEMMA OneStage ==
    ASSUME NEW w, NEW h \in BOOLEAN, NEW name \in {"model_identity", "protocol_validation"}
    PROVE  LET l == <<Rung(h, name, TRUE)>> IN Stages(l, w) /\ (Stops(l) <=> h)
<1> DEFINE r == Rung(h, name, TRUE)
           l == <<r>>
<1>1. r \in Rungs /\ (r.holds <=> h) /\ r.status \notin {"ran", "killed"}
  BY DEF Rung, Rungs, Verdicts
<1> HIDE DEF r
<1>2. l \in Seq(Rungs) /\ DOMAIN l = {1} /\ l[1] = r
  BY <1>1
<1> HIDE DEF l
<1>3. Stages(l, w) /\ (Stops(l) <=> h)
  BY <1>1, <1>2 DEF Stages, Stops
<1> QED
  BY <1>3 DEF l, r

\* The two of them one after the other.
LEMMA TwoStages ==
    ASSUME NEW w, NEW g \in BOOLEAN, NEW h \in BOOLEAN
    PROVE  LET l == <<Rung(g, "model_identity", TRUE), Rung(h, "protocol_validation", TRUE)>>
           IN  Stages(l, w) /\ (Stops(l) <=> g \/ h)
<1> DEFINE a == Rung(g, "model_identity", TRUE)
           b == Rung(h, "protocol_validation", TRUE)
           l == <<a, b>>
<1>1. /\ a \in Rungs /\ (a.holds <=> g) /\ a.status \notin {"ran", "killed"}
      /\ b \in Rungs /\ (b.holds <=> h) /\ b.status \notin {"ran", "killed"}
  BY DEF Rung, Rungs, Verdicts
<1> HIDE DEF a, b
<1>2. l \in Seq(Rungs) /\ DOMAIN l = {1, 2} /\ l[1] = a /\ l[2] = b
  BY <1>1
<1> HIDE DEF l
<1>3. Stages(l, w) /\ (Stops(l) <=> g \/ h)
  BY <1>1, <1>2 DEF Stages, Stops
<1> QED
  BY <1>3 DEF l, a, b

\* The stages all drivers from version 3 to 7 share.
Unready(v, c, r) ==
    \/ ~Instructed(v, c) \/ ~CheckedOut(v, c) \/ ~c.starts
    \/ c.status = "raises" \/ WarmRaises(v, c, r)

LEMMA SharedStages ==
    ASSUME NEW v, NEW c, NEW r
    PROVE  /\ Stages(StagesOfThird(v, c, r), WarmRaises(v, c, r))
           /\ Stops(StagesOfThird(v, c, r)) <=> Unready(v, c, r) \/ ~HasPacket(c, r)
<1> DEFINE h1 == ~Instructed(v, c)
           h2 == ~CheckedOut(v, c)
           h3 == ~c.starts
           h4 == c.status = "raises"
           h5 == WarmRaises(v, c, r)
           h6 == ~HasPacket(c, r)
           r1 == Rung(h1, "contract", TRUE)
           r2 == Rung(h2, "materialize", TRUE)
           r3 == Rung(h3, "runner", TRUE)
           r4 == Rung(h4, "source_clean", TRUE)
           r5 == Rung(h5, "killed", TRUE)
           r6 == Rung(h6, "runner_artifact", TRUE)
           l == <<r1, r2, r3, r4, r5, r6>>
<1>1. /\ h1 \in BOOLEAN /\ h2 \in BOOLEAN /\ h3 \in BOOLEAN /\ h4 \in BOOLEAN /\ h5 \in BOOLEAN
      /\ h6 \in BOOLEAN
  BY DEF WarmRaises
<1>2. l = StagesOfThird(v, c, r)
  BY DEF StagesOfThird
<1>3. Unready(v, c, r) \/ ~HasPacket(c, r) <=> h1 \/ h2 \/ h3 \/ h4 \/ h5 \/ h6
  BY DEF Unready
<1>4. h5 <=> WarmRaises(v, c, r)
  OBVIOUS
<1> HIDE DEF h1, h2, h3, h4, h5, h6
<1>5. /\ r1 \in Rungs /\ (r1.holds <=> h1) /\ r1.status \notin {"ran", "killed"}
      /\ r2 \in Rungs /\ (r2.holds <=> h2) /\ r2.status \notin {"ran", "killed"}
      /\ r3 \in Rungs /\ (r3.holds <=> h3) /\ r3.status \notin {"ran", "killed"}
      /\ r4 \in Rungs /\ (r4.holds <=> h4) /\ r4.status \notin {"ran", "killed"}
  BY <1>1 DEF Rung, Rungs, Verdicts
<1>6. /\ r5 \in Rungs /\ (r5.holds <=> h5) /\ r5.status # "ran"
      /\ r6 \in Rungs /\ (r6.holds <=> h6) /\ r6.status \notin {"ran", "killed"}
  BY <1>1 DEF Rung, Rungs, Verdicts
<1> HIDE DEF r1, r2, r3, r4, r5, r6
<1>7. /\ l \in Seq(Rungs) /\ DOMAIN l = {1, 2, 3, 4, 5, 6}
      /\ l[1] = r1 /\ l[2] = r2 /\ l[3] = r3 /\ l[4] = r4 /\ l[5] = r5 /\ l[6] = r6
  BY <1>5, <1>6
<1> HIDE DEF l
<1>8. Stages(l, h5)
  BY <1>5, <1>6, <1>7 DEF Stages
<1>9. Stops(l) <=> h1 \/ h2 \/ h3 \/ h4 \/ h5 \/ h6
  BY <1>5, <1>6, <1>7 DEF Stops
<1> QED
  BY <1>2, <1>3, <1>8, <1>9 DEF h5

\* A cell of a pilot runs if it gets ready, leaves a packet, the model is the
\* registered one and nothing was violated; it dies of a repeat that raises.
LEMMA CellRuns ==
    ASSUME NEW p, p.version \in 3..9, NEW c, NEW r
    PROVE  /\ Cell(p, c, r) = "ran" <=>
                 /\ ~Unready(p.version, c, r) /\ HasPacket(c, r) /\ IdentityMatches(p, c)
                 /\ ~Violates(c, r) /\ (p.version = 9 => c.alike)
           /\ Cell(p, c, r) = "killed" => WarmRaises(p.version, c, r)
<1> DEFINE v == p.version
           w == WarmRaises(v, c, r)
           x == StagesOfThird(v, c, r)
           g == ~IdentityMatches(p, c)
           h == Violates(c, r)
<1>1. Stages(x, w) /\ (Stops(x) <=> Unready(v, c, r) \/ ~HasPacket(c, r))
  BY SharedStages
<1>2. g \in BOOLEAN /\ h \in BOOLEAN
  BY DEF Violates
<1>3. CASE v = 3
  <2> DEFINE y == <<Rung(h, "protocol_validation", TRUE)>>
  <2>1. Cell(p, c, r) = FirstOf(x \o y \o Ran).status
    BY <1>3 DEF Cell, cell_v3
  <2> HIDE DEF x
  <2>2. Stages(y, w) /\ (Stops(y) <=> h)
    BY <1>2, OneStage
  <2> HIDE DEF y
  <2>3. Stages(x \o y, w) /\ (Stops(x \o y) <=> Stops(x) \/ Stops(y))
    BY <1>1, <2>2, StagesAfterStages
  <2>4. IdentityMatches(p, c)
    BY <1>3 DEF IdentityMatches
  <2> HIDE DEF h, g
  <2>5. (Cell(p, c, r) = "ran" <=> ~Stops(x \o y)) /\ (Cell(p, c, r) = "killed" => w)
    BY <2>1, <2>3, CellOfStages
  <2> QED
    BY <1>1, <1>3, <2>2, <2>3, <2>4, <2>5 DEF h, w
<1>4. CASE v \in 4..7
  <2> DEFINE y == <<Rung(g, "model_identity", TRUE), Rung(h, "protocol_validation", TRUE)>>
  <2>1. Cell(p, c, r) = FirstOf(x \o y \o Ran).status
    <3>1. v = 4 => Cell(p, c, r) = IdentifiedCell(4, p, c, r)
      BY DEF Cell
    <3>2. v = 5 => Cell(p, c, r) = IdentifiedCell(5, p, c, r)
      BY DEF Cell
    <3>3. v = 6 => Cell(p, c, r) = IdentifiedCell(6, p, c, r)
      BY DEF Cell
    <3>4. v = 7 => Cell(p, c, r) = IdentifiedCell(7, p, c, r)
      BY DEF Cell
    <3>5. v \in {4, 5, 6, 7}
      BY <1>4
    <3>6. Cell(p, c, r) = IdentifiedCell(v, p, c, r)
      BY <3>1, <3>2, <3>3, <3>4, <3>5
    <3> QED
      BY <3>6, Zenon DEF IdentifiedCell
  <2> HIDE DEF x
  <2>2. Stages(y, w) /\ (Stops(y) <=> g \/ h)
    BY <1>2, TwoStages
  <2> HIDE DEF y
  <2>3. Stages(x \o y, w) /\ (Stops(x \o y) <=> Stops(x) \/ Stops(y))
    BY <1>1, <2>2, StagesAfterStages
  <2> HIDE DEF h
  <2>4. (Cell(p, c, r) = "ran" <=> ~Stops(x \o y)) /\ (Cell(p, c, r) = "killed" => w)
    BY <2>1, <2>3, CellOfStages
  <2> QED
    BY <1>1, <1>4, <2>2, <2>3, <2>4 DEF h, w
<1>5. CASE v \in 8..9
  <2> DEFINE other == v = 9 /\ ~c.alike
             k == CellOfFirst(v, c, r) = "killed" \/ ~HasPacket(c, r) \/ g
             y == <<Rung(k, "model_identity", TRUE), Rung(h \/ other, "protocol_validation", TRUE)>>
  <2>1. Cell(p, c, r) = FirstOf(y \o Ran).status
    <3>1. CASE v = 8
      <4>1. Cell(p, c, r) = CaughtCell(8, p, c, r, FALSE)
        BY <3>1 DEF Cell
      <4>2. CaughtCell(8, p, c, r, FALSE) = FirstOf(
                <<Rung(k, "model_identity", TRUE),
                  Rung(h \/ FALSE, "protocol_validation", TRUE)>> \o Ran).status
        BY <3>1, Zenon DEF CaughtCell
      <4>3. (h \/ FALSE) = (h \/ other)
        BY <1>2, <3>1
      <4> QED
        BY <4>1, <4>2, <4>3, Zenon
    <3>2. CASE v = 9
      <4>1. Cell(p, c, r) = CaughtCell(9, p, c, r, ~c.alike)
        BY <3>2 DEF Cell
      <4>2. CaughtCell(9, p, c, r, ~c.alike) = FirstOf(
                <<Rung(k, "model_identity", TRUE),
                  Rung(h \/ ~c.alike, "protocol_validation", TRUE)>> \o Ran).status
        BY <3>2, Zenon DEF CaughtCell
      <4>3. (h \/ ~c.alike) = (h \/ other)
        BY <1>2, <3>2
      <4> QED
        BY <4>1, <4>2, <4>3, Zenon
    <3> QED
      BY <1>5, <3>1, <3>2
  <2>2. (CellOfFirst(v, c, r) = "killed") <=> Unready(v, c, r)
    BY DEF CellOfFirst, Unready
  <2>3. k \in BOOLEAN /\ (h \/ other) \in BOOLEAN
    OBVIOUS
  <2>4. k <=> Unready(v, c, r) \/ ~HasPacket(c, r) \/ g
    BY <2>2
  <2>5. other <=> ~(v = 9 => c.alike)
    OBVIOUS
  <2> HIDE DEF k, h, other
  <2>6. Stages(y, FALSE) /\ (Stops(y) <=> k \/ h \/ other)
    BY <2>3, TwoStages
  <2> HIDE DEF y
  <2>7. (Cell(p, c, r) = "ran" <=> ~Stops(y)) /\ Cell(p, c, r) # "killed"
    BY <2>1, <2>6, CellOfStages
  <2> QED
    BY <2>4, <2>5, <2>6, <2>7 DEF h
<1> QED
  BY <1>3, <1>4, <1>5

\* What a packet of a cell says of its run: it stops the pilot if the run was
\* at fault, unless there was no answer at all.
LEMMA PacketFaults ==
    ASSUME NEW q, IsQuestion(q), q.surface \in 3..9, q.contracts \subseteq {q.surface},
           ~q.calibration, run(q).status \notin {"refused", "wasted"}
    PROVE  run(q).hard <=> run(q).status # "missing_or_invalid_agent_response" /\ Faulty(q)
<1> DEFINE s == summarize_stream(q.stream, q.surface)
           r == run(q)
<1>1. q.contracts = {q.surface}
  <2>1. q.contracts = {} => r.status \in {"refused", "wasted"}
    BY DEF run, Refuse
  <2> QED
    BY <2>1
<1>2. r = Packet(q.surface, q)
  <2>1. r # Refuse
    BY DEF Refuse
  <2> QED
    BY <1>1, <2>1, RunIsPacket
<1>3. {q.mutated, q.failed} \subseteq BOOLEAN /\ IsStream(q.stream)
  BY DEF IsQuestion
<1>4. CASE s.answer = NoAnswer
  <2>1. IF q.mutated \/ q.failed THEN r.hard = TRUE /\ r.status \notin NoFault
        ELSE r = [status |-> "missing_or_invalid_agent_response", hard |-> FALSE]
    BY <1>2, <1>3, <1>4, LaterPacket
  <2> HIDE DEF r
  <2>2. q.mutated \/ q.failed => Faulty(q)
    BY DEF Faulty
  <2> QED
    BY <2>1, <2>2 DEF NoFault, r
<1>5. CASE s.answer # NoAnswer
  <2>1. IF Stopping(q.surface, q, s) THEN r.hard = TRUE /\ r.status \notin NoFault
        ELSE r = [status |-> IF Judge(q.surface, q, s) THEN "complete" ELSE "oracle_failed",
                  hard |-> FALSE]
    BY <1>2, <1>3, <1>5, LaterPacket
  <2>2. PICK j \in DOMAIN q.stream : Used(q, j)
    BY <1>3, <1>5, AnswerIsUsed
  <2>3. Stopping(q.surface, q, s) <=> Faulty(q)
    BY <2>2, StoppingIsFaulty
  <2> HIDE DEF r, s
  <2> QED
    BY <2>1, <2>3 DEF NoFault, r
<1> QED
  BY <1>4, <1>5

\* The order of first appearance tells which labels appear.
LEMMA FirstSeenRange ==
    ASSUME NEW a, IsList(a), NEW b, IsList(b), FirstSeen(a) = FirstSeen(b)
    PROVE  Range(a) = Range(b)
<1>1. ASSUME NEW l, IsList(l), NEW x
      PROVE  x \in Range(l) <=> <<x, x>> \in FirstSeen(l)
  <2>1. DOMAIN l = 1..Len(l) /\ Len(l) \in Nat
    BY <1>1, LenProperties DEF IsList
  <2>2. \A j \in DOMAIN l : l[j] = x => \E i \in 1..j : l[i] = x
    BY <2>1
  <2> QED
    BY <2>2 DEF FirstSeen
<1>2. \A x : x \in Range(a) <=> x \in Range(b)
  BY <1>1
<1> QED
  BY <1>2

\* Labels that are not valid are others than valid ones.
LEMMA ValidLabels ==
    ASSUME NEW a, IsList(a), NEW b, IsList(b), LabelsValid(b), Range(a) = Range(b)
    PROVE  LabelsValid(a)
<1>1. "" \notin Range(a)
  BY DEF LabelsValid
<1>2. a # <<>>
  <2>1. Len(b) \in Nat /\ DOMAIN b = 1..Len(b) /\ Len(b) # 0
    BY LenProperties, EmptySeq DEF IsList, LabelsValid
  <2>2. b[1] \in Range(b)
    BY <2>1 DEF Range
  <2>3. b[1] \in Range(a)
    BY <2>2
  <2> QED
    BY <2>3 DEF Range
<1> QED
  BY <1>1, <1>2 DEF LabelsValid

\* A cell of the registered model has the registered labels; of another one it
\* has other labels, or, where that counts, in another order or number.
LEMMA IdentityByLabels ==
    ASSUME NEW p, p.version \in 3..9, NEW c, IsList(c.run.labels),
           IsList(p.preflight.streams[1]), p.version >= 4 => LabelsValid(p.preflight.streams[1])
    PROVE  LET same == Range(c.run.labels) = Range(p.preflight.streams[1])
           IN  /\ IdentityMatches(p, c) /\ p.version >= 4 => same
               /\ ~IdentityMatches(p, c) =>
                      p.version >= 4 /\ (~same \/ ~LabelsAsRegistered(p, c))
<1> DEFINE known == p.preflight.streams[1]
           labels == c.run.labels
           same == Range(labels) = Range(known)
<1>1. CASE p.version = 3
  BY <1>1 DEF IdentityMatches
<1>2. CASE p.version \in 4..6
  <2>1. IdentityMatches(p, c) <=> FirstSeen(labels) = FirstSeen(known)
    <3>1. CASE p.version = 4
      BY <3>1 DEF IdentityMatches, identity_matches_v4
    <3>2. CASE p.version = 5
      BY <3>2 DEF IdentityMatches, identity_matches_v4, identity_matches_v5
    <3>3. CASE p.version = 6
      BY <3>3 DEF IdentityMatches, identity_matches_v4, identity_matches_v5, identity_matches_v6
    <3> QED
      BY <1>2, <3>1, <3>2, <3>3
  <2>2. IdentityMatches(p, c) => same
    BY <2>1, FirstSeenRange
  <2>3. LabelsAsRegistered(p, c) => FirstSeen(labels) = FirstSeen(known)
    BY <1>2 DEF LabelsAsRegistered
  <2> QED
    BY <1>2, <2>1, <2>2, <2>3
<1>3. CASE p.version \in {7, 9}
  <2>1. IdentityMatches(p, c) <=> LabelsValid(labels) /\ same
    <3>1. CASE p.version = 7
      BY <3>1 DEF IdentityMatches, identity_matches_v7
    <3>2. CASE p.version = 9
      BY <3>2 DEF IdentityMatches, identity_matches_v9
    <3> QED
      BY <1>3, <3>1, <3>2
  <2>2. same => LabelsValid(labels)
    BY <1>3, ValidLabels
  <2> QED
    BY <1>3, <2>1, <2>2
<1>4. CASE p.version = 8
  <2>1. IdentityMatches(p, c) <=> LabelsValid(labels) /\ labels = known
    BY <1>4 DEF IdentityMatches, identity_matches_v8
  <2>2. LabelsAsRegistered(p, c) <=> labels = known
    BY <1>4 DEF LabelsAsRegistered
  <2> QED
    BY <1>4, <2>1, <2>2
<1> QED
  BY <1>1, <1>2, <1>3, <1>4

\* A question that a driver asks.
DrivenCell(p, c) ==
    /\ IsQuestion(c.run) /\ ~c.run.calibration
    /\ c.run.surface = p.version /\ c.run.contracts \subseteq {p.version}

\* A cell that runs spoils nothing, and one that does not is spoiled, but for
\* its labels.
LEMMA CellsSpoil ==
    ASSUME NEW p, p.version \in 3..9, IsList(p.preflight.streams[1]),
           p.version >= 4 => LabelsValid(p.preflight.streams[1]),
           NEW c, DrivenCell(p, c)
    PROVE  LET r == run(c.run)
           IN  /\ Cell(p, c, r) = "ran" => ~Spoiling(p, c, r)
               /\ Cell(p, c, r) # "ran" => Spoiling(p, c, r) \/ ~LabelsAsRegistered(p, c)
               /\ Cell(p, c, r) = "killed" => WarmRaises(p.version, c, r)
<1> DEFINE r == run(c.run)
           fault == r.status # "missing_or_invalid_agent_response" /\ Faulty(c.run)
           same == Range(c.run.labels) = Range(p.preflight.streams[1])
<1>1. HasPacket(c, r) => (r.hard <=> fault)
  BY PacketFaults DEF HasPacket, DrivenCell
<1>2. /\ IdentityMatches(p, c) /\ p.version >= 4 => same
      /\ ~IdentityMatches(p, c) => p.version >= 4 /\ (~same \/ ~LabelsAsRegistered(p, c))
  BY IdentityByLabels DEF DrivenCell, IsQuestion
<1>3. /\ Cell(p, c, r) = "ran" <=>
             /\ ~Unready(p.version, c, r) /\ HasPacket(c, r) /\ IdentityMatches(p, c)
             /\ ~Violates(c, r) /\ (p.version = 9 => c.alike)
      /\ Cell(p, c, r) = "killed" => WarmRaises(p.version, c, r)
  BY CellRuns
<1>4. Spoiling(p, c, r) <=>
          \/ ~Instructed(p.version, c) \/ ~CheckedOut(p.version, c) \/ ~c.starts
          \/ ~HasPacket(c, r) \/ c.status # "clean" \/ WarmRaises(p.version, c, r)
          \/ fault
          \/ p.version >= 4 /\ ~same
          \/ p.version = 9 /\ ~c.alike
  BY DEF Spoiling
<1>5. Violates(c, r) <=> c.status # "clean" \/ r.hard
  BY DEF Violates
<1>6. Unready(p.version, c, r) <=>
          \/ ~Instructed(p.version, c) \/ ~CheckedOut(p.version, c) \/ ~c.starts
          \/ c.status = "raises" \/ WarmRaises(p.version, c, r)
  BY DEF Unready
<1> HIDE DEF r, fault, same
<1> QED
  BY <1>1, <1>2, <1>3, <1>4, <1>5, <1>6 DEF r
-----------------------------------------------------------------------------
(* Pilots.                                                                 *)

\* The driver stops at the first cell that does not run, or is killed before.
LEMMA DriveEnds ==
    ASSUME NEW p, IsList(p.cells), p.cut \in Nat,
           NEW stages, DOMAIN stages = DOMAIN p.cells
    PROVE  \/ /\ Driven(p, stages) = Left("results", "none", Len(p.cells))
              /\ \A i \in DOMAIN p.cells : i # p.cut /\ stages[i] = "ran"
           \/ \E i \in DOMAIN p.cells :
                 /\ i = p.cut \/ stages[i] # "ran"
                 /\ \A j \in 1..i - 1 : j \in DOMAIN p.cells /\ stages[j] = "ran"
                 /\ Driven(p, stages) =
                       IF i = p.cut \/ stages[i] = "killed" THEN Left("nothing", "killed", i)
                       ELSE Left("protocol-stop", stages[i], i)
<1> DEFINE ends == {i \in DOMAIN stages : i = p.cut \/ stages[i] # "ran"}
           least == CHOOSE i \in ends : \A j \in ends : i <= j
<1>1. DOMAIN p.cells = 1..Len(p.cells) /\ Len(p.cells) \in Nat
  BY LenProperties DEF IsList
<1>2. CASE ends = {}
  BY <1>2 DEF Driven
<1>3. CASE ends # {}
  <2>1. \E i \in ends : \A j \in ends : i <= j
    <3>1. ends \subseteq Nat
      BY <1>1
    <3> QED
      BY <1>3, <3>1, LeastOne
  <2>2. least \in ends /\ \A j \in ends : least <= j
    BY <2>1
  <2>3. Driven(p, stages) =
            IF least = p.cut \/ stages[least] = "killed" THEN Left("nothing", "killed", least)
            ELSE Left("protocol-stop", stages[least], least)
    BY <1>3 DEF Driven
  <2> HIDE DEF least
  <2>4. least \in DOMAIN p.cells /\ (least = p.cut \/ stages[least] # "ran")
    BY <2>2
  <2>5. ASSUME NEW j \in 1..least - 1 PROVE j \in DOMAIN p.cells /\ stages[j] = "ran"
    <3>1. j \in DOMAIN p.cells /\ ~(least <= j)
      BY <1>1, <2>4
    <3> QED
      BY <2>2, <3>1
  <2> QED
    BY <2>3, <2>4, <2>5
<1> QED
  BY <1>2, <1>3

\* A pilot that gets to its first cell was prepared, and from version 4 on the
\* labels of its probe are valid.
LEMMA PilotStarts ==
    ASSUME NEW p, IsPilot(p), p.version \in 3..9, p.fresh
    PROVE  \/ run_pilot(p) \in {Left("refused", "none", 0), Unregistered}
           \/ /\ run_pilot(p) = Drive(p) /\ p.prepared
              /\ p.version >= 4 => LabelsValid(p.preflight.streams[1])
<1> DEFINE valid == LabelsValid(p.preflight.streams[1])
<1>1. \/ run_pilot(p) = Left("refused", "none", 0)
      \/ run_pilot(p) = Registered(p, Drive(p))
  BY Zenon DEF run_pilot
<1>2. Probed(p.preflight) => valid
  BY DEF Probed, IsPilot
<1>3. /\ model_identity_v4(p) => valid
      /\ model_identity_v5(p) => valid
      /\ model_identity_v6(p) => valid
  BY <1>2 DEF model_identity_v4, model_identity_v5, model_identity_v6,
              run_preflight_v4, run_preflight_v5, run_preflight_v6
<1>4. /\ model_identity_v7(p) => valid
      /\ model_identity_v8(p) => valid
      /\ model_identity_v9(p) => valid
  BY <1>2 DEF model_identity_v7, model_identity_v8, model_identity_v9,
              run_preflight_v7, run_preflight_v8, run_preflight_v9
<1> HIDE DEF valid
<1>5. ASSUME NEW out
      PROVE  \/ Registered(p, out) = Unregistered
             \/ Registered(p, out) = out /\ p.prepared /\ (p.version >= 4 => valid)
  <2>1. CASE p.version = 3
    BY <2>1 DEF Registered, run_pilot_v3
  <2>2. CASE p.version = 4
    BY <1>3, <2>2 DEF Registered, run_pilot_v4
  <2>3. CASE p.version = 5
    BY <1>3, <2>3 DEF Registered, run_pilot_v5
  <2>4. CASE p.version = 6
    BY <1>3, <2>4 DEF Registered, run_pilot_v6
  <2>5. CASE p.version = 7
    BY <1>4, <2>5 DEF Registered, run_pilot_v7
  <2>6. CASE p.version = 8
    BY <1>4, <2>6 DEF Registered, run_pilot_v8
  <2>7. CASE p.version = 9
    BY <1>4, <2>7 DEF Registered, run_pilot_v9
  <2>8. p.version \in {3, 4, 5, 6, 7, 8, 9}
    OBVIOUS
  <2> QED
    BY <2>1, <2>2, <2>3, <2>4, <2>5, <2>6, <2>7, <2>8
<1> QED
  BY <1>1, <1>5 DEF valid

\* For all cohorts: results are left only by a pilot in which nothing went
\* wrong, and one that stops has met its first fault.
THEOREM PilotsStop == Spec => []PilotStopsAtFirstFault
<1>1. ReviewInv => PilotStopsAtFirstFault
  <2> DEFINE p == question
             r(i) == run(p.cells[i].run)
             spoiled(i) == Spoiling(p, p.cells[i], r(i))
  <2> SUFFICES ASSUME ReviewInv, Answered("pilot"), p.version >= 3, p.fresh
               PROVE  /\ answer.left = "results" =>
                            p.prepared /\ \A i \in DOMAIN p.cells : ~spoiled(i)
                      /\ \A i \in 1..answer.ran - 1 : ~spoiled(i)
                      /\ answer.left = "protocol-stop" /\ answer.ran > 0 =>
                            \/ spoiled(answer.ran)
                            \/ ~LabelsAsRegistered(p, p.cells[answer.ran])
                      /\ answer.left = "nothing" =>
                            \/ answer.ran = p.cut
                            \/ WarmRaises(p.version, p.cells[answer.ran], r(answer.ran))
    BY DEF PilotStopsAtFirstFault
  <2>1. IsPilot(p) /\ answer = run_pilot(p) /\ p.version \in 3..9
    BY DEF ReviewInv, Answered, IsPilot
  <2> HIDE DEF p
  <2>2. CASE answer \in {Left("refused", "none", 0), Unregistered}
    <3>1. answer.left \in {"refused", "protocol-stop"} /\ answer.ran = 0
      BY <2>2 DEF Left, Unregistered
    <3> QED
      BY <3>1
  <2>3. ASSUME answer = Drive(p), p.prepared,
               p.version >= 4 => LabelsValid(p.preflight.streams[1])
        PROVE  /\ answer.left = "results" =>
                     p.prepared /\ \A i \in DOMAIN p.cells : ~spoiled(i)
               /\ \A i \in 1..answer.ran - 1 : ~spoiled(i)
               /\ answer.left = "protocol-stop" /\ answer.ran > 0 =>
                     \/ spoiled(answer.ran)
                     \/ ~LabelsAsRegistered(p, p.cells[answer.ran])
               /\ answer.left = "nothing" =>
                     \/ answer.ran = p.cut
                     \/ WarmRaises(p.version, p.cells[answer.ran], r(answer.ran))
    <3> DEFINE stages == [i \in DOMAIN p.cells |-> Cell(p, p.cells[i], r(i))]
    <3>1. ASSUME NEW i \in DOMAIN p.cells
          PROVE  /\ stages[i] = "ran" => ~spoiled(i)
                 /\ stages[i] # "ran" => spoiled(i) \/ ~LabelsAsRegistered(p, p.cells[i])
                 /\ stages[i] = "killed" => WarmRaises(p.version, p.cells[i], r(i))
      <4>1. DrivenCell(p, p.cells[i]) /\ IsList(p.preflight.streams[1])
        BY <2>1 DEF IsPilot, DrivenCell
      <4> QED
        BY <2>1, <2>3, <4>1, CellsSpoil
    <3>2. answer = Driven(p, stages)
      BY <2>3 DEF Drive
    <3>3. IsList(p.cells) /\ p.cut \in Nat /\ DOMAIN stages = DOMAIN p.cells
      BY <2>1 DEF IsPilot
    <3>4. DOMAIN p.cells = 1..Len(p.cells)
      BY <3>3, LenProperties DEF IsList
    <3> HIDE DEF stages, spoiled, r
    <3>5. CASE /\ answer = Left("results", "none", Len(p.cells))
               /\ \A i \in DOMAIN p.cells : i # p.cut /\ stages[i] = "ran"
      <4>1. answer.left = "results" /\ answer.ran = Len(p.cells)
        BY <3>5 DEF Left
      <4> QED
        BY <2>3, <3>1, <3>3, <3>4, <3>5, <4>1, LenProperties DEF IsList
    <3>6. ASSUME NEW i \in DOMAIN p.cells, i = p.cut \/ stages[i] # "ran",
                 \A j \in 1..i - 1 : j \in DOMAIN p.cells /\ stages[j] = "ran",
                 answer = IF i = p.cut \/ stages[i] = "killed" THEN Left("nothing", "killed", i)
                          ELSE Left("protocol-stop", stages[i], i)
          PROVE  /\ answer.left # "results" /\ answer.ran = i
                 /\ \A j \in 1..i - 1 : ~spoiled(j)
                 /\ answer.left = "protocol-stop" =>
                       spoiled(i) \/ ~LabelsAsRegistered(p, p.cells[i])
                 /\ answer.left = "nothing" =>
                       i = p.cut \/ WarmRaises(p.version, p.cells[i], r(i))
      <4>1. CASE i = p.cut \/ stages[i] = "killed"
        <5>1. answer.left = "nothing" /\ answer.ran = i
          BY <3>6, <4>1 DEF Left
        <5> QED
          BY <3>1, <3>6, <4>1, <5>1
      <4>2. CASE ~(i = p.cut \/ stages[i] = "killed")
        <5>1. answer.left = "protocol-stop" /\ answer.ran = i
          BY <3>6, <4>2 DEF Left
        <5> QED
          BY <3>1, <3>6, <4>2, <5>1
      <4> QED
        BY <4>1, <4>2
    <3>7. \/ /\ answer = Left("results", "none", Len(p.cells))
             /\ \A i \in DOMAIN p.cells : i # p.cut /\ stages[i] = "ran"
          \/ \E i \in DOMAIN p.cells :
                /\ i = p.cut \/ stages[i] # "ran"
                /\ \A j \in 1..i - 1 : j \in DOMAIN p.cells /\ stages[j] = "ran"
                /\ answer = IF i = p.cut \/ stages[i] = "killed" THEN Left("nothing", "killed", i)
                            ELSE Left("protocol-stop", stages[i], i)
      BY <3>2, <3>3, DriveEnds
    <3> QED
      BY <3>5, <3>6, <3>7
  <2> HIDE DEF spoiled, r
  <2> QED
    BY <2>1, <2>2, <2>3, PilotStarts
<1> QED
  BY <1>1, ReviewAnswers, PTL
-----------------------------------------------------------------------------
(* Success.                                                                *)

\* Rungs of which none is a success.
Failures == {r \in Rungs : r.status # "complete"}

\* A run is a success if no rung before the last holds.
LEMMA CompleteIfNone ==
    ASSUME NEW s \in Seq(Failures)
    PROVE  FirstOf(s \o Complete).status = "complete" <=> ~Stops(s)
<1> DEFINE c == Rung(TRUE, "complete", FALSE)
<1>1. c \in Rungs /\ c.holds /\ c.status = "complete"
  BY DEF Rung, Rungs, Verdicts
<1>2. Complete = <<c>>
  BY DEF Complete
<1> HIDE DEF c
<1>3. Complete \in Seq(Rungs) /\ Stops(Complete) /\ FirstOf(Complete).status = "complete"
  <2>1. FirstOf(<<c>>) = [status |-> c.status, hard |-> c.hard]
    BY <1>1, OneRung
  <2> QED
    BY <1>1, <1>2, <2>1, OneRung
<1>4. s \in Seq(Rungs) /\ \A i \in DOMAIN s : s[i].status # "complete"
  BY DEF Failures
<1>5. CASE Stops(s)
  <2>1. FirstOf(s \o Complete) = FirstOf(s)
    BY <1>3, <1>4, <1>5, FirstOfTwo
  <2>2. PICK i \in DOMAIN s : s[i].holds /\ \A j \in 1..i - 1 : ~s[j].holds
    BY <1>4, <1>5, SomeFirst
  <2>3. FirstOf(s).status = s[i].status
    BY <1>4, <2>2, FirstRung
  <2> QED
    BY <1>4, <1>5, <2>1, <2>2, <2>3
<1>6. CASE ~Stops(s)
  <2>1. FirstOf(s \o Complete) = FirstOf(Complete)
    BY <1>3, <1>4, <1>6, FirstOfTwo
  <2> QED
    BY <1>3, <1>6, <2>1
<1> QED
  BY <1>5, <1>6

\* Failures after failures are failures.
LEMMA FailuresOnFailures ==
    ASSUME NEW s \in Seq(Failures), NEW t \in Seq(Failures)
    PROVE  s \o t \in Seq(Failures) /\ (Stops(s \o t) <=> Stops(s) \/ Stops(t))
<1>1. s \o t \in Seq(Failures)
  BY ConcatProperties
<1>2. s \in Seq(Rungs) /\ t \in Seq(Rungs)
  BY DEF Failures
<1> QED
  BY <1>1, <1>2, FirstOfTwo

\* Ladders of one, two and three failures.
LEMMA FewFailures ==
    /\ \A a \in Failures : <<a>> \in Seq(Failures) /\ (Stops(<<a>>) <=> a.holds)
    /\ \A a, b \in Failures : /\ <<a, b>> \in Seq(Failures)
                              /\ Stops(<<a, b>>) <=> a.holds \/ b.holds
    /\ \A a, b, c \in Failures : /\ <<a, b, c>> \in Seq(Failures)
                                 /\ Stops(<<a, b, c>>) <=> a.holds \/ b.holds \/ c.holds
<1>1. ASSUME NEW a \in Failures
      PROVE  <<a>> \in Seq(Failures) /\ (Stops(<<a>>) <=> a.holds)
  <2> DEFINE l == <<a>>
  <2>1. l \in Seq(Failures) /\ DOMAIN l = {1} /\ l[1] = a
    OBVIOUS
  <2> HIDE DEF l
  <2>2. Stops(l) <=> a.holds
    BY <2>1 DEF Stops
  <2> QED
    BY <2>1, <2>2 DEF l
<1>2. ASSUME NEW a \in Failures, NEW b \in Failures
      PROVE  <<a, b>> \in Seq(Failures) /\ (Stops(<<a, b>>) <=> a.holds \/ b.holds)
  <2> DEFINE l == <<a, b>>
  <2>1. l \in Seq(Failures) /\ DOMAIN l = {1, 2} /\ l[1] = a /\ l[2] = b
    OBVIOUS
  <2> HIDE DEF l
  <2>2. Stops(l) <=> a.holds \/ b.holds
    BY <2>1 DEF Stops
  <2> QED
    BY <2>1, <2>2 DEF l
<1>3. ASSUME NEW a \in Failures, NEW b \in Failures, NEW c \in Failures
      PROVE  /\ <<a, b, c>> \in Seq(Failures)
             /\ Stops(<<a, b, c>>) <=> a.holds \/ b.holds \/ c.holds
  <2> DEFINE l == <<a, b, c>>
  <2>1. l \in Seq(Failures) /\ DOMAIN l = {1, 2, 3} /\ l[1] = a /\ l[2] = b /\ l[3] = c
    OBVIOUS
  <2> HIDE DEF l
  <2>2. Stops(l) <=> a.holds \/ b.holds \/ c.holds
    BY <2>1 DEF Stops
  <2> QED
    BY <2>1, <2>2 DEF l
<1> QED
  BY <1>1, <1>2, <1>3

\* What the pieces of the early ladders look for.
LEMMA EarlyPieces ==
    ASSUME NEW q, {q.mutated, q.failed} \subseteq BOOLEAN, NEW s, NEW h \in BOOLEAN
    PROVE  /\ RunRungs(q, s, h) \in Seq(Failures)
           /\ Stops(RunRungs(q, s, h)) <=> q.mutated \/ q.failed \/ s.answer = NoAnswer
           /\ Budget(s, h) \in Seq(Failures)
           /\ Stops(Budget(s, h)) <=> Cardinality(s.uses) > ToolCallBudget
           /\ Foreign(s, h) \in Seq(Failures) /\ (Stops(Foreign(s, h)) <=> s.unexpected # {})
           /\ \A ok \in BOOLEAN : Oracle(ok) \in Seq(Failures) /\ (Stops(Oracle(ok)) <=> ~ok)
           /\ \A valid :
                 /\ TrustRungs(q, s, valid) \in Seq(Failures)
                 /\ Stops(TrustRungs(q, s, valid)) <=>
                       q.condition = "treatment" /\ ~Aligned(q, s, valid)
<1>1. ASSUME NEW holds \in BOOLEAN, NEW status \in Verdicts \ {"complete"}, NEW hard
      PROVE  /\ hard \in BOOLEAN => Rung(holds, status, hard) \in Failures
             /\ Rung(holds, status, hard).holds <=> holds
  BY DEF Rung, Rungs, Failures
<1>2. /\ "invalid_source_mutation" \in Verdicts \ {"complete"}
      /\ "agent_error" \in Verdicts \ {"complete"}
      /\ "missing_or_invalid_agent_response" \in Verdicts \ {"complete"}
      /\ "tool_call_budget_exceeded" \in Verdicts \ {"complete"}
      /\ "unexpected_mcp_tool" \in Verdicts \ {"complete"}
      /\ "missing_treatment_comparison_evidence" \in Verdicts \ {"complete"}
      /\ "unverified_treatment_comparison_trust" \in Verdicts \ {"complete"}
      /\ "oracle_failed" \in Verdicts \ {"complete"}
  BY DEF Verdicts
<1> DEFINE three(a, b, c) == <<Rung(a, "invalid_source_mutation", h), Rung(b, "agent_error", h),
                               Rung(c, "missing_or_invalid_agent_response", FALSE)>>
           over(a) == <<Rung(a, "tool_call_budget_exceeded", h)>>
           alien(a) == <<Rung(a, "unexpected_mcp_tool", h)>>
           trust(a, b) == <<Rung(a, "missing_treatment_comparison_evidence", FALSE),
                            Rung(b, "unverified_treatment_comparison_trust", FALSE)>>
           oracle(a) == <<Rung(a, "oracle_failed", FALSE)>>
<1>3. ASSUME NEW a \in BOOLEAN, NEW b \in BOOLEAN, NEW c \in BOOLEAN
      PROVE  three(a, b, c) \in Seq(Failures) /\ (Stops(three(a, b, c)) <=> a \/ b \/ c)
  <2>1. /\ Rung(a, "invalid_source_mutation", h) \in Failures
        /\ Rung(a, "invalid_source_mutation", h).holds <=> a
        /\ Rung(b, "agent_error", h) \in Failures
        /\ Rung(b, "agent_error", h).holds <=> b
        /\ Rung(c, "missing_or_invalid_agent_response", FALSE) \in Failures
        /\ Rung(c, "missing_or_invalid_agent_response", FALSE).holds <=> c
    BY <1>1, <1>2
  <2> QED
    BY <2>1, FewFailures
<1>4. ASSUME NEW a \in BOOLEAN
      PROVE  /\ over(a) \in Seq(Failures) /\ (Stops(over(a)) <=> a)
             /\ alien(a) \in Seq(Failures) /\ (Stops(alien(a)) <=> a)
             /\ oracle(a) \in Seq(Failures) /\ (Stops(oracle(a)) <=> a)
  <2>1. /\ Rung(a, "tool_call_budget_exceeded", h) \in Failures
        /\ Rung(a, "tool_call_budget_exceeded", h).holds <=> a
        /\ Rung(a, "unexpected_mcp_tool", h) \in Failures
        /\ Rung(a, "unexpected_mcp_tool", h).holds <=> a
        /\ Rung(a, "oracle_failed", FALSE) \in Failures
        /\ Rung(a, "oracle_failed", FALSE).holds <=> a
    BY <1>1, <1>2
  <2> QED
    BY <2>1, FewFailures
<1>5. ASSUME NEW a \in BOOLEAN, NEW b \in BOOLEAN
      PROVE  trust(a, b) \in Seq(Failures) /\ (Stops(trust(a, b)) <=> a \/ b)
  <2>1. /\ Rung(a, "missing_treatment_comparison_evidence", FALSE) \in Failures
        /\ Rung(a, "missing_treatment_comparison_evidence", FALSE).holds <=> a
        /\ Rung(b, "unverified_treatment_comparison_trust", FALSE) \in Failures
        /\ Rung(b, "unverified_treatment_comparison_trust", FALSE).holds <=> b
    BY <1>1, <1>2
  <2> QED
    BY <2>1, FewFailures
<1>6. RunRungs(q, s, h) = three(q.mutated, q.failed, s.answer = NoAnswer)
  BY DEF RunRungs
<1>7. Budget(s, h) = over(Cardinality(s.uses) > ToolCallBudget)
  BY DEF Budget
<1>8. Foreign(s, h) = alien(s.unexpected # {})
  BY DEF Foreign
<1>9. \A ok \in BOOLEAN : Oracle(ok) = oracle(~ok)
  BY DEF Oracle
<1>10. ASSUME NEW valid
       PROVE  LET a == q.condition = "treatment" /\ valid = {}
                  b == q.condition = "treatment" /\ ~Aligned(q, s, valid)
              IN  /\ TrustRungs(q, s, valid) = trust(a, b) /\ a \in BOOLEAN /\ b \in BOOLEAN
                  /\ a => b
  <2>1. valid = {} => ~Aligned(q, s, valid)
    BY DEF Aligned
  <2> QED
    BY <2>1 DEF TrustRungs
<1> HIDE DEF three, over, alien, trust, oracle
<1>11. /\ RunRungs(q, s, h) \in Seq(Failures)
       /\ Stops(RunRungs(q, s, h)) <=> q.mutated \/ q.failed \/ s.answer = NoAnswer
  <2> DEFINE k == s.answer = NoAnswer
  <2>1. q.mutated \in BOOLEAN /\ q.failed \in BOOLEAN /\ k \in BOOLEAN
    OBVIOUS
  <2>2. RunRungs(q, s, h) = three(q.mutated, q.failed, k)
    BY <1>6
  <2> HIDE DEF k
  <2>3. /\ three(q.mutated, q.failed, k) \in Seq(Failures)
        /\ Stops(three(q.mutated, q.failed, k)) <=> q.mutated \/ q.failed \/ k
    BY <1>3, <2>1
  <2> QED
    BY <2>2, <2>3 DEF k
<1>12. /\ Budget(s, h) \in Seq(Failures)
       /\ Stops(Budget(s, h)) <=> Cardinality(s.uses) > ToolCallBudget
  <2>1. (Cardinality(s.uses) > ToolCallBudget) \in BOOLEAN
    OBVIOUS
  <2> QED
    BY <1>4, <1>7, <2>1
<1>13. Foreign(s, h) \in Seq(Failures) /\ (Stops(Foreign(s, h)) <=> s.unexpected # {})
  BY <1>4, <1>8
<1>14. \A ok \in BOOLEAN : Oracle(ok) \in Seq(Failures) /\ (Stops(Oracle(ok)) <=> ~ok)
  BY <1>4, <1>9
<1>15. ASSUME NEW valid
       PROVE  /\ TrustRungs(q, s, valid) \in Seq(Failures)
              /\ Stops(TrustRungs(q, s, valid)) <=>
                    q.condition = "treatment" /\ ~Aligned(q, s, valid)
  BY <1>5, <1>10
<1> QED
  BY <1>11, <1>12, <1>13, <1>14, <1>15

\* Three and five ladders of failures on each other.
LEMMA ManyFailures ==
    ASSUME NEW a \in Seq(Failures), NEW b \in Seq(Failures), NEW c \in Seq(Failures)
    PROVE  /\ a \o b \o c \in Seq(Failures)
           /\ Stops(a \o b \o c) <=> Stops(a) \/ Stops(b) \/ Stops(c)
           /\ \A d, e \in Seq(Failures) :
                 /\ a \o b \o c \o d \o e \in Seq(Failures)
                 /\ Stops(a \o b \o c \o d \o e) <=>
                       Stops(a) \/ Stops(b) \/ Stops(c) \/ Stops(d) \/ Stops(e)
<1>1. a \o b \in Seq(Failures) /\ (Stops(a \o b) <=> Stops(a) \/ Stops(b))
  BY FailuresOnFailures
<1> DEFINE x == a \o b
<1> HIDE DEF x
<1>2. x \o c \in Seq(Failures) /\ (Stops(x \o c) <=> Stops(x) \/ Stops(c))
  BY <1>1, FailuresOnFailures DEF x
<1> DEFINE y == x \o c
<1>3. y = a \o b \o c
  BY DEF x
<1> HIDE DEF y
<1>4. y \in Seq(Failures) /\ (Stops(y) <=> Stops(a) \/ Stops(b) \/ Stops(c))
  BY <1>1, <1>2 DEF x, y
<1>5. ASSUME NEW d \in Seq(Failures), NEW e \in Seq(Failures)
      PROVE  /\ y \o d \o e \in Seq(Failures)
             /\ Stops(y \o d \o e) <=> Stops(y) \/ Stops(d) \/ Stops(e)
  <2>1. y \o d \in Seq(Failures) /\ (Stops(y \o d) <=> Stops(y) \/ Stops(d))
    BY <1>4, FailuresOnFailures
  <2> DEFINE z == y \o d
  <2> HIDE DEF z
  <2>2. z \o e \in Seq(Failures) /\ (Stops(z \o e) <=> Stops(z) \/ Stops(e))
    BY <2>1, FailuresOnFailures DEF z
  <2> QED
    BY <2>1, <2>2 DEF z
<1> QED
  BY <1>3, <1>4, <1>5

\* Nothing is wrong with a run but what is in its answer.
WellRun(q, s) == ~q.mutated /\ ~q.failed /\ s.answer # NoAnswer /\ s.unexpected = {}
InBudget(s) == ~(Cardinality(s.uses) > ToolCallBudget)

\* What a packet of the versions before 3 takes for a success: the oracle
\* passes, and a treatment's answer claims the comparison of a valid response.
LEMMA EarlyPackets ==
    ASSUME NEW q, {q.mutated, q.failed} \subseteq BOOLEAN,
           q.condition \in {"baseline", "treatment"}
    PROVE  /\ LET s == summarize_stream(q.stream, 0)
                  a == s.answer
                  valid == {i \in s.objects : parse_temporal_branch_diff_response(q.stream[i].body)}
              IN  Packet(0, q).status = "complete" <=>
                     /\ WellRun(q, s) /\ InBudget(s) /\ a.fields = 0
                     /\ q.condition = "baseline" => a.trust = NoComparison
                     /\ q.condition = "treatment" => Aligned(q, s, valid)
                     /\ evaluate_finding_answer(q, a)
           /\ \A s :
                 build_temporal_review_packet(q, s).status = "complete" <=>
                     /\ WellRun(q, s) /\ InBudget(s)
                     /\ q.condition = "treatment" =>
                           Aligned(q, s, {i \in s.objects : parse_raw_response(q.task, q.stream[i].body)})
                     /\ IF q.condition = "baseline" THEN evaluate_review_answer(q, s.answer, <<>>)
                        ELSE \E i \in s.objects :
                                evaluate_review_answer(q, s.answer, q.stream[i].body)
           /\ LET s == summarize_stream(q.stream, 2)
              IN  Packet(2, q).status = "complete" <=>
                     /\ WellRun(q, s) /\ InBudget(s)
                     /\ q.condition = "treatment" =>
                           Aligned(q, s, {i \in s.objects : parse_raw_response(q.task, q.stream[i].body)})
                     /\ IF q.condition = "baseline" THEN evaluate_v2(q, s.answer, <<>>)
                        ELSE \E i \in s.objects : evaluate_v2(q, s.answer, q.stream[i].body)
<1>1. ASSUME NEW s, NEW valid, NEW ok \in BOOLEAN
      PROVE  LET r == FirstOf(RunRungs(q, s, FALSE) \o Budget(s, FALSE) \o Foreign(s, FALSE)
                              \o TrustRungs(q, s, valid) \o Oracle(ok) \o Complete)
             IN  r.status = "complete" <=>
                    /\ WellRun(q, s) /\ InBudget(s) /\ ok
                    /\ q.condition = "treatment" => Aligned(q, s, valid)
  <2> DEFINE m == RunRungs(q, s, FALSE)
             b == Budget(s, FALSE)
             f == Foreign(s, FALSE)
             t == TrustRungs(q, s, valid)
             o == Oracle(ok)
  <2>1. /\ m \in Seq(Failures) /\ b \in Seq(Failures) /\ f \in Seq(Failures)
        /\ t \in Seq(Failures) /\ o \in Seq(Failures)
        /\ Stops(m) <=> q.mutated \/ q.failed \/ s.answer = NoAnswer
        /\ Stops(b) <=> Cardinality(s.uses) > ToolCallBudget
        /\ Stops(f) <=> s.unexpected # {}
        /\ Stops(t) <=> q.condition = "treatment" /\ ~Aligned(q, s, valid)
        /\ Stops(o) <=> ~ok
    BY EarlyPieces
  <2> HIDE DEF m, b, f, t, o
  <2>2. /\ m \o b \o f \o t \o o \in Seq(Failures)
        /\ Stops(m \o b \o f \o t \o o) <=> Stops(m) \/ Stops(b) \/ Stops(f) \/ Stops(t) \/ Stops(o)
    BY <2>1, ManyFailures
  <2>3. FirstOf(m \o b \o f \o t \o o \o Complete).status = "complete" <=>
            ~Stops(m \o b \o f \o t \o o)
    BY <2>2, CompleteIfNone
  <2>4. FirstOf(m \o b \o f \o t \o o \o Complete).status = "complete" <=>
            /\ WellRun(q, s) /\ InBudget(s) /\ ok
            /\ q.condition = "treatment" => Aligned(q, s, valid)
    BY <2>1, <2>2, <2>3 DEF WellRun, InBudget
  <2> QED
    BY <2>4, Zenon DEF m, b, f, t, o
<1>2. ASSUME NEW s
      PROVE  build_temporal_review_packet(q, s).status = "complete" <=>
                 /\ WellRun(q, s) /\ InBudget(s)
                 /\ q.condition = "treatment" =>
                       Aligned(q, s, {i \in s.objects : parse_raw_response(q.task, q.stream[i].body)})
                 /\ IF q.condition = "baseline" THEN evaluate_review_answer(q, s.answer, <<>>)
                    ELSE \E i \in s.objects : evaluate_review_answer(q, s.answer, q.stream[i].body)
  <2> DEFINE valid == {i \in s.objects : parse_raw_response(q.task, q.stream[i].body)}
             passed == /\ s.answer # NoAnswer
                       /\ IF q.condition = "baseline" THEN evaluate_review_answer(q, s.answer, <<>>)
                          ELSE \E i \in s.objects :
                                  evaluate_review_answer(q, s.answer, q.stream[i].body)
  <2>1. build_temporal_review_packet(q, s) =
            FirstOf(RunRungs(q, s, FALSE) \o Budget(s, FALSE) \o Foreign(s, FALSE)
                    \o TrustRungs(q, s, valid) \o Oracle(passed) \o Complete)
    BY Zenon DEF build_temporal_review_packet
  <2>2. passed \in BOOLEAN
    OBVIOUS
  <2>3. passed => s.answer # NoAnswer
    OBVIOUS
  <2>4. s.answer # NoAnswer =>
            (passed <=> IF q.condition = "baseline" THEN evaluate_review_answer(q, s.answer, <<>>)
                        ELSE \E i \in s.objects :
                                evaluate_review_answer(q, s.answer, q.stream[i].body))
    BY DEF evaluate_review_answer
  <2> HIDE DEF passed, valid
  <2>5. FirstOf(RunRungs(q, s, FALSE) \o Budget(s, FALSE) \o Foreign(s, FALSE)
                \o TrustRungs(q, s, valid) \o Oracle(passed) \o Complete).status = "complete" <=>
            /\ WellRun(q, s) /\ InBudget(s) /\ passed
            /\ q.condition = "treatment" => Aligned(q, s, valid)
    BY <1>1, <2>2
  <2> QED
    BY <2>1, <2>4, <2>5 DEF WellRun, valid
<1>3. LET s == summarize_stream(q.stream, 2)
      IN  Packet(2, q).status = "complete" <=>
              /\ WellRun(q, s) /\ InBudget(s)
              /\ q.condition = "treatment" =>
                    Aligned(q, s, {i \in s.objects : parse_raw_response(q.task, q.stream[i].body)})
              /\ IF q.condition = "baseline" THEN evaluate_v2(q, s.answer, <<>>)
                 ELSE \E i \in s.objects : evaluate_v2(q, s.answer, q.stream[i].body)
  <2> DEFINE s == summarize_stream(q.stream, 2)
             valid == {i \in s.objects : parse_raw_response(q.task, q.stream[i].body)}
             passed == /\ s.answer # NoAnswer
                       /\ IF q.condition = "baseline" THEN evaluate_v2(q, s.answer, <<>>)
                          ELSE \E i \in s.objects : evaluate_v2(q, s.answer, q.stream[i].body)
  <2>1. Packet(2, q) = build_temporal_review_v2_packet(q)
    BY DEF Packet
  <2>2. build_temporal_review_v2_packet(q) =
            FirstOf(RunRungs(q, s, FALSE) \o Budget(s, FALSE) \o Foreign(s, FALSE)
                    \o TrustRungs(q, s, valid) \o Oracle(passed) \o Complete)
    BY Zenon DEF build_temporal_review_v2_packet
  <2>3. passed \in BOOLEAN
    OBVIOUS
  <2> HIDE DEF s
  <2>4. s.answer # NoAnswer =>
            (passed <=> IF q.condition = "baseline" THEN evaluate_v2(q, s.answer, <<>>)
                        ELSE \E i \in s.objects : evaluate_v2(q, s.answer, q.stream[i].body))
    BY DEF evaluate_v2
  <2> HIDE DEF passed, valid
  <2>5. FirstOf(RunRungs(q, s, FALSE) \o Budget(s, FALSE) \o Foreign(s, FALSE)
                \o TrustRungs(q, s, valid) \o Oracle(passed) \o Complete).status = "complete" <=>
            /\ WellRun(q, s) /\ InBudget(s) /\ passed
            /\ q.condition = "treatment" => Aligned(q, s, valid)
    BY <1>1, <2>3
  <2>6. Packet(2, q).status = "complete" <=>
            /\ WellRun(q, s) /\ InBudget(s)
            /\ q.condition = "treatment" => Aligned(q, s, valid)
            /\ IF q.condition = "baseline" THEN evaluate_v2(q, s.answer, <<>>)
               ELSE \E i \in s.objects : evaluate_v2(q, s.answer, q.stream[i].body)
    BY <2>1, <2>2, <2>4, <2>5 DEF WellRun
  <2> QED
    BY <2>6 DEF s, valid
<1>4. LET s == summarize_stream(q.stream, 0)
          valid == {i \in s.objects : parse_temporal_branch_diff_response(q.stream[i].body)}
      IN  Packet(0, q).status = "complete" <=>
              /\ WellRun(q, s) /\ InBudget(s) /\ s.answer.fields = 0
              /\ q.condition = "baseline" => s.answer.trust = NoComparison
              /\ q.condition = "treatment" => Aligned(q, s, valid)
              /\ evaluate_finding_answer(q, s.answer)
  <2> DEFINE s == summarize_stream(q.stream, 0)
             a == s.answer
             valid == {i \in s.objects : parse_temporal_branch_diff_response(q.stream[i].body)}
             well == a # NoAnswer /\ a.fields = 0
             dies == valid # {} /\ a # NoAnswer /\ a.fields > 2
             claims == q.condition = "baseline" /\ a # NoAnswer /\ a.trust # NoComparison
             found == well /\ evaluate_finding_answer(q, a)
             d == <<Rung(dies, "raised", FALSE)>>
             m == RunRungs(q, s, FALSE)
             w == <<Rung(~well, "missing_or_invalid_agent_response", FALSE)>>
             b == Budget(s, FALSE)
             f == Foreign(s, FALSE)
             n == <<Rung(claims, "unverified_baseline_comparison_trust", FALSE)>>
             t == TrustRungs(q, s, valid)
             o == Oracle(found)
  <2>1. Packet(0, q) = FirstOf(d \o m \o w \o b \o f \o n \o t \o o \o Complete)
    BY DEF Packet, build_temporal_packet
  <2>2. dies \in BOOLEAN /\ well \in BOOLEAN /\ claims \in BOOLEAN /\ found \in BOOLEAN
    OBVIOUS
  <2>3. dies => ~well
    OBVIOUS
  <2>4. found <=> well /\ evaluate_finding_answer(q, a)
    OBVIOUS
  <2>5. well <=> a # NoAnswer /\ a.fields = 0
    OBVIOUS
  <2>6. claims <=> q.condition = "baseline" /\ a # NoAnswer /\ a.trust # NoComparison
    OBVIOUS
  <2> HIDE DEF dies, well, claims, found
  <2>7. /\ Rung(dies, "raised", FALSE) \in Failures
        /\ Rung(dies, "raised", FALSE).holds <=> dies
        /\ Rung(~well, "missing_or_invalid_agent_response", FALSE) \in Failures
        /\ Rung(~well, "missing_or_invalid_agent_response", FALSE).holds <=> ~well
        /\ Rung(claims, "unverified_baseline_comparison_trust", FALSE) \in Failures
        /\ Rung(claims, "unverified_baseline_comparison_trust", FALSE).holds <=> claims
    BY <2>2 DEF Rung, Rungs, Failures, Verdicts
  <2>8. /\ d \in Seq(Failures) /\ (Stops(d) <=> dies)
        /\ w \in Seq(Failures) /\ (Stops(w) <=> ~well)
        /\ n \in Seq(Failures) /\ (Stops(n) <=> claims)
    BY <2>7, FewFailures
  <2>9. /\ m \in Seq(Failures) /\ b \in Seq(Failures) /\ f \in Seq(Failures)
        /\ t \in Seq(Failures) /\ o \in Seq(Failures)
        /\ Stops(m) <=> q.mutated \/ q.failed \/ a = NoAnswer
        /\ Stops(b) <=> Cardinality(s.uses) > ToolCallBudget
        /\ Stops(f) <=> s.unexpected # {}
        /\ Stops(t) <=> q.condition = "treatment" /\ ~Aligned(q, s, valid)
        /\ Stops(o) <=> ~found
    BY <2>2, EarlyPieces
  <2> HIDE DEF s, a, valid, d, m, w, b, f, n, t, o
  <2> DEFINE x == d \o m \o w \o b \o f
             y == x \o n \o t
  <2>10. x \in Seq(Failures) /\ (Stops(x) <=> Stops(d) \/ Stops(m) \/ Stops(w) \/ Stops(b) \/ Stops(f))
    BY <2>8, <2>9, ManyFailures
  <2> HIDE DEF x
  <2>11. y \in Seq(Failures) /\ (Stops(y) <=> Stops(x) \/ Stops(n) \/ Stops(t))
    BY <2>8, <2>9, <2>10, ManyFailures
  <2> HIDE DEF y
  <2>12. y \o o \in Seq(Failures) /\ (Stops(y \o o) <=> Stops(y) \/ Stops(o))
    BY <2>9, <2>11, FailuresOnFailures
  <2>13. FirstOf(y \o o \o Complete).status = "complete" <=> ~Stops(y \o o)
    BY <2>12, CompleteIfNone
  <2>14. Packet(0, q) = FirstOf(y \o o \o Complete)
    BY <2>1, Zenon DEF x, y
  <2>15. Packet(0, q).status = "complete" <=>
             /\ ~dies /\ ~q.mutated /\ ~q.failed /\ a # NoAnswer /\ well /\ InBudget(s)
             /\ s.unexpected = {} /\ ~claims /\ found
             /\ q.condition = "treatment" => Aligned(q, s, valid)
    BY <2>8, <2>9, <2>10, <2>11, <2>12, <2>13, <2>14 DEF InBudget
  <2>16. Packet(0, q).status = "complete" <=>
             /\ WellRun(q, s) /\ InBudget(s) /\ a.fields = 0
             /\ q.condition = "baseline" => a.trust = NoComparison
             /\ q.condition = "treatment" => Aligned(q, s, valid)
             /\ evaluate_finding_answer(q, a)
    <3>1. WellRun(q, s) <=> ~q.mutated /\ ~q.failed /\ a # NoAnswer /\ s.unexpected = {}
      BY DEF WellRun, a
    <3> QED
      BY <2>3, <2>4, <2>5, <2>6, <2>15, <3>1
  <2> QED
    BY <2>16 DEF s, a, valid
<1> QED
  BY <1>2, <1>3, <1>4

\* What a packet of a later version takes for a success.
LEMMA LaterPackets ==
    ASSUME NEW v \in 3..9, NEW q, {q.mutated, q.failed} \subseteq BOOLEAN
    PROVE  LET s == summarize_stream(q.stream, v)
           IN  Packet(v, q).status = "complete" <=>
                   s.answer # NoAnswer /\ ~Stopping(v, q, s) /\ Judge(v, q, s)
<1> DEFINE s == summarize_stream(q.stream, v)
           r == Packet(v, q)
<1>1. /\ s.answer # NoAnswer =>
            IF Stopping(v, q, s) THEN r.hard = TRUE /\ r.status \notin NoFault
            ELSE r = [status |-> IF Judge(v, q, s) THEN "complete" ELSE "oracle_failed",
                      hard |-> FALSE]
      /\ s.answer = NoAnswer =>
            IF q.mutated \/ q.failed THEN r.hard = TRUE /\ r.status \notin NoFault
            ELSE r = [status |-> "missing_or_invalid_agent_response", hard |-> FALSE]
  BY LaterPacket
<1> HIDE DEF s, r
<1>2. r.status = "complete" <=> s.answer # NoAnswer /\ ~Stopping(v, q, s) /\ Judge(v, q, s)
  BY <1>1 DEF NoFault
<1> QED
  BY <1>2 DEF s, r

\* A packet is of its version's ladder, or the adapter has no verdict.
LEMMA CompleteIsPacket ==
    ASSUME NEW q, ~q.calibration, run(q).status = "complete"
    PROVE  run(q) = Packet(q.surface, q)
BY DEF run, Refuse

\* The later versions share three oracles.
LEMMA OraclesInGroups ==
    ASSUME NEW v \in 3..9, NEW q, NEW a, NEW b
    PROVE  Evaluate(v, q, a, b) = IF v = 3 THEN evaluate_v3(q, a, b)
                                  ELSE IF v <= 5 THEN evaluate_v4(q, a, b)
                                  ELSE evaluate_v6(q, a, b)
<1>1. CASE v = 3
  BY <1>1 DEF Evaluate
<1>2. CASE v = 4
  BY <1>2 DEF Evaluate
<1>3. CASE v = 5
  BY <1>3 DEF Evaluate, evaluate_v5
<1>4. CASE v = 6
  BY <1>4 DEF Evaluate
<1>5. CASE v = 7
  BY <1>5 DEF Evaluate, evaluate_v7
<1>6. CASE v = 8
  BY <1>6 DEF Evaluate, evaluate_v8
<1>7. CASE v = 9
  BY <1>7 DEF Evaluate, evaluate_v9
<1> QED
  BY <1>1, <1>2, <1>3, <1>4, <1>5, <1>6, <1>7

\* The oracles of the later versions hold a treatment's answer against the
\* response they are given.
LEMMA OracleReads ==
    ASSUME NEW v \in 3..9, NEW q, NEW a, NEW b
    PROVE  Evaluate(v, q, a, b) => RawAgrees(q, a, b)
<1>1. evaluate_v3(q, a, b) => RawAgrees(q, a, b)
  BY DEF evaluate_v3
<1>2. evaluate_v4(q, a, b) => RawAgrees(q, a, b)
  BY DEF evaluate_v4
<1>3. evaluate_v6(q, a, b) => RawAgrees(q, a, b)
  <2>1. "raw" \notin failures_v6(q, a, b) /\ a # NoAnswer /\ a.fields = 6 => RawAgrees(q, a, b)
    BY DEF failures_v6
  <2>2. failures_v6(q, a, b) = {} => a # NoAnswer /\ a.fields = 6
    BY DEF failures_v6
  <2> QED
    BY <2>1, <2>2 DEF evaluate_v6
<1> QED
  BY <1>1, <1>2, <1>3, OraclesInGroups

\* What a comparison must show of the locus.
LEMMA SupportShows ==
    ASSUME NEW task, NEW b, Supports(task, b)
    PROVE  /\ b.lists \subseteq {"elsewhere"} => task.evidence # "content_delta"
           /\ b.lists # {}
BY DEF Supports

\* For all streams: a complete treatment packet stands on one comparison that
\* the tool returned, and that is worth it.
THEOREM OneCallIsEnough == Spec => []OneCallCertifies
<1>1. ReviewInv => OneCallCertifies
  <2> DEFINE q == question
             v == q.surface
             s == summarize_stream(q.stream, v)
             certified(i, j) ==
                /\ Used(q, j) /\ Good(q, q.stream[i].body)
                /\ v \in 0..2 => q.stream[j].answer.trust =
                                     <<q.stream[i].body.provisioned, q.stream[i].body.content>>
                /\ v >= 2 => /\ q.stream[i].body.lists \subseteq {"elsewhere"} =>
                                    q.task.evidence # "content_delta"
                             /\ q.stream[i].body.lists # {}
                /\ v >= 3 => /\ q.stream[j].answer.boundary = q.stream[i].body.content
                             /\ \A k \in Brought(q) : k < j /\ Good(q, q.stream[k].body)
  <2> SUFFICES ASSUME ReviewInv, Answered("orientation"), answer.status = "complete",
                      ~q.calibration, q.condition = "treatment", v >= 0
               PROVE  \E i \in Brought(q) : \E j \in DOMAIN q.stream : certified(i, j)
    BY Zenon DEF OneCallCertifies
  <2>1. IsQuestion(q) /\ answer = run(q)
    BY DEF ReviewInv, Answered
  <2>2. /\ IsStream(q.stream) /\ v \in 0..9 /\ {q.mutated, q.failed} \subseteq BOOLEAN
        /\ q.condition \in {"baseline", "treatment"}
    BY <2>1 DEF IsQuestion
  <2>3. Packet(v, q).status = "complete"
    BY <2>1, CompleteIsPacket
  <2> HIDE DEF q
  <2>4. /\ s.diffs = Brought(q) /\ s.objects \subseteq Brought(q)
        /\ \A i \in s.objects : q.stream[i].body.form = "object"
    BY <2>2, DiffsAreBrought DEF summarize_stream, ObjectsAt
  <2>5. s.answer # NoAnswer => /\ s.final \in DOMAIN q.stream /\ Used(q, s.final)
                               /\ s.answer = q.stream[s.final].answer
    BY <2>2, AnswerIsUsed
  <2>6. \A b : Comparison(b) = <<b.provisioned, b.content>>
    BY DEF Comparison
  <2>7. CASE v = 0
    <3> DEFINE valid == {i \in s.objects : parse_temporal_branch_diff_response(q.stream[i].body)}
    <3>1. WellRun(q, s) /\ Aligned(q, s, valid)
      BY <2>2, <2>3, <2>7, EarlyPackets
    <3>2. PICK i \in valid : s.answer.trust = Comparison(q.stream[i].body)
      BY <3>1 DEF Aligned
    <3>3. Good(q, q.stream[i].body)
      BY <2>7, <3>2 DEF parse_temporal_branch_diff_response, Good
    <3>4. i \in Brought(q) /\ s.answer # NoAnswer
      BY <2>4, <3>1, <3>2 DEF WellRun
    <3> DEFINE j == s.final
               body == q.stream[i].body
    <3>5. /\ j \in DOMAIN q.stream /\ Used(q, j) /\ Good(q, body)
          /\ q.stream[j].answer.trust = Comparison(body)
      BY <2>5, <3>2, <3>3, <3>4
    <3> HIDE DEF j
    <3>6. certified(i, j)
      BY <2>6, <2>7, <3>2, <3>5
    <3> QED
      BY <3>4, <3>5, <3>6
  <2>8. CASE v = 1
    <3> DEFINE valid == {i \in s.objects : parse_raw_response(q.task, q.stream[i].body)}
    <3>1. Packet(v, q) = build_temporal_review_packet(q, s)
      BY <2>8 DEF Packet
    <3>2. WellRun(q, s) /\ Aligned(q, s, valid)
      BY <2>2, <2>3, <3>1, EarlyPackets
    <3>3. PICK i \in valid : s.answer.trust = Comparison(q.stream[i].body)
      BY <3>2 DEF Aligned
    <3>4. Good(q, q.stream[i].body)
      BY <2>8, <3>3, GoodParses
    <3>5. i \in Brought(q) /\ s.answer # NoAnswer
      BY <2>4, <3>2, <3>3 DEF WellRun
    <3> DEFINE j == s.final
               body == q.stream[i].body
    <3>6. /\ j \in DOMAIN q.stream /\ Used(q, j) /\ Good(q, body)
          /\ q.stream[j].answer.trust = Comparison(body)
      BY <2>5, <3>3, <3>4, <3>5
    <3> HIDE DEF j
    <3>7. certified(i, j)
      BY <2>6, <2>8, <3>3, <3>6
    <3> QED
      BY <3>5, <3>6, <3>7
  <2>9. CASE v = 2
    <3>1. WellRun(q, s) /\ \E i \in s.objects : evaluate_v2(q, s.answer, q.stream[i].body)
      BY <2>2, <2>3, <2>9, EarlyPackets
    <3>2. PICK i \in s.objects : evaluate_v2(q, s.answer, q.stream[i].body)
      BY <3>1
    <3>3. /\ parse_raw_response(q.task, q.stream[i].body) /\ Supports(q.task, q.stream[i].body)
          /\ s.answer.trust = Comparison(q.stream[i].body)
      BY <3>2 DEF evaluate_v2
    <3>4. Good(q, q.stream[i].body)
      BY <2>9, <3>3, GoodParses
    <3>5. i \in Brought(q) /\ s.answer # NoAnswer
      BY <2>4, <3>1 DEF WellRun
    <3> DEFINE j == s.final
               body == q.stream[i].body
    <3>6. /\ j \in DOMAIN q.stream /\ Used(q, j) /\ Good(q, body)
          /\ q.stream[j].answer.trust = Comparison(body)
      BY <2>5, <3>3, <3>4, <3>5
    <3> HIDE DEF j
    <3>7. certified(i, j)
      BY <2>6, <2>9, <3>3, <3>6, SupportShows
    <3> QED
      BY <3>5, <3>6, <3>7
  <2>10. CASE v \in 3..9
    <3>1. s.answer # NoAnswer /\ ~Stopping(v, q, s) /\ Judge(v, q, s)
      BY <2>2, <2>3, <2>10, LaterPackets
    <3>2. /\ s.diffs # {} /\ Eligible(s) = s.diffs /\ ValidAt(q, s) = Eligible(s)
          /\ ValidAt(q, s) # {}
      BY <3>1 DEF Stopping, Disordered
    <3> DEFINE i == Selected(q, s)
    <3>3. i \in ValidAt(q, s)
      <4>1. ValidAt(q, s) \subseteq 1..Len(q.stream) /\ Len(q.stream) \in Nat
        BY <2>2, <2>4, <3>2, StreamShape DEF Brought
      <4> QED
        BY <3>2, <4>1, LargestOne DEF Selected
    <3>4. Evaluate(v, q, s.answer, q.stream[i].body)
      BY <3>1, <3>3 DEF Judge
    <3> HIDE DEF i
    <3>5. /\ parse_raw_response(q.task, q.stream[i].body)
          /\ s.answer.boundary = q.stream[i].body.content /\ Supports(q.task, q.stream[i].body)
      BY <2>10, <3>4, OracleReads DEF RawAgrees, BoundaryOf
    <3>6. \A k \in Brought(q) : k < s.final /\ Good(q, q.stream[k].body)
      <4>1. ASSUME NEW k \in Brought(q)
            PROVE  k < s.final /\ parse_raw_response(q.task, q.stream[k].body)
        BY <2>4, <3>2, <4>1 DEF Eligible, ValidAt
      <4> QED
        BY <2>10, <4>1, GoodParses
    <3>7. i \in Brought(q)
      BY <2>4, <3>2, <3>3
    <3>8. certified(i, s.final)
      BY <2>5, <2>10, <3>1, <3>5, <3>6, <3>7, SupportShows
    <3> HIDE DEF s
    <3> QED
      BY <2>5, <3>1, <3>7, <3>8
  <2> QED
    BY <2>2, <2>7, <2>8, <2>9, <2>10
<1> QED
  BY <1>1, ReviewAnswers, PTL
-----------------------------------------------------------------------------
(* The protocol can be followed.                                           *)

\* The stream of an agent that obeys: its last event is its answer, and its
\* tools and their number are those it may use.
LEMMA ObeyingStream ==
    ASSUME NEW q, IsQuestion(q), Obeys(q)
    PROVE  LET n == Len(q.stream)
               s == summarize_stream(q.stream, q.surface)
           IN  /\ n \in DOMAIN q.stream /\ s.final = n
               /\ s.answer = q.stream[n].answer /\ s.answer # NoAnswer
               /\ WellRun(q, s)
               /\ "cap" \in Demands(q) => InBudget(s)
               /\ \A i \in Brought(q) : i < n
<1> DEFINE n == Len(q.stream)
           s == summarize_stream(q.stream, q.surface)
           results == {j \in DOMAIN q.stream : q.stream[j].type = "result"}
<1>1. IsStream(q.stream) /\ n \in Nat /\ DOMAIN q.stream = 1..n
  BY StreamShape DEF IsQuestion
<1>2. results = {n}
  BY DEF Obeys
<1>3. n \in DOMAIN q.stream /\ q.stream[n].type = "result" /\ q.stream[n].answer # NoAnswer
  BY <1>2 DEF Obeys
<1>4. Used(q, n)
  BY <1>1, <1>3 DEF Used
<1>5. s.answer # NoAnswer /\ s.final = n /\ s.answer = q.stream[n].answer
  BY <1>1, <1>3, <1>4, AnswerIsUsed
<1>6. \A i \in Brought(q) : i < n
  <2> SUFFICES ASSUME NEW i \in Brought(q) PROVE i < n
    OBVIOUS
  <2>1. i \in 1..n /\ q.stream[i].type = "out"
    BY <1>1 DEF Brought
  <2> QED
    BY <1>1, <1>3, <2>1
<1>7. s.unexpected = {}
  <2>1. s.unexpected = Unexpected(q.surface, ToolsIn(q.stream))
    BY DEF summarize_stream
  <2>2. ASSUME NEW k \in UsesAt(q.stream)
        PROVE  q.stream[k].tool \in {"read", "structured"} \cup AllowedTools(q.surface)
    <3>1. CASE k \in Navigation(q)
      BY <3>1 DEF Obeys
    <3>2. CASE k \notin Navigation(q)
      BY <3>2 DEF Navigation, UsesAt
    <3> QED
      BY <3>1, <3>2
  <2>3. ToolsIn(q.stream) \subseteq {"read", "structured"} \cup AllowedTools(q.surface)
    BY <2>2 DEF ToolsIn
  <2> QED
    BY <2>1, <2>3 DEF Unexpected, McpTools
<1>8. ~q.mutated /\ ~q.failed
  BY DEF Obeys
<1>9. ASSUME "cap" \in Demands(q) PROVE InBudget(s)
  <2> DEFINE U == UsesAt(q.stream)
             N == Navigation(q)
  <2>1. U \subseteq 1..n /\ N \subseteq U
    BY <1>1 DEF UsesAt, Navigation
  <2>2. IsFiniteSet(1..n)
    BY <1>1, FS_Interval
  <2>3. IsFiniteSet(U)
    BY <2>1, <2>2, FS_Subset
  <2>4. IsFiniteSet(N) /\ IsFiniteSet(U \ N)
    BY <2>1, <2>3, FS_Subset
  <2>5. Cardinality(N) <= NavigationCap /\ Cardinality(U \ N) <= 1
    BY <1>9 DEF Obeys, UsesAt
  <2>6. U = N \cup (U \ N) /\ N \cap (U \ N) = {}
    BY <2>1
  <2> HIDE DEF U, N
  <2> DEFINE M == U \ N
  <2>7. Cardinality(N \cup M) = Cardinality(N) + Cardinality(M) - Cardinality(N \cap M)
    BY <2>4, FS_Union
  <2>8. Cardinality(N \cap M) = 0
    BY <2>6, FS_EmptySet
  <2>9. Cardinality(N) \in Nat /\ Cardinality(M) \in Nat
    BY <2>4, FS_CardinalityType
  <2>10. Cardinality(U) = Cardinality(N) + Cardinality(M)
    <3>1. N \cup M = U
      BY <2>6
    <3> HIDE DEF M
    <3> QED
      BY <2>7, <2>8, <2>9, <3>1
  <2>11. Cardinality(M) <= 1
    BY <2>5
  <2> HIDE DEF M
  <2>12. Cardinality(U) <= ToolCallBudget /\ Cardinality(U) \in Nat /\ ToolCallBudget \in Nat
    BY <2>5, <2>9, <2>10, <2>11, ReviewAssumption
  <2>13. s.uses = U
    BY DEF summarize_stream, U
  <2> HIDE DEF s
  <2> QED
    BY <2>12, <2>13 DEF InBudget
<1>10. WellRun(q, s)
  BY <1>5, <1>7, <1>8 DEF WellRun
<1> QED
  BY <1>3, <1>5, <1>6, <1>9, <1>10

\* What a loader lets pass has no defect that shows in the tool's responses.
LEMMA LoadedContracts ==
    ASSUME NEW v \in 1..9, NEW defects,
           IF v >= 5 THEN ContractLoads(v, defects) ELSE defects = {}
    PROVE  /\ ContractLoads(v, defects)
           /\ "drift" \notin defects /\ "unsupported" \notin defects
<1>1. CASE v <= 4
  BY <1>1 DEF ContractLoads
<1>2. CASE v >= 5
  <2>1. "drift" \in Refused(v) /\ "unsupported" \in Refused(v)
    <3>1. CASE v = 5
      BY <3>1 DEF Refused, validate_manifest_v5, selection_preflight_v5, validate_selection_raw_v5
    <3>2. CASE v = 6
      BY <3>2 DEF Refused, validate_manifest_v6, selection_preflight_v6,
                  validate_selection_artifact_v6
    <3>3. CASE v = 7
      BY <3>3 DEF Refused, validate_manifest_v7, selection_preflight_v7,
                  validate_selection_artifact_v7, validate_selection_artifact_v6
    <3>4. CASE v = 8
      BY <3>4 DEF Refused, validate_manifest_v8, selection_preflight_v8,
                  validate_selection_artifact_v8, validate_selection_artifact_v7,
                  validate_selection_artifact_v6
    <3>5. CASE v = 9
      BY <3>5 DEF Refused, validate_manifest_v9, selection_preflight_v9,
                  validate_selection_artifact_v9, validate_selection_artifact_v8,
                  validate_selection_artifact_v7, validate_selection_artifact_v6
    <3> QED
      BY <1>2, <3>1, <3>2, <3>3, <3>4, <3>5
  <2> QED
    BY <1>2, <2>1 DEF ContractLoads
<1> QED
  BY <1>1, <1>2

\* Whoever does as told.
Follows(q) ==
    /\ q.ready /\ Exclusive(q) /\ ~q.calibration /\ q.task.located
    /\ q.surface >= 1 => q.contracts # {}
    /\ q.surface < 0 => q.assisted
    /\ IF q.surface >= 5 THEN ContractLoads(q.surface, q.defects) ELSE q.defects = {}
    /\ Obeys(q)

\* The adapter gets as far as the packet.
LEMMA FollowerRuns ==
    ASSUME NEW q, IsQuestion(q), Follows(q)
    PROVE  /\ run(q) = Packet(q.surface, q)
           /\ q.surface >= 1 => q.contracts = {q.surface}
           /\ q.surface < 1 => q.contracts = {}
           /\ "drift" \notin q.defects /\ "unsupported" \notin q.defects
<1>1. q.surface \in -1..9 /\ q.contracts \subseteq 1..9
  BY DEF IsQuestion
<1>2. q.contracts # {} => q.contracts = {q.surface}
  BY DEF Follows, Exclusive
<1>3. q.surface >= 1 => q.contracts = {q.surface}
  BY <1>2 DEF Follows
<1>4. q.surface < 1 => q.contracts = {}
  BY <1>1, <1>2
<1>5. CASE q.surface >= 1
  <2>1. /\ ContractLoads(q.surface, q.defects)
        /\ "drift" \notin q.defects /\ "unsupported" \notin q.defects
    BY <1>1, <1>5, LoadedContracts DEF Follows
  <2> QED
    BY <1>1, <1>3, <1>5, <2>1 DEF run, Follows
<1>6. CASE q.surface < 1
  <2>1. q.defects = {}
    BY <1>1, <1>6 DEF Follows
  <2> QED
    BY <1>1, <1>4, <1>6, <2>1 DEF run, Follows
<1> QED
  BY <1>1, <1>3, <1>4, <1>5, <1>6

\* What an arm is told.
LEMMA FollowerIsTold ==
    ASSUME NEW q, IsQuestion(q), Follows(q)
    PROVE  /\ q.surface <= 4 => "cap" \in Demands(q)
           /\ q.surface >= 0 /\ q.condition = "treatment" => "compare" \in Demands(q)
           /\ q.surface < 0 => "navigate" \in Demands(q)
<1>1. /\ q.surface \in {-1, 0, 1, 2, 3, 4, 5, 6, 7, 8, 9} /\ ~q.calibration
      /\ q.surface < 0 => q.assisted
  BY DEF Follows, IsQuestion
<1>2. /\ q.surface >= 1 => q.contracts = {q.surface}
      /\ q.surface < 1 => q.contracts = {}
  BY FollowerRuns
<1>3. CASE q.surface < 0
  BY <1>1, <1>2, <1>3 DEF Demands, append_mode_requirement
<1>4. CASE q.surface \in 0..2
  <2>1. q.contracts \cap 3..9 = {} /\ q.contracts \cap 6..9 = {} /\ q.contracts \notin {{3}, {4}, {5}}
    BY <1>2, <1>4
  <2>2. Demands(q) = append_mode_requirement(q) \cup append_temporal_protocol_requirement(q.condition)
    BY <1>1, <1>4, <2>1 DEF Demands
  <2> QED
    BY <1>4, <2>2 DEF append_temporal_protocol_requirement, MustCompare
<1>5. CASE q.surface = 3
  <2>1. q.contracts = {3} /\ q.contracts \cap 6..9 = {} /\ q.contracts \notin {{4}, {5}}
    BY <1>2, <1>5
  <2>2. q.contracts \cap 3..9 # {}
    BY <2>1
  <2>3. Demands(q) = append_mode_requirement(q) \cup append_temporal_review_v3_requirement(q.condition)
    BY <1>1, <1>5, <2>1, <2>2 DEF Demands
  <2> QED
    BY <1>5, <2>3 DEF append_temporal_review_v3_requirement, MustCompare
<1>6. CASE q.surface = 4
  <2>1. q.contracts = {4} /\ q.contracts \cap 6..9 = {} /\ q.contracts \notin {{3}, {5}}
    BY <1>2, <1>6
  <2>2. q.contracts \cap 3..9 # {}
    BY <2>1
  <2>3. Demands(q) = append_mode_requirement(q) \cup append_temporal_review_v4_requirement(q.condition)
    BY <1>1, <1>6, <2>1, <2>2 DEF Demands
  <2> QED
    BY <1>6, <2>3 DEF append_temporal_review_v4_requirement, MustCompare
<1>7. CASE q.surface = 5
  <2>1. q.contracts = {5} /\ q.contracts \cap 6..9 = {} /\ q.contracts \notin {{3}, {4}}
    BY <1>2, <1>7
  <2>2. q.contracts \cap 3..9 # {}
    BY <2>1
  <2>3. Demands(q) = append_mode_requirement(q) \cup append_temporal_review_v5_requirement(q.condition)
    BY <1>1, <1>7, <2>1, <2>2 DEF Demands
  <2> QED
    BY <1>7, <2>3 DEF append_temporal_review_v5_requirement, MustCompare
<1>8. CASE q.surface \in 6..9
  <2>1. q.contracts \cap 6..9 # {} /\ q.contracts \notin {{3}, {4}, {5}}
    BY <1>2, <1>8
  <2>2. q.contracts \cap 3..9 # {}
    BY <2>1
  <2>3. Demands(q) = append_mode_requirement(q) \cup append_temporal_review_v6_requirement(q.condition)
    BY <1>1, <1>8, <2>1, <2>2 DEF Demands
  <2> QED
    BY <1>8, <2>3 DEF append_temporal_review_v6_requirement, MustCompare
<1> QED
  BY <1>1, <1>3, <1>4, <1>5, <1>6, <1>7, <1>8

\* The responses it gets, and the answer it gives.
LEMMA FollowerAnswers ==
    ASSUME NEW q, IsQuestion(q), Follows(q), q.surface >= 0
    PROVE  LET a == q.stream[Len(q.stream)].answer
               body(i) == q.stream[i].body
           IN  /\ \A i \in Brought(q) :
                     /\ body(i).form = "object" /\ parse_raw_response(q.task, body(i))
                     /\ Good(q, body(i)) /\ body(i).content = q.task.expects
                     /\ Supports(q.task, body(i))
               /\ q.condition = "treatment" => Brought(q) # {}
               /\ a.fields = Fields(q.surface) /\ a.outcome /\ a.loci = <<"required">>
               /\ q.surface < 3 => a.boundary = q.task.boundary
               /\ q.surface >= 3 => a.boundary = ArmBoundary(q)
               /\ q.surface <= 2 /\ q.condition = "baseline" => a.trust = NoComparison
               /\ q.surface <= 2 /\ q.condition = "treatment" =>
                     \E i \in Brought(q) : a.trust = Comparison(body(i))
<1> DEFINE a == q.stream[Len(q.stream)].answer
           body(i) == q.stream[i].body
           seen == {body(i) : i \in Brought(q)}
<1>1. /\ q.surface \in {0, 1, 2, 3, 4, 5, 6, 7, 8, 9} /\ ~q.calibration
      /\ q.condition \in {"baseline", "treatment"}
      /\ q.surface = 0 => q.task.expects = "available"
  BY DEF Follows, IsQuestion
<1>2. /\ q.surface >= 1 => q.contracts = {q.surface}
      /\ q.surface < 1 => q.contracts = {}
      /\ "drift" \notin q.defects /\ "unsupported" \notin q.defects
  BY FollowerRuns
<1>3. Obeys(q) /\ Right(q, a)
  BY DEF Follows, Obeys
<1>4. ASSUME NEW i \in Brought(q)
      PROVE  /\ body(i).form = "object" /\ parse_raw_response(q.task, body(i))
             /\ Good(q, body(i)) /\ body(i).content = q.task.expects
             /\ Supports(q.task, body(i))
  <2>1. /\ body(i).form = "object" /\ body(i).success /\ body(i).refs = "frozen"
        /\ body(i).content = q.task.expects /\ body(i).lists = {"required"}
    BY <1>2, <1>3 DEF Obeys, Truthful
  <2>2. parse_raw_response(q.task, body(i)) /\ Good(q, body(i))
    BY <1>1, <2>1 DEF parse_raw_response, Good
  <2>3. Supports(q.task, body(i))
    BY <2>1 DEF Supports
  <2> QED
    BY <2>1, <2>2, <2>3
<1>5. q.condition = "treatment" => Brought(q) # {}
  <2>1. q.condition = "treatment" => "compare" \in Demands(q)
    BY FollowerIsTold
  <2> QED
    BY <1>3, <2>1 DEF Obeys
<1>6. a.fields = Fields(q.surface)
  <2>1. CASE q.surface = 0
    <3>1. Schema(q) = 0
      BY <1>1, <1>2, <2>1 DEF Schema
    <3> QED
      BY <1>3, <2>1, <3>1 DEF Right, Fields
  <2>2. CASE q.surface >= 1
    <3>1. Schema(q) = Largest({q.surface})
      BY <1>1, <1>2, <2>2 DEF Schema
    <3>2. Largest({q.surface}) = q.surface
      <4>1. {q.surface} \subseteq 1..9 /\ {q.surface} # {} /\ 9 \in Nat
        BY <1>1, <2>2
      <4>2. Largest({q.surface}) \in {q.surface}
        BY <4>1, LargestOne
      <4> QED
        BY <4>2
    <3> QED
      BY <1>1, <1>3, <2>2, <3>1, <3>2 DEF Right, Fields
  <2> QED
    BY <1>1, <2>1, <2>2
<1>7. a.outcome /\ a.loci = <<"required">>
  BY <1>3 DEF Right
<1>8. q.surface < 3 => a.boundary = q.task.boundary
  BY <1>1, <1>3 DEF Right
<1>9. q.surface >= 3 => a.boundary = ArmBoundary(q)
  <2>1. CASE q.condition = "baseline"
    BY <1>1, <1>3, <2>1 DEF Right, ArmBoundary
  <2>2. CASE q.condition = "treatment"
    <3>1. seen # {} /\ \A b \in seen : b.content = q.task.expects
      BY <1>4, <1>5, <2>2
    <3>2. (CHOOSE b \in seen : TRUE).content = q.task.expects
      BY <3>1
    <3>3. q.surface >= 3 => a.boundary = (CHOOSE b \in seen : TRUE).content
      BY <1>1, <1>3, <2>2 DEF Right
    <3> QED
      BY <2>2, <3>2, <3>3 DEF ArmBoundary
  <2> QED
    BY <1>1, <2>1, <2>2
<1>10. q.surface <= 2 /\ q.condition = "baseline" => a.trust = NoComparison
  BY <1>1, <1>3 DEF Right, NoComparison
<1>11. q.surface <= 2 /\ q.condition = "treatment" =>
           \E i \in Brought(q) : a.trust = Comparison(body(i))
  <2> SUFFICES ASSUME q.surface <= 2, q.condition = "treatment"
               PROVE  \E i \in Brought(q) : a.trust = Comparison(body(i))
    OBVIOUS
  <2>1. \E b \in seen : a.trust = <<b.provisioned, b.content>>
    BY <1>1, <1>3 DEF Right
  <2> QED
    BY <2>1 DEF Comparison
<1> HIDE DEF a
<1> QED
  BY <1>4, <1>5, <1>6, <1>7, <1>8, <1>9, <1>10, <1>11 DEF a

\* The oracles of the later versions pass the answer, against any response
\* that is good.
LEMMA FollowerPasses ==
    ASSUME NEW q, IsQuestion(q), Follows(q), q.surface \in 3..9, NEW b,
           q.condition = "treatment" =>
               /\ parse_raw_response(q.task, b) /\ Supports(q.task, b)
               /\ b.content = q.task.expects
    PROVE  Evaluate(q.surface, q, q.stream[Len(q.stream)].answer, b)
<1> DEFINE v == q.surface
           a == q.stream[Len(q.stream)].answer
<1>1. /\ a.fields = Fields(v) /\ a.outcome /\ a.loci = <<"required">>
      /\ a.boundary = ArmBoundary(q)
  BY FollowerAnswers
<1>2. a # NoAnswer
  BY ObeyingStream DEF Follows
<1>3. v \in {3, 4, 5, 6, 7, 8, 9} /\ q.task.located
  BY DEF Follows
<1> HIDE DEF v, a
<1>4. /\ Range(<<"required">>) = {"required"} /\ Len(<<"required">>) = 1
      /\ IsInjective(<<"required">>)
  <2> DEFINE l == <<"required">>
  <2>1. DOMAIN l = {1} /\ l[1] = "required" /\ Len(l) = 1
    OBVIOUS
  <2> HIDE DEF l
  <2>2. Range(l) = {"required"} /\ IsInjective(l)
    BY <2>1 DEF Range, IsInjective
  <2> QED
    BY <2>1, <2>2 DEF l
<1>5. NamesRequired(a) /\ AllResolve(q, a) /\ Len(a.loci) \in 1..3 /\ IsInjective(a.loci)
  BY <1>1, <1>3, <1>4 DEF NamesRequired, AllResolve
<1>6. RawAgrees(q, a, b)
  BY <1>1 DEF RawAgrees, BoundaryOf, ArmBoundary
<1>7. CASE v \in 3..5
  <2>1. ASSUME v = 3 PROVE Evaluate(v, q, a, b)
    <3>1. a.fields = 3
      BY <1>1, <2>1 DEF Fields
    <3>2. evaluate_v3(q, a, b)
      BY <1>1, <1>5, <1>6, <3>1 DEF evaluate_v3
    <3> QED
      BY <1>3, <2>1, <3>2, OraclesInGroups
  <2>2. ASSUME v \in 4..5 PROVE Evaluate(v, q, a, b)
    <3>1. a.fields = 4
      BY <1>1, <2>2 DEF Fields
    <3>2. evaluate_v4(q, a, b)
      BY <1>1, <1>5, <1>6, <3>1 DEF evaluate_v4
    <3> QED
      BY <1>3, <2>2, <3>2, OraclesInGroups
  <2>3. Evaluate(v, q, a, b)
    BY <1>7, <2>1, <2>2
  <2> QED
    BY <2>3 DEF v, a
<1>8. CASE v \in 6..9
  <2>1. a.fields = 6
    BY <1>1, <1>8 DEF Fields
  <2>2. evaluate_v6(q, a, b)
    BY <1>1, <1>2, <1>5, <1>6, <2>1 DEF evaluate_v6, failures_v6
  <2>3. Evaluate(v, q, a, b)
    BY <1>3, <1>8, <2>2, OraclesInGroups
  <2> QED
    BY <2>3 DEF v, a
<1> QED
  BY <1>3, <1>7, <1>8 DEF v, a

\* Nothing of what stops the pilot is wrong with the run.
LEMMA FollowerIsClean ==
    ASSUME NEW q, IsQuestion(q), Follows(q), q.surface \in 3..9
    PROVE  LET s == summarize_stream(q.stream, q.surface)
           IN  /\ s.answer # NoAnswer /\ ~Stopping(q.surface, q, s) /\ Judge(q.surface, q, s)
               /\ ValidAt(q, s) = Brought(q)
<1> DEFINE v == q.surface
           n == Len(q.stream)
           s == summarize_stream(q.stream, v)
           B == Brought(q)
<1>1. /\ s.final = n /\ s.answer = q.stream[n].answer /\ s.answer # NoAnswer /\ WellRun(q, s)
      /\ "cap" \in Demands(q) => InBudget(s)
      /\ \A i \in B : i < n
  BY ObeyingStream DEF Follows
<1>2. /\ \A i \in B : /\ parse_raw_response(q.task, q.stream[i].body)
                       /\ q.stream[i].body.content = q.task.expects
                       /\ Supports(q.task, q.stream[i].body)
      /\ q.condition = "treatment" => B # {}
  BY FollowerAnswers
<1>3. s.diffs = B
  BY DiffsAreBrought DEF summarize_stream, IsQuestion
<1>4. B \subseteq 1..n /\ n \in Nat
  BY StreamShape DEF Brought, IsQuestion
<1>5. v <= 4 => "cap" \in Demands(q)
  BY FollowerIsTold
<1>6. LabelsValid(q.labels) /\ q.condition \in {"baseline", "treatment"} /\ v \in 3..9
  BY DEF Follows, Obeys, IsQuestion
<1> HIDE DEF s, B, n
<1>7. Eligible(s) = B /\ ValidAt(q, s) = B
  BY <1>1, <1>2, <1>3 DEF Eligible, ValidAt
<1>8. ~Stopping(v, q, s)
  BY <1>1, <1>2, <1>3, <1>5, <1>6, <1>7 DEF Stopping, Disordered, WellRun, InBudget
<1>9. Judge(v, q, s)
  <2>1. CASE q.condition = "baseline"
    <3>1. Evaluate(v, q, s.answer, <<>>)
      BY <1>1, <2>1, FollowerPasses DEF n
    <3> QED
      BY <1>1, <2>1, <3>1 DEF Judge
  <2>2. CASE q.condition = "treatment"
    <3> DEFINE i == Selected(q, s)
    <3>1. i \in B
      BY <1>2, <1>4, <1>7, <2>2, LargestOne DEF Selected
    <3> HIDE DEF i
    <3>2. Evaluate(v, q, s.answer, q.stream[i].body)
      BY <1>1, <1>2, <3>1, FollowerPasses DEF n
    <3>3. ValidAt(q, s) # {}
      BY <1>2, <1>7, <2>2
    <3> QED
      BY <1>1, <2>2, <3>2, <3>3 DEF Judge, i
  <2> QED
    BY <1>6, <2>1, <2>2
<1> QED
  BY <1>1, <1>7, <1>8, <1>9 DEF s, B

\* The plain surfaces, too, take the answer.
LEMMA PlainFollower ==
    ASSUME NEW q, IsQuestion(q), Follows(q), q.surface < 0
    PROVE  Packet(q.surface, q).status = "complete"
<1> DEFINE n == Len(q.stream)
           a == q.stream[n].answer
           s == summarize_stream(q.stream, -1)
           c == normalize_candidate_paths(s.answer)
           well == valid_payload(c, q.require_trust)
           claims == q.require_trust /\ q.condition = "treatment"
           bare == claims /\ well /\ c.trust = NoComparison
           loose == claims /\ well /\ \A r \in Resolutions(q.stream) : c.trust # <<r>>
           idle == q.condition = "treatment" /\ q.assisted /\ RetrievalsAt(q.stream) = {}
<1>1. q.surface = -1 /\ {q.mutated, q.failed} \subseteq BOOLEAN
  BY DEF IsQuestion
<1>2. /\ s.answer = a /\ a # NoAnswer /\ WellRun(q, s)
      /\ "cap" \in Demands(q) => InBudget(s)
  BY <1>1, ObeyingStream DEF Follows
<1>3. InBudget(s)
  BY <1>1, <1>2, FollowerIsTold
<1>4. Obeys(q) /\ Right(q, a) /\ ~q.calibration
  BY DEF Follows, Obeys
<1>5. a.loci = <<"required">> /\ a.fields = IF q.require_trust THEN -2 ELSE -1
  <2>1. q.contracts = {}
    BY <1>1, FollowerRuns
  <2>2. Schema(q) = IF q.require_trust THEN -2 ELSE -1
    BY <1>1, <1>4, <2>1 DEF Schema
  <2> QED
    BY <1>4, <2>2 DEF Right
<1>6. c = a
  <2> DEFINE l == <<"required">>
  <2>1. DOMAIN l = {1} /\ l[1] = "required"
    OBVIOUS
  <2> HIDE DEF l
  <2>2. "outside" \notin Range(l)
    BY <2>1 DEF Range
  <2> QED
    BY <1>2, <1>5, <2>2 DEF normalize_candidate_paths, l
<1>7. well
  <2>1. Len(a.loci) = 1
    BY <1>5
  <2> HIDE DEF a, c
  <2>2. valid_payload(a, q.require_trust)
    BY <1>2, <1>5, <2>1 DEF valid_payload
  <2> QED
    BY <1>6, <2>2
<1>8. ASSUME claims
      PROVE  c.trust # NoComparison /\ \E r \in Resolutions(q.stream) : c.trust = <<r>>
  <2>1. a.trust \in {<<r>> : r \in Resolutions(q.stream)}
    BY <1>1, <1>4, <1>8 DEF Right
  <2> HIDE DEF a, c
  <2>2. PICK r \in Resolutions(q.stream) : a.trust = <<r>>
    BY <2>1
  <2>3. <<r>> # <<>>
    OBVIOUS
  <2> QED
    BY <1>6, <2>2, <2>3 DEF NoComparison
<1>9. ~idle
  <2>1. "navigate" \in Demands(q)
    BY FollowerIsTold
  <2> QED
    BY <1>4, <2>1 DEF Obeys
<1>10. ~bare /\ ~loose
  BY <1>8
<1>11. bare \in BOOLEAN /\ loose \in BOOLEAN /\ idle \in BOOLEAN /\ well \in BOOLEAN
  BY DEF valid_payload
<1> DEFINE m == RunRungs(q, s, FALSE)
           x == <<Rung(~well, "missing_or_invalid_agent_response", FALSE),
                  Rung(bare, "missing_treatment_trust_evidence", FALSE),
                  Rung(loose, "unverified_treatment_trust_resolution", FALSE)>>
           b == Budget(s, FALSE)
           f == Foreign(s, FALSE)
           g == <<Rung(idle, "missing_assisted_structural_retrieval", FALSE)>>
<1>12. Packet(q.surface, q) = FirstOf(m \o x \o b \o f \o g \o Complete)
  <2>1. Packet(q.surface, q) = build_packet(q)
    BY <1>1 DEF Packet
  <2>2. build_packet(q) = FirstOf(m \o x \o b \o f \o g \o Complete)
    BY Zenon DEF build_packet
  <2> QED
    BY <2>1, <2>2, Zenon
<1> HIDE DEF well, bare, loose, idle
<1>13. x \in Seq(Failures) /\ ~Stops(x)
  <2>1. /\ Rung(~well, "missing_or_invalid_agent_response", FALSE) \in Failures
        /\ Rung(~well, "missing_or_invalid_agent_response", FALSE).holds <=> ~well
        /\ Rung(bare, "missing_treatment_trust_evidence", FALSE) \in Failures
        /\ Rung(bare, "missing_treatment_trust_evidence", FALSE).holds <=> bare
        /\ Rung(loose, "unverified_treatment_trust_resolution", FALSE) \in Failures
        /\ Rung(loose, "unverified_treatment_trust_resolution", FALSE).holds <=> loose
    BY <1>11 DEF Rung, Rungs, Failures, Verdicts
  <2> QED
    BY <1>7, <1>10, <2>1, FewFailures
<1>14. g \in Seq(Failures) /\ ~Stops(g)
  <2>1. /\ Rung(idle, "missing_assisted_structural_retrieval", FALSE) \in Failures
        /\ Rung(idle, "missing_assisted_structural_retrieval", FALSE).holds <=> idle
    BY <1>11 DEF Rung, Rungs, Failures, Verdicts
  <2> QED
    BY <1>9, <2>1, FewFailures
<1>15. /\ m \in Seq(Failures) /\ ~Stops(m) /\ b \in Seq(Failures) /\ ~Stops(b)
       /\ f \in Seq(Failures) /\ ~Stops(f)
  BY <1>1, <1>2, <1>3, EarlyPieces DEF WellRun, InBudget
<1> HIDE DEF m, x, b, f, g
<1>16. m \o x \o b \o f \o g \in Seq(Failures) /\ ~Stops(m \o x \o b \o f \o g)
  BY <1>13, <1>14, <1>15, ManyFailures
<1> QED
  BY <1>12, <1>16, CompleteIfNone

\* The versions before 3 take it.
LEMMA EarlyFollower ==
    ASSUME NEW q, IsQuestion(q), Follows(q), q.surface \in 0..2
    PROVE  Packet(q.surface, q).status = "complete"
<1> DEFINE v == q.surface
           n == Len(q.stream)
           a == q.stream[n].answer
           s == summarize_stream(q.stream, v)
           B == Brought(q)
           body(i) == q.stream[i].body
           t == q.condition = "treatment"
<1>1. /\ {q.mutated, q.failed} \subseteq BOOLEAN /\ v \in {0, 1, 2}
      /\ q.condition \in {"baseline", "treatment"}
      /\ v = 0 => q.task.expects = "available"
  BY DEF IsQuestion
<1>2. s.answer = a /\ a # NoAnswer /\ WellRun(q, s) /\ InBudget(s)
  <2>1. "cap" \in Demands(q)
    BY FollowerIsTold
  <2> QED
    BY <2>1, ObeyingStream DEF Follows
<1>3. /\ \A i \in B : /\ body(i).form = "object" /\ parse_raw_response(q.task, body(i))
                      /\ Good(q, body(i)) /\ body(i).content = q.task.expects
                      /\ Supports(q.task, body(i))
      /\ a.fields = Fields(v) /\ a.outcome /\ a.loci = <<"required">>
      /\ a.boundary = q.task.boundary
      /\ q.condition = "baseline" => a.trust = NoComparison
      /\ t => \E i \in B : a.trust = Comparison(body(i))
  BY FollowerAnswers
<1>4. s.objects = B
  <2>1. DiffsAt(q.stream) = B
    BY DiffsAreBrought DEF IsQuestion
  <2> QED
    BY <1>3, <2>1 DEF summarize_stream, ObjectsAt
<1>5. q.task.located
  BY DEF Follows
<1>6. NamesRequired(a) /\ AllResolve(q, a)
  <2> DEFINE l == <<"required">>
  <2>1. DOMAIN l = {1} /\ l[1] = "required"
    OBVIOUS
  <2> HIDE DEF l
  <2>2. Range(l) = {"required"}
    BY <2>1 DEF Range
  <2> QED
    BY <1>3, <1>5, <2>2 DEF NamesRequired, AllResolve, l
<1>7. ASSUME NEW i \in B, a.trust = Comparison(body(i))
      PROVE  a.trust # NoComparison /\ a.trust[2] = q.task.expects
  BY <1>3, <1>7 DEF Comparison, NoComparison
<1>8. v = 0 => Packet(0, q).status = "complete"
  <2> SUFFICES ASSUME v = 0 PROVE Packet(0, q).status = "complete"
    OBVIOUS
  <2> DEFINE z == summarize_stream(q.stream, 0)
             valid == {i \in z.objects : parse_temporal_branch_diff_response(body(i))}
  <2>1. z = s
    OBVIOUS
  <2> HIDE DEF s, a, z, B
  <2>2. valid = B
    BY <1>1, <1>3, <1>4, <2>1 DEF parse_temporal_branch_diff_response, Good
  <2> HIDE DEF valid
  <2>3. t => Aligned(q, z, valid)
    BY <1>2, <1>3, <2>1, <2>2 DEF Aligned
  <2>4. evaluate_finding_answer(q, a)
    <3>1. CASE q.condition = "baseline"
      BY <1>3, <3>1 DEF evaluate_finding_answer
    <3>2. CASE t
      BY <1>1, <1>3, <1>7, <3>2 DEF evaluate_finding_answer, available_comparison
    <3> QED
      BY <1>1, <3>1, <3>2
  <2>5. a.fields = 0
    BY <1>3 DEF Fields
  <2>6. Packet(0, q).status = "complete" <=>
            /\ WellRun(q, z) /\ InBudget(z) /\ z.answer.fields = 0
            /\ q.condition = "baseline" => z.answer.trust = NoComparison
            /\ q.condition = "treatment" => Aligned(q, z, valid)
            /\ evaluate_finding_answer(q, z.answer)
    BY <1>1, EarlyPackets DEF z, valid
  <2> QED
    BY <1>2, <1>3, <2>1, <2>3, <2>4, <2>5, <2>6
<1> DEFINE valid == {i \in s.objects : parse_raw_response(q.task, body(i))}
<1>9. valid = B
  BY <1>3, <1>4
<1>10. t => Aligned(q, s, valid)
  BY <1>2, <1>3, <1>9 DEF Aligned
<1>11. v = 1 => Packet(1, q).status = "complete"
  <2> SUFFICES ASSUME v = 1 PROVE Packet(1, q).status = "complete"
    OBVIOUS
  <2>1. Packet(1, q) = build_temporal_review_packet(q, s)
    BY DEF Packet
  <2>2. build_temporal_review_packet(q, s).status = "complete" <=>
            /\ WellRun(q, s) /\ InBudget(s)
            /\ t => Aligned(q, s, valid)
            /\ IF q.condition = "baseline" THEN evaluate_review_answer(q, s.answer, <<>>)
               ELSE \E i \in s.objects : evaluate_review_answer(q, s.answer, body(i))
    BY <1>1, EarlyPackets
  <2>3. a.fields = 1
    BY <1>3 DEF Fields
  <2> HIDE DEF s, a, valid, B
  <2>4. q.condition = "baseline" => evaluate_review_answer(q, a, <<>>)
    BY <1>3, <1>6, <2>3
       DEF evaluate_review_answer, validate_answer, validate_answer_comparison
  <2>5. ASSUME NEW i \in B, a.trust = Comparison(body(i)), t
        PROVE  evaluate_review_answer(q, a, body(i))
    BY <1>3, <1>6, <1>7, <2>3, <2>5
       DEF evaluate_review_answer, validate_answer, validate_answer_comparison
  <2> QED
    BY <1>1, <1>2, <1>3, <1>4, <1>10, <2>1, <2>2, <2>4, <2>5
<1>12. v = 2 => Packet(2, q).status = "complete"
  <2> SUFFICES ASSUME v = 2 PROVE Packet(2, q).status = "complete"
    OBVIOUS
  <2> DEFINE z == summarize_stream(q.stream, 2)
             there == {i \in z.objects : parse_raw_response(q.task, body(i))}
  <2>1. z = s /\ there = valid
    OBVIOUS
  <2>2. Packet(2, q).status = "complete" <=>
            /\ WellRun(q, z) /\ InBudget(z)
            /\ t => Aligned(q, z, there)
            /\ IF q.condition = "baseline" THEN evaluate_v2(q, z.answer, <<>>)
               ELSE \E i \in z.objects : evaluate_v2(q, z.answer, body(i))
    BY <1>1, EarlyPackets
  <2>3. a.fields = 2
    BY <1>3 DEF Fields
  <2> HIDE DEF s, a, valid, B, z, there
  <2>4. q.condition = "baseline" => evaluate_v2(q, a, <<>>)
    BY <1>3, <1>6, <2>3 DEF evaluate_v2
  <2>5. ASSUME NEW i \in B, a.trust = Comparison(body(i)), t
        PROVE  evaluate_v2(q, a, body(i))
    BY <1>3, <1>6, <2>3, <2>5 DEF evaluate_v2
  <2> QED
    BY <1>1, <1>2, <1>3, <1>4, <1>10, <2>1, <2>2, <2>4, <2>5
<1> QED
  BY <1>1, <1>8, <1>11, <1>12

\* For all streams and contracts: whoever does what the instruction, the schema
\* and the appended requirement say gets a complete packet.
THEOREM ProtocolCanBeFollowed == Spec => []RightAgentCompletes
<1>1. ReviewInv => RightAgentCompletes
  <2> DEFINE q == question
  <2> SUFFICES ASSUME ReviewInv, Answered("orientation"), Follows(q)
               PROVE  answer.status = "complete"
    BY DEF RightAgentCompletes, Follows
  <2>1. IsQuestion(q) /\ answer = run(q)
    BY DEF ReviewInv, Answered
  <2>2. run(q) = Packet(q.surface, q)
    BY <2>1, FollowerRuns
  <2>3. CASE q.surface < 0
    BY <2>1, <2>2, <2>3, PlainFollower
  <2>4. CASE q.surface \in 0..2
    BY <2>1, <2>2, <2>4, EarlyFollower
  <2>5. CASE q.surface \in 3..9
    <3>1. {q.mutated, q.failed} \subseteq BOOLEAN
      BY <2>1 DEF IsQuestion
    <3> QED
      BY <2>1, <2>2, <2>5, <3>1, FollowerIsClean, LaterPackets
  <2>6. q.surface \in -1..9
    BY <2>1 DEF IsQuestion
  <2> QED
    BY <2>3, <2>4, <2>5, <2>6
<1> QED
  BY <1>1, ReviewAnswers, PTL
-----------------------------------------------------------------------------
(* Audits.                                                                 *)

\* An audit that replays the stream sees the responses the packet saw.
LEMMA ReplaySeesAll ==
    ASSUME NEW q, IsStream(q.stream)
    PROVE  raw_events_v3(q.stream) = Brought(q)
<1> DEFINE stream == q.stream
           n == Len(stream)
<1>1. n \in Nat /\ DOMAIN stream = 1..n /\ stream \in Seq(Range(stream))
  BY StreamShape DEF IsStream, IsList
<1> SUFFICES ASSUME NEW i \in 1..n, stream[i].type = "out"
             PROVE  ToolOf(SubSeq(stream, 1, i), stream[i].id) = ToolOf(stream, stream[i].id)
  BY <1>1, DiffsAreBrought DEF raw_events_v3, DiffsAt
<1> DEFINE past == SubSeq(stream, 1, i)
           id == stream[i].id
<1>2. past \in Seq(Range(stream)) /\ Len(past) = i /\ \A k \in 1..i : past[k] = stream[k]
  BY <1>1
<1> HIDE DEF past
<1>3. DOMAIN past = 1..i /\ UsesAt(past) = UsesAt(stream) \cap 1..i
  BY <1>1, <1>2 DEF UsesAt
<1>4. {k \in UsesAt(past) : past[k].id = id} = {k \in UsesAt(stream) : stream[k].id = id}
  <2>1. ASSUME NEW k \in UsesAt(stream), stream[k].id = id PROVE k \in 1..i
    <3>1. k \in DOMAIN stream /\ stream[k].type = "use"
      BY DEF UsesAt
    <3>2. k < i
      BY <1>1, <2>1, <3>1, StreamShape
    <3> QED
      BY <1>1, <3>1, <3>2
  <2> QED
    BY <1>2, <1>3, <2>1
<1> DEFINE of == {k \in UsesAt(stream) : stream[k].id = id}
<1>5. ToolOf(past, id) = IF of = {} THEN "unknown" ELSE past[Largest(of)].tool
  BY <1>4 DEF ToolOf
<1>6. ToolOf(stream, id) = IF of = {} THEN "unknown" ELSE stream[Largest(of)].tool
  BY DEF ToolOf
<1>7. of \subseteq 1..i /\ i \in Nat
  BY <1>1, <1>2, <1>3, <1>4
<1> HIDE DEF of, id
<1>8. of # {} => Largest(of) \in of
  BY <1>7, LargestOne
<1>9. of # {} => past[Largest(of)] = stream[Largest(of)]
  BY <1>2, <1>7, <1>8
<1>10. ToolOf(past, id) = ToolOf(stream, id)
  BY <1>5, <1>6, <1>9
<1> QED
  BY <1>10 DEF past, id

\* In a baseline an oracle does not look at any response.
LEMMA BaselineIgnoresResponses ==
    ASSUME NEW q, q.condition = "baseline", NEW a, NEW b, NEW c
    PROVE  /\ evaluate_v2(q, a, b) = evaluate_v2(q, a, c)
           /\ failures_v6(q, a, b) = failures_v6(q, a, c)
           /\ \A v \in 3..9 : Evaluate(v, q, a, b) = Evaluate(v, q, a, c)
<1>1. RawAgrees(q, a, b) = TRUE /\ RawAgrees(q, a, c) = TRUE
  BY DEF RawAgrees
<1>2. evaluate_v2(q, a, b) = evaluate_v2(q, a, c)
  BY DEF evaluate_v2
<1>3. failures_v6(q, a, b) = failures_v6(q, a, c)
  BY <1>1 DEF failures_v6
<1>4. /\ evaluate_v3(q, a, b) = evaluate_v3(q, a, c)
      /\ evaluate_v4(q, a, b) = evaluate_v4(q, a, c)
      /\ evaluate_v6(q, a, b) = evaluate_v6(q, a, c)
  BY <1>1, <1>3 DEF evaluate_v3, evaluate_v4, evaluate_v6
<1>5. \A v \in 3..9 : Evaluate(v, q, a, b) = Evaluate(v, q, a, c)
  BY <1>4, OraclesInGroups
<1> QED
  BY <1>2, <1>3, <1>5

\* Which tools' calls an audit allows.
LEMMA TracedTools ==
    ASSUME NEW q, q.condition \in {"baseline", "treatment"}, NEW v \in 0..9
    PROVE  tool_trace_v5(q) <=>
               /\ summarize_stream(q.stream, v).unexpected = {}
               /\ q.condition = "baseline" => "diff" \notin ToolsIn(q.stream)
<1>1. summarize_stream(q.stream, v).unexpected =
         {t \in ToolsIn(q.stream) \cap McpTools : t # "diff"}
  BY DEF summarize_stream, Unexpected, AllowedTools
<1> QED
  BY <1>1 DEF tool_trace_v5, McpTools

\* Of the first version's rows, those are valid whose packets are, but for the
\* budget.
LEMMA AuditOfFirst ==
    ASSUME NEW q, IsQuestion(q), q.surface = 1, Rebuilt(q).status = "complete",
           run(q) = Packet(1, q)
    PROVE  run(q).status \in {"complete", "tool_call_budget_exceeded"}
<1> DEFINE s == summarize_stream(q.stream, 1)
           u == {i \in s.uses : q.stream[i].tool = "diff"}
           z == [s EXCEPT !.uses = u]
           fits(x) == /\ WellRun(q, x) /\ InBudget(x)
                      /\ q.condition = "treatment" =>
                            Aligned(q, x, {i \in x.objects :
                                              parse_raw_response(q.task, q.stream[i].body)})
                      /\ IF q.condition = "baseline"
                         THEN evaluate_review_answer(q, x.answer, <<>>)
                         ELSE \E i \in x.objects :
                                 evaluate_review_answer(q, x.answer, q.stream[i].body)
<1>1. /\ {q.mutated, q.failed} \subseteq BOOLEAN /\ q.condition \in {"baseline", "treatment"}
  BY DEF IsQuestion
<1>2. \A x : build_temporal_review_packet(q, x).status = "complete" <=> fits(x)
  BY <1>1, EarlyPackets
<1>3. run(q) = build_temporal_review_packet(q, s)
  BY DEF Packet
<1>4. Rebuilt(q) = build_temporal_review_packet(q, z)
  BY DEF Rebuilt
<1>5. /\ z.answer = s.answer /\ z.unexpected = s.unexpected /\ z.objects = s.objects
      /\ z.uses = u
  BY DEF summarize_stream
<1>6. fits(z)
  BY <1>2, <1>4
<1> HIDE DEF z, s
<1>7. WellRun(q, s)
  BY <1>5, <1>6 DEF WellRun
<1>8. CASE InBudget(s)
  <2>1. fits(s)
    BY <1>5, <1>6, <1>7, <1>8 DEF Aligned
  <2> QED
    BY <1>2, <1>3, <2>1
<1>9. CASE ~InBudget(s)
  <2> DEFINE valid == {i \in s.objects : parse_raw_response(q.task, q.stream[i].body)}
             passed == /\ s.answer # NoAnswer
                       /\ IF q.condition = "baseline" THEN evaluate_review_answer(q, s.answer, <<>>)
                          ELSE \E i \in s.objects :
                                  evaluate_review_answer(q, s.answer, q.stream[i].body)
             over == Cardinality(s.uses) > ToolCallBudget
             m == RunRungs(q, s, FALSE)
             b == Budget(s, FALSE)
             f == Foreign(s, FALSE)
             t == TrustRungs(q, s, valid)
             o == Oracle(passed)
  <2>1. build_temporal_review_packet(q, s) = FirstOf(m \o b \o f \o t \o o \o Complete)
    BY Zenon DEF build_temporal_review_packet
  <2>2. passed \in BOOLEAN /\ over \in BOOLEAN /\ over
    BY <1>9 DEF InBudget
  <2>3. /\ m \in Seq(Failures) /\ b \in Seq(Failures) /\ f \in Seq(Failures)
        /\ t \in Seq(Failures) /\ o \in Seq(Failures) /\ ~Stops(m) /\ Stops(b)
    BY <1>1, <1>7, <2>2, EarlyPieces DEF WellRun
  <2>4. FirstOf(b).status = "tool_call_budget_exceeded"
    <3> DEFINE r == Rung(over, "tool_call_budget_exceeded", FALSE)
    <3>1. r \in Rungs /\ r.holds /\ r.status = "tool_call_budget_exceeded"
      BY <2>2 DEF Rung, Rungs, Verdicts
    <3>2. b = <<r>>
      BY DEF Budget
    <3> HIDE DEF r, b
    <3>3. FirstOf(<<r>>) = [status |-> r.status, hard |-> r.hard]
      BY <3>1, OneRung
    <3>4. FirstOf(<<r>>).status = r.status
      BY <3>3
    <3> QED
      BY <3>1, <3>2, <3>4
  <2> HIDE DEF valid, passed, over, m, b, f, t, o
  <2>5. Complete \in Seq(Rungs)
    BY DEF Complete, Rung, Rungs, Verdicts
  <2>6. ASSUME NEW x \in Seq(Rungs), NEW y \in Seq(Rungs), Stops(x)
        PROVE  x \o y \in Seq(Rungs) /\ Stops(x \o y) /\ FirstOf(x \o y) = FirstOf(x)
    BY <2>6, FirstOfTwo
  <2>7. /\ m \in Seq(Rungs) /\ b \in Seq(Rungs) /\ f \in Seq(Rungs)
        /\ t \in Seq(Rungs) /\ o \in Seq(Rungs)
    BY <2>3 DEF Failures
  <2>8. m \o b \in Seq(Rungs) /\ Stops(m \o b) /\ FirstOf(m \o b) = FirstOf(b)
    BY <2>3, <2>7, FirstOfTwo
  <2> DEFINE x1 == m \o b
             x2 == x1 \o f
             x3 == x2 \o t
             x4 == x3 \o o
  <2> HIDE DEF x1
  <2>9. x2 \in Seq(Rungs) /\ Stops(x2) /\ FirstOf(x2) = FirstOf(x1)
    BY <2>6, <2>7, <2>8 DEF x1
  <2> HIDE DEF x2
  <2>10. x3 \in Seq(Rungs) /\ Stops(x3) /\ FirstOf(x3) = FirstOf(x2)
    BY <2>6, <2>7, <2>9
  <2> HIDE DEF x3
  <2>11. x4 \in Seq(Rungs) /\ Stops(x4) /\ FirstOf(x4) = FirstOf(x3)
    BY <2>6, <2>7, <2>10
  <2> HIDE DEF x4
  <2>12. FirstOf(x4 \o Complete) = FirstOf(x4)
    BY <2>5, <2>6, <2>11
  <2>13. build_temporal_review_packet(q, s) = FirstOf(x4 \o Complete)
    BY <2>1, Zenon DEF x1, x2, x3, x4
  <2> QED
    BY <1>3, <2>4, <2>8, <2>9, <2>10, <2>11, <2>12, <2>13 DEF x1
<1> QED
  BY <1>8, <1>9

\* What is neither refused nor wasted is a packet.
LEMMA RunWasPacket ==
    ASSUME NEW q, q.surface \in 1..9, q.contracts \subseteq {q.surface}, ~q.calibration,
           run(q).status \notin {"refused", "wasted"}
    PROVE  run(q) = Packet(q.surface, q)
<1>1. q.contracts = {} => run(q).status \in {"refused", "wasted"}
  BY DEF run, Refuse
<1>2. q.contracts = {q.surface}
  BY <1>1
<1>3. run(q) # Refuse
  BY DEF Refuse
<1> QED
  BY <1>2, <1>3, RunIsPacket

\* A pilot that left results ran every one of its cells.
LEMMA ResultsMeanRuns ==
    ASSUME NEW p, IsPilot(p), p.version \in 3..9, run_pilot(p).left = "results",
           NEW i \in DOMAIN p.cells
    PROVE  LET c == p.cells[i]
               r == run(c.run)
           IN  /\ DrivenCell(p, c) /\ HasPacket(c, r) /\ c.status = "clean"
               /\ IdentityMatches(p, c) /\ (p.version = 9 => c.alike)
               /\ r = Packet(p.version, c.run)
<1> DEFINE c == p.cells[i]
           r == run(c.run)
           stages == [j \in DOMAIN p.cells |-> Cell(p, p.cells[j], run(p.cells[j].run))]
<1>1. p.fresh
  BY DEF run_pilot, Left
<1>2. run_pilot(p) = Drive(p)
  BY <1>1, PilotStarts DEF Left, Unregistered
<1>3. Driven(p, stages).left = "results"
  BY <1>2 DEF Drive
<1>4. stages[i] = "ran"
  <2>1. DOMAIN stages = DOMAIN p.cells /\ IsList(p.cells) /\ p.cut \in Nat
    BY DEF IsPilot
  <2> HIDE DEF stages
  <2> QED
    BY <1>3, <2>1, DriveEnds DEF Left
<1>5. Cell(p, c, r) = "ran"
  BY <1>4
<1>6. DrivenCell(p, c)
  BY DEF IsPilot, DrivenCell
<1>7. HasPacket(c, r) /\ IdentityMatches(p, c) /\ ~Violates(c, r) /\ (p.version = 9 => c.alike)
  BY <1>5, CellRuns
<1>8. r = Packet(p.version, c.run)
  BY <1>6, <1>7, RunWasPacket DEF DrivenCell, HasPacket
<1> QED
  BY <1>6, <1>7, <1>8 DEF Violates

\* The audit finds again what a complete packet says, but for the calls of a
\* baseline.
LEMMA CompleteReplays ==
    ASSUME NEW v \in 3..9, NEW q, IsQuestion(q), Packet(v, q).status = "complete"
    PROVE  LET s == summarize_stream(q.stream, v)
               raw == Brought(q)
               clean == q.condition = "baseline" => "diff" \notin ToolsIn(q.stream)
           IN  /\ ~q.mutated /\ ~q.failed /\ s.answer # NoAnswer
               /\ tool_trace_v5(q) <=> clean
               /\ v <= 4 => (tool_trace_v3(q) <=> clean)
               /\ clean => RawTrace(q, raw)
               /\ q.condition = "treatment" =>
                     /\ Before(q, raw) = ValidAt(q, s) /\ ValidAt(q, s) # {}
                     /\ SelectedRaw(q, raw) = q.stream[Selected(q, s)].body
               /\ Evaluate(v, q, s.answer, SelectedRaw(q, raw))
<1> DEFINE s == summarize_stream(q.stream, v)
           raw == Brought(q)
           clean == q.condition = "baseline" => "diff" \notin ToolsIn(q.stream)
           valid == ValidAt(q, s)
           t == q.condition = "treatment"
<1>1. /\ IsStream(q.stream) /\ {q.mutated, q.failed} \subseteq BOOLEAN
      /\ q.condition \in {"baseline", "treatment"}
  BY DEF IsQuestion
<1>2. s.answer # NoAnswer /\ ~Stopping(v, q, s) /\ Judge(v, q, s)
  BY <1>1, LaterPackets
<1>3. raw = DiffsAt(q.stream)
  BY <1>1, DiffsAreBrought
<1>4. /\ s.diffs = raw /\ s.final = FinalAt(q.stream) /\ s.uses = UsesAt(q.stream)
      /\ s.final = 0 => s.answer = NoAnswer
  BY <1>3 DEF summarize_stream
<1>5. tool_trace_v5(q) <=> clean
  <2>1. s.unexpected = {}
    BY <1>2 DEF Stopping
  <2> QED
    BY <1>1, <2>1, TracedTools
<1>6. v <= 4 => (tool_trace_v3(q) <=> clean)
  <2>1. v <= 4 => ~(Cardinality(UsesAt(q.stream)) > ToolCallBudget)
    BY <1>2, <1>4 DEF Stopping
  <2>2. IsFiniteSet(UsesAt(q.stream))
    <3>1. Len(q.stream) \in Nat /\ UsesAt(q.stream) \subseteq 1..Len(q.stream)
      BY <1>1, StreamShape DEF UsesAt
    <3>2. IsFiniteSet(1..Len(q.stream))
      BY <3>1, FS_Interval
    <3> QED
      BY <3>1, <3>2, FS_Subset
  <2>3. Cardinality(UsesAt(q.stream)) \in Nat
    BY <2>2, FS_CardinalityType
  <2> QED
    BY <1>5, <2>1, <2>3, ReviewAssumption DEF tool_trace_v3
<1> HIDE DEF s
<1>7. t => raw = Eligible(s) /\ valid = raw /\ raw # {}
  BY <1>2, <1>4 DEF Stopping, Disordered
<1>8. Before(q, raw) = valid
  BY <1>4 DEF Before, ValidAt, Eligible
<1>9. t => SelectedRaw(q, raw) = q.stream[Selected(q, s)].body
  BY <1>7, <1>8 DEF SelectedRaw, Selected
<1>10. clean => RawTrace(q, raw)
  <2>1. CASE t
    <3>1. \A i \in raw : i < FinalAt(q.stream) /\ parse_raw_response(q.task, q.stream[i].body)
      BY <1>4, <1>7, <2>1 DEF ValidAt, Eligible
    <3> QED
      BY <1>2, <1>4, <1>7, <2>1, <3>1 DEF RawTrace
  <2>2. CASE q.condition = "baseline"
    <3>1. "diff" \notin ToolsIn(q.stream) => raw = {}
      BY DEF Brought, ToolsIn, UsesAt
    <3> QED
      BY <2>2, <3>1 DEF RawTrace
  <2> QED
    BY <1>1, <2>1, <2>2
<1>11. Evaluate(v, q, s.answer, SelectedRaw(q, raw))
  <2>1. CASE t
    BY <1>2, <1>9, <2>1 DEF Judge
  <2>2. CASE q.condition = "baseline"
    BY <1>2, <2>2, BaselineIgnoresResponses DEF Judge
  <2> QED
    BY <1>1, <2>1, <2>2
<1>12. ~q.mutated /\ ~q.failed
  BY <1>2 DEF Stopping
<1> HIDE DEF raw, clean, valid
<1> QED
  BY <1>2, <1>5, <1>6, <1>7, <1>8, <1>9, <1>10, <1>11, <1>12 DEF s, raw, clean, valid

\* A cell of a pilot that left results.
Retraced(p, c) ==
    /\ p.version \in 3..9 /\ DrivenCell(p, c) /\ HasPacket(c, run(c.run)) /\ c.status = "clean"
    /\ IdentityMatches(p, c) /\ (p.version = 9 => c.alike)
    /\ run(c.run) = Packet(p.version, c.run)

NoDiff(q) == q.condition = "baseline" => "diff" \notin ToolsIn(q.stream)

\* What a row without its semantics says.
LEMMA ReproducedRows ==
    ASSUME NEW p, NEW c, Retraced(p, c), NEW traced,
           run(c.run).status = "complete" => (traced <=> NoDiff(c.run))
    PROVE  Reproduced(p.version, c, run(c.run), Brought(c.run), traced) <=>
               /\ run(c.run).status = "complete" /\ NoDiff(c.run)
               /\ c.run.condition = "treatment" => c.warm = "reused"
<1> DEFINE q == c.run
           v == p.version
           r == run(q)
           s == summarize_stream(q.stream, v)
           raw == Brought(q)
<1>1. v \in 3..9 /\ IsQuestion(q) /\ q.surface = v /\ r = Packet(v, q) /\ c.status = "clean"
  BY DEF Retraced, DrivenCell
<1>2. CASE r.status = "complete"
  <2>1. /\ ~q.mutated /\ ~q.failed
        /\ NoDiff(q) => RawTrace(q, raw)
        /\ q.condition = "treatment" => Before(q, raw) = ValidAt(q, s) /\ ValidAt(q, s) # {}
    BY <1>1, <1>2, CompleteReplays DEF NoDiff
  <2>2. SourceClean(c)
    BY <1>1, <2>1 DEF SourceClean
  <2>3. CertificateMatches(q, raw)
    BY <1>1, <2>1 DEF CertificateMatches, Selected
  <2>4. WarmValid(v, c, r) <=> (q.condition = "treatment" => c.warm = "reused")
    <3>1. q.condition = "treatment" => warm_repeat(v, c, r)
      BY <2>1 DEF warm_repeat, selected_certificate, Retraced
    <3> QED
      BY <3>1 DEF WarmValid
  <2> HIDE DEF q, v, r, s, raw
  <2> QED
    BY <1>2, <2>1, <2>2, <2>3, <2>4 DEF Reproduced, q, v, r, raw
<1>3. CASE r.status # "complete"
  BY <1>3 DEF Reproduced
<1> QED
  BY <1>2, <1>3

\* What the last result of a stream is worth.
LEMMA LastResult ==
    ASSUME NEW q, IsStream(q.stream), Results(q.stream) # {}, NEW v
    PROVE  LET a == summarize_stream(q.stream, v).answer
               payload == q.stream[Largest(Results(q.stream))].answer
           IN  (payload # NoAnswer /\ payload = a) <=> LastIsUsed(q)
<1> DEFINE stream == q.stream
           s == summarize_stream(stream, v)
           last == Largest(Results(stream))
           payload == stream[last].answer
<1>1. /\ Len(stream) \in Nat /\ DOMAIN stream = 1..Len(stream)
      /\ Results(stream) \subseteq 1..Len(stream)
  BY StreamShape DEF Results
<1>2. last \in Results(stream) /\ \A j \in Results(stream) : j <= last
  BY <1>1, LargestOne
<1> HIDE DEF last
<1>3. /\ s.answer # NoAnswer => s.answer = stream[s.final].answer
      /\ \A j \in DOMAIN stream : Used(q, j) => s.answer # NoAnswer /\ s.final = j
  BY AnswerIsUsed
<1> HIDE DEF s
<1>4. /\ last \in DOMAIN stream /\ stream[last].type = "result"
      /\ \A k \in last + 1..Len(stream) : stream[k].type # "result"
  BY <1>1, <1>2 DEF Results
<1>5. ASSUME payload # NoAnswer PROVE LastIsUsed(q) /\ payload = s.answer
  <2>1. Used(q, last)
    BY <1>4, <1>5 DEF Used
  <2> QED
    BY <1>3, <1>4, <2>1 DEF LastIsUsed
<1>6. ASSUME LastIsUsed(q) PROVE payload # NoAnswer
  <2>1. PICK j \in DOMAIN stream : /\ Used(q, j)
                                   /\ \A k \in j + 1..Len(stream) : stream[k].type # "result"
    BY <1>6 DEF LastIsUsed
  <2>2. j \in Results(stream)
    BY <2>1 DEF Results, Used
  <2>3. j = last
    BY <1>1, <1>2, <1>4, <2>1, <2>2
  <2> QED
    BY <2>1, <2>3 DEF Used
<1> QED
  BY <1>5, <1>6 DEF s, last

\* When an audit confirms a cell.
Confirms(p, c) ==
    /\ run(c.run).status = "complete" /\ NoDiff(c.run)
    /\ c.run.condition = "treatment" => c.warm = "reused"
    /\ p.version >= 6 => LastIsUsed(c.run)

\* The rows of versions 3 to 5.
LEMMA ReplayedRows ==
    ASSUME NEW p, NEW c, Retraced(p, c), p.version \in 3..5
    PROVE  LET r == run(c.run)
           IN  /\ p.version = 3 => (audit_cell_v3(c, r).valid <=> Confirms(p, c))
               /\ p.version = 4 => (audit_cell_v4(p, c, r).valid <=> Confirms(p, c))
               /\ p.version = 5 => (audit_cell_v5(p, c, r).valid <=> Confirms(p, c))
<1> DEFINE q == c.run
           v == p.version
           r == run(q)
           raw == Brought(q)
<1>1. /\ v \in 3..9 /\ IsQuestion(q) /\ q.surface = v /\ r = Packet(v, q) /\ IdentityMatches(p, c)
      /\ IsStream(q.stream)
  BY DEF Retraced, DrivenCell, IsQuestion
<1>2. raw_events_v3(q.stream) = raw /\ raw_events_v4(q.stream) = raw /\ raw_events_v5(q.stream) = raw
  BY <1>1, ReplaySeesAll DEF raw_events_v4, raw_events_v5
<1>3. r.status = "complete" =>
         /\ tool_trace_v5(q) <=> NoDiff(q)
         /\ v <= 4 => (tool_trace_v3(q) <=> NoDiff(q))
         /\ Replayed(v, q, raw)
  BY <1>1, CompleteReplays DEF NoDiff, Replayed
<1>4. ASSUME NEW traced, r.status = "complete" => (traced <=> NoDiff(q))
      PROVE  Reproduced(v, c, r, raw, traced) /\ Replayed(v, q, raw) <=> Confirms(p, c)
  <2>1. Reproduced(v, c, r, raw, traced) <=>
            /\ r.status = "complete" /\ NoDiff(q)
            /\ q.condition = "treatment" => c.warm = "reused"
    BY <1>4, ReproducedRows
  <2> HIDE DEF q, v, r, raw
  <2> QED
    BY <1>3, <2>1 DEF Confirms, q, v, r
<1>5. CASE v = 3
  <2>1. Reproduced(3, c, r, raw, tool_trace_v3(q)) /\ Replayed(3, q, raw) <=> Confirms(p, c)
    BY <1>3, <1>4, <1>5
  <2>2. audit_cell_v3(c, r).valid =
            (Reproduced(3, c, r, raw, tool_trace_v3(q)) /\ Replayed(3, q, raw))
    BY <1>2, Zenon DEF audit_cell_v3, Row
  <2>3. audit_cell_v3(c, r).valid <=> Confirms(p, c)
    BY <2>1, <2>2, Zenon
  <2> QED
    BY <1>5, <2>3
<1>6. CASE v = 4
  <2>1. Reproduced(4, c, r, raw, tool_trace_v3(q)) /\ Replayed(4, q, raw) <=> Confirms(p, c)
    BY <1>3, <1>4, <1>6
  <2> QED
    BY <1>1, <1>2, <1>6, <2>1 DEF audit_cell_v4, Row
<1>7. CASE v = 5
  <2>1. Reproduced(5, c, r, raw, tool_trace_v5(q)) /\ Replayed(5, q, raw) <=> Confirms(p, c)
    BY <1>3, <1>4, <1>7
  <2> QED
    BY <1>1, <1>2, <1>7, <2>1 DEF audit_cell_v5, Row
<1>8. v \in {3, 4, 5}
  OBVIOUS
<1> QED
  BY <1>5, <1>6, <1>7, <1>8

\* The rows from version 6 on, which replay the retained result.
LEMMA RetainedRows ==
    ASSUME NEW p, NEW c, Retraced(p, c), p.version \in 6..9, Results(c.run.stream) # {}, NEW traced,
           run(c.run).status = "complete" => (traced <=> NoDiff(c.run))
    PROVE  LET raw == Brought(c.run)
               payload == final_payload_v6(c.run)
           IN  Retained(p, c, run(c.run), raw, traced, payload,
                        semantic_replay_v6(c, raw, payload)).valid <=> Confirms(p, c)
<1> DEFINE q == c.run
           v == p.version
           r == run(q)
           s == summarize_stream(q.stream, v)
           raw == Brought(q)
           selected == SelectedRaw(q, raw)
           payload == final_payload_v6(q)
           failures == semantic_replay_v6(c, raw, payload)
           mismatches == {m \in {"semantic", "payload", "identity"} :
                             CASE m = "semantic" -> failures # Observed(q)
                               [] m = "payload" -> ~PayloadMatches(q, payload)
                               [] m = "identity" -> ~IdentityMatches(p, c)}
           reproduced == Reproduced(v, c, r, raw, traced)
<1>1. /\ v \in 3..9 /\ v >= 6 /\ IsQuestion(q) /\ q.surface = v /\ r = Packet(v, q)
      /\ IdentityMatches(p, c) /\ c.status = "clean"
      /\ IsStream(q.stream) /\ q.condition \in {"baseline", "treatment"}
  BY DEF Retraced, DrivenCell, IsQuestion
<1>2. reproduced <=> /\ r.status = "complete" /\ NoDiff(q)
                     /\ q.condition = "treatment" => c.warm = "reused"
  BY ReproducedRows
<1>3. PayloadMatches(q, payload) <=> LastIsUsed(q)
  BY <1>1, LastResult DEF PayloadMatches, final_payload_v6
<1>4. Retained(p, c, r, raw, traced, payload, failures).valid <=>
          reproduced /\ failures = {} /\ mismatches = {}
  BY Zenon DEF Retained, Row
<1>5. ASSUME r.status = "complete", PayloadMatches(q, payload)
      PROVE  failures = {} /\ Observed(q) = {}
  <2>1. /\ ~q.mutated
        /\ q.condition = "treatment" =>
              ValidAt(q, s) # {} /\ selected = q.stream[Selected(q, s)].body
        /\ Evaluate(v, q, s.answer, selected)
    BY <1>1, <1>5, CompleteReplays
  <2>2. failures_v6(q, s.answer, selected) = {}
    <3> HIDE DEF s, selected, v, q
    <3>1. Evaluate(v, q, s.answer, selected) = evaluate_v6(q, s.answer, selected)
      BY <1>1, OraclesInGroups
    <3> QED
      BY <2>1, <3>1 DEF evaluate_v6
  <2>3. payload = s.answer
    BY <1>1, <1>5 DEF PayloadMatches
  <2>4. failures = {}
    BY <1>1, <2>1, <2>2, <2>3 DEF semantic_replay_v6, SourceClean
  <2>5. CASE q.condition = "baseline"
    <3>1. Observed(q) = failures_v6(q, s.answer, NoRaw)
      BY <1>1, <2>5 DEF Observed
    <3> QED
      BY <2>2, <2>4, <2>5, <3>1, BaselineIgnoresResponses
  <2>6. CASE q.condition = "treatment"
    <3>1. Observed(q) = failures_v6(q, s.answer, q.stream[Selected(q, s)].body)
      BY <1>1, <2>1, <2>6 DEF Observed
    <3> QED
      BY <2>1, <2>2, <2>4, <2>6, <3>1
  <2> QED
    BY <1>1, <2>5, <2>6
<1>6. mismatches = {} => PayloadMatches(q, payload)
  <2> HIDE DEF failures, payload, q
  <2> SUFFICES ASSUME ~PayloadMatches(q, payload) PROVE "payload" \in mismatches
    OBVIOUS
  <2> QED
    OBVIOUS
<1>7. failures = Observed(q) /\ PayloadMatches(q, payload) => mismatches = {}
  <2> HIDE DEF failures, payload
  <2> QED
    BY <1>1
<1> HIDE DEF q, v, r, raw, payload, failures, mismatches, reproduced
<1>8. Retained(p, c, r, raw, traced, payload, failures).valid <=> Confirms(p, c)
  <2>1. Confirms(p, c) <=> reproduced /\ LastIsUsed(q)
    BY <1>1, <1>2 DEF Confirms, q, r, v
  <2> QED
    BY <1>2, <1>3, <1>4, <1>5, <1>6, <1>7, <2>1
<1> QED
  BY <1>8 DEF q, r, raw, payload, failures

\* The cells from version 6 on.
LEMMA RetainedCells ==
    ASSUME NEW p, NEW c, Retraced(p, c), p.version \in 6..9, Results(c.run.stream) # {}
    PROVE  LET r == run(c.run)
           IN  /\ p.version = 6 => (audit_cell_v6(p, c, r).valid <=> Confirms(p, c))
               /\ p.version = 8 => (audit_cell_v8(p, c, r).valid <=> Confirms(p, c))
               /\ p.version = 9 => (audit_cell_v9(p, c, r).valid <=> Confirms(p, c))
<1> DEFINE q == c.run
           v == p.version
           r == run(q)
           raw == Brought(q)
           payload == final_payload_v6(q)
           failures == semantic_replay_v6(c, raw, payload)
<1>1. v \in 3..9 /\ IsQuestion(q) /\ r = Packet(v, q) /\ IsStream(q.stream) /\ (v = 9 => c.alike)
  BY DEF Retraced, DrivenCell, IsQuestion
<1>2. r.status = "complete" => (tool_trace_v5(q) <=> NoDiff(q))
  BY <1>1, CompleteReplays DEF NoDiff
<1>3. /\ tool_trace_v6(q) <=> tool_trace_v5(q)
      /\ tool_trace_v7(q) <=> tool_trace_v5(q)
  BY DEF tool_trace_v6, tool_trace_v7
<1>4. ASSUME NEW traced, r.status = "complete" => (traced <=> NoDiff(q))
      PROVE  Retained(p, c, r, raw, traced, payload, failures).valid <=> Confirms(p, c)
  BY <1>4, RetainedRows
<1>5. raw_events_v6(q.stream) = raw /\ raw_events_v8(q.stream) = raw /\ raw_events_v9(q.stream) = raw
  BY <1>1, ReplaySeesAll DEF raw_events_v9, raw_events_v8, raw_events_v7, raw_events_v6,
                             raw_events_v5, raw_events_v4
<1>6. final_payload_v8(q) = payload /\ final_payload_v9(q) = payload
  BY DEF final_payload_v9, final_payload_v8, final_payload_v7
<1>7. semantic_replay_v7(c, raw, payload) = failures
  BY DEF semantic_replay_v7
<1>8. audit_cell_v6(p, c, r) = Retained(p, c, r, raw, tool_trace_v6(q), payload, failures)
  BY <1>5, Zenon DEF audit_cell_v6
<1>9. audit_cell_v8(p, c, r) = Retained(p, c, r, raw, tool_trace_v7(q), payload, failures)
  BY <1>5, <1>6, <1>7, Zenon DEF audit_cell_v8
<1>10. audit_cell_v9(p, c, r) = Retained(p, c, r, raw, tool_trace_v7(q) /\ c.alike, payload, failures)
  BY <1>5, <1>6, <1>7, Zenon DEF audit_cell_v9
<1> HIDE DEF q, v, r, raw, payload, failures
<1>11. Retained(p, c, r, raw, tool_trace_v6(q), payload, failures).valid <=> Confirms(p, c)
  BY <1>2, <1>3, <1>4
<1>12. Retained(p, c, r, raw, tool_trace_v7(q), payload, failures).valid <=> Confirms(p, c)
  BY <1>2, <1>3, <1>4
<1>13. v = 9 =>
         (Retained(p, c, r, raw, tool_trace_v7(q) /\ c.alike, payload, failures).valid
             <=> Confirms(p, c))
  BY <1>1, <1>2, <1>3, <1>4
<1> QED
  BY <1>8, <1>9, <1>10, <1>11, <1>12, <1>13 DEF q, r, v

\* An audit from version 3 on is of a pilot that left results, and confirms
\* its cells.
LEMMA LaterAudits ==
    ASSUME NEW p, IsPilot(p), p.version \in 3..9,
           audit_pilot(p, run_pilot(p)).status = "audited"
    PROVE  LET rows == audit_pilot(p, run_pilot(p)).rows
           IN  /\ DOMAIN rows = DOMAIN p.cells
               /\ \A i \in DOMAIN p.cells : rows[i].valid <=> Confirms(p, p.cells[i])
<1> DEFINE out == run_pilot(p)
           packets == [i \in DOMAIN p.cells |-> run(p.cells[i].run)]
           audit == audit_pilot(p, out)
           c(i) == p.cells[i]
           r(i) == run(p.cells[i].run)
<1>1. audit = AuditOf(p, out, Recorded(p, out), packets) /\ audit.status = "audited"
  BY DEF audit_pilot
<1>2. ASSUME out.left = "results", NEW i \in DOMAIN p.cells
      PROVE  Retraced(p, c(i))
  BY <1>2, ResultsMeanRuns DEF Retraced
<1>3. \A i \in DOMAIN p.cells : packets[i] = r(i)
  OBVIOUS
<1> HIDE DEF out, packets, audit
<1>4. CASE p.version = 3
  <2>1. audit = audit_pilot_v3(p, out, packets)
    BY <1>1, <1>4 DEF AuditOf
  <2>2. /\ out.left = "results"
        /\ audit.rows = [i \in DOMAIN p.cells |-> audit_cell_v3(c(i), packets[i])]
    BY <1>1, <2>1 DEF audit_pilot_v3, RefusedAudit, Audit, require_complete_root_v3
  <2>3. \A i \in DOMAIN p.cells : audit_cell_v3(c(i), r(i)).valid <=> Confirms(p, c(i))
    BY <1>2, <1>4, <2>2, ReplayedRows
  <2> QED
    BY <1>3, <2>2, <2>3 DEF audit, out
<1>5. CASE p.version = 4
  <2>1. audit = audit_pilot_v4(p, out, packets)
    BY <1>1, <1>5 DEF AuditOf
  <2>2. /\ out.left = "results"
        /\ audit.rows = [i \in DOMAIN p.cells |-> audit_cell_v4(p, c(i), packets[i])]
    BY <1>1, <2>1 DEF audit_pilot_v4, RefusedAudit, Audit, require_complete_root_v4,
                      require_complete_root_v3
  <2>3. \A i \in DOMAIN p.cells : audit_cell_v4(p, c(i), r(i)).valid <=> Confirms(p, c(i))
    BY <1>2, <1>5, <2>2, ReplayedRows
  <2> QED
    BY <1>3, <2>2, <2>3 DEF audit, out
<1>6. CASE p.version = 5
  <2>1. audit = audit_pilot_v5(p, out, packets)
    BY <1>1, <1>6 DEF AuditOf
  <2>2. /\ out.left = "results"
        /\ audit.rows = [i \in DOMAIN p.cells |-> audit_cell_v5(p, c(i), packets[i])]
    BY <1>1, <2>1 DEF audit_pilot_v5, RefusedAudit, Audit, require_complete_root_v5,
                      require_complete_root_v3
  <2>3. \A i \in DOMAIN p.cells : audit_cell_v5(p, c(i), r(i)).valid <=> Confirms(p, c(i))
    BY <1>2, <1>6, <2>2, ReplayedRows
  <2> QED
    BY <1>3, <2>2, <2>3 DEF audit, out
<1>7. CASE p.version = 6
  <2>1. audit = audit_pilot_v6(p, out, packets)
    BY <1>1, <1>7 DEF AuditOf
  <2>2. /\ out.left = "results" /\ AllRetained(p)
        /\ audit.rows = [i \in DOMAIN p.cells |-> audit_cell_v6(p, c(i), packets[i])]
    BY <1>1, <2>1 DEF audit_pilot_v6, RefusedAudit, Audit, require_complete_root_v6,
                      require_complete_root_v3
  <2>3. \A i \in DOMAIN p.cells : audit_cell_v6(p, c(i), r(i)).valid <=> Confirms(p, c(i))
    <3>1. p.version \in 6..9
      BY <1>7
    <3>2. \A i \in DOMAIN p.cells : Retraced(p, p.cells[i]) /\ Results(p.cells[i].run.stream) # {}
      BY <1>2, <2>2 DEF AllRetained
    <3> QED
      BY <1>7, <3>1, <3>2, RetainedCells
  <2> QED
    BY <1>3, <2>2, <2>3 DEF audit, out
<1>8. CASE p.version = 7
  <2>1. audit = audit_pilot_v7(p, out, packets)
    BY <1>1, <1>8 DEF AuditOf
  <2>2. ~require_complete_root_v7(p, out)
    BY DEF require_complete_root_v7, CategoriesRegistered, RegisteredIdentity
  <2> QED
    BY <1>1, <2>1, <2>2 DEF audit_pilot_v7, RefusedAudit
<1>9. CASE p.version = 8
  <2>1. audit = audit_pilot_v8(p, out, packets)
    BY <1>1, <1>9 DEF AuditOf
  <2>2. /\ out.left = "results" /\ AllRetained(p)
        /\ audit.rows = [i \in DOMAIN p.cells |-> audit_cell_v8(p, c(i), packets[i])]
    BY <1>1, <2>1 DEF audit_pilot_v8, RefusedAudit, Audit, require_complete_root_v8,
                      require_complete_root_v3
  <2>3. \A i \in DOMAIN p.cells : audit_cell_v8(p, c(i), r(i)).valid <=> Confirms(p, c(i))
    <3>1. p.version \in 6..9
      BY <1>9
    <3>2. \A i \in DOMAIN p.cells : Retraced(p, p.cells[i]) /\ Results(p.cells[i].run.stream) # {}
      BY <1>2, <2>2 DEF AllRetained
    <3> QED
      BY <1>9, <3>1, <3>2, RetainedCells
  <2> QED
    BY <1>3, <2>2, <2>3 DEF audit, out
<1>10. CASE p.version = 9
  <2>1. audit = audit_pilot_v9(p, out, packets)
    BY <1>1, <1>10 DEF AuditOf
  <2>2. /\ out.left = "results" /\ AllRetained(p)
        /\ audit.rows = [i \in DOMAIN p.cells |-> audit_cell_v9(p, c(i), packets[i])]
    BY <1>1, <2>1 DEF audit_pilot_v9, RefusedAudit, Audit, require_complete_root_v9,
                      require_complete_root_v3
  <2>3. \A i \in DOMAIN p.cells : audit_cell_v9(p, c(i), r(i)).valid <=> Confirms(p, c(i))
    <3>1. p.version \in 6..9
      BY <1>10
    <3>2. \A i \in DOMAIN p.cells : Retraced(p, p.cells[i]) /\ Results(p.cells[i].run.stream) # {}
      BY <1>2, <2>2 DEF AllRetained
    <3> QED
      BY <1>10, <3>1, <3>2, RetainedCells
  <2> QED
    BY <1>3, <2>2, <2>3 DEF audit, out
<1>11. p.version \in {3, 4, 5, 6, 7, 8, 9}
  OBVIOUS
<1> QED
  BY <1>4, <1>5, <1>6, <1>7, <1>8, <1>9, <1>10, <1>11

\* The first audits look at packets only.
LEMMA RecordedCells ==
    ASSUME NEW p, IsPilot(p), p.version \in 1..2, NEW i \in Recorded(p, run_pilot(p))
    PROVE  LET q == p.cells[i].run
           IN  i \in DOMAIN p.cells /\ DrivenCell(p, p.cells[i]) /\ run(q) = Packet(p.version, q)
<1> DEFINE stages == [j \in DOMAIN p.cells |-> Cell(p, p.cells[j], run(p.cells[j].run))]
<1>1. DOMAIN p.cells = 1..Len(p.cells) /\ Len(p.cells) \in Nat
  BY LenProperties DEF IsPilot, IsList
<1>2. Driven(p, stages).ran \in 0..Len(p.cells)
  <2>1. DOMAIN stages = DOMAIN p.cells /\ IsList(p.cells) /\ p.cut \in Nat
    BY DEF IsPilot
  <2> HIDE DEF stages
  <2>2. \/ Driven(p, stages) = Left("results", "none", Len(p.cells))
        \/ \E k \in DOMAIN p.cells :
              \/ Driven(p, stages) = Left("nothing", "killed", k)
              \/ Driven(p, stages) = Left("protocol-stop", stages[k], k)
    BY <2>1, DriveEnds
  <2> QED
    BY <1>1, <2>2 DEF Left
<1>3. \/ run_pilot(p) = Drive(p)
      \/ run_pilot(p).ran = 0
  <2>1. run_pilot(p) = Left("refused", "none", 0) \/ run_pilot(p) = Registered(p, Drive(p))
    BY Zenon DEF run_pilot
  <2>2. \A out : Registered(p, out) = out \/ Registered(p, out) = Left("nothing", "killed", 0)
    <3>1. CASE p.version = 1
      BY <3>1 DEF Registered, run_pilot_v1
    <3>2. CASE p.version = 2
      BY <3>2 DEF Registered, run_pilot_v2
    <3>3. p.version \in {1, 2}
      OBVIOUS
    <3> QED
      BY <3>1, <3>2, <3>3
  <2> QED
    BY <2>1, <2>2 DEF Left
<1>4. run_pilot(p).ran \in 0..Len(p.cells)
  BY <1>1, <1>2, <1>3 DEF Drive
<1>5. i \in DOMAIN p.cells /\ run(p.cells[i].run).status \notin {"refused", "wasted"}
  BY <1>1, <1>4 DEF Recorded
<1>6. DrivenCell(p, p.cells[i])
  BY <1>5 DEF IsPilot, DrivenCell
<1> QED
  BY <1>5, <1>6, RunWasPacket DEF DrivenCell

\* The second version's rows.
LEMMA AuditOfSecond ==
    ASSUME NEW c, IsQuestion(c.run), c.run.surface = 2, run(c.run) = Packet(2, c.run)
    PROVE  audit_run_v2(c).valid <=>
               /\ run(c.run).status = "complete"
               /\ c.run.condition = "baseline" => ObjectsAt(c.run.stream) = {}
<1> DEFINE q == c.run
           r == run(q)
           s == summarize_stream(q.stream, 2)
           a == s.answer
           objects == ObjectsAt(q.stream)
           body(i) == q.stream[i].body
<1>1. {q.mutated, q.failed} \subseteq BOOLEAN /\ q.condition \in {"baseline", "treatment"}
  BY DEF IsQuestion
<1>2. s.objects = objects
  BY DEF summarize_stream
<1>3. audit_run_v2(c).valid <=>
          /\ ~q.mutated /\ r.status = "complete" /\ RawStatusFits(q) /\ semantic_replay_v2(q)
  BY Zenon DEF audit_run_v2, Row
<1>4. semantic_replay_v2(q) <=>
          /\ a # NoAnswer
          /\ q.condition = "baseline" => evaluate_v2(q, a, NoRaw)
          /\ q.condition = "treatment" => \E i \in objects : evaluate_v2(q, a, body(i))
  <2> HIDE DEF a, objects, q
  <2> QED
    BY <1>1 DEF semantic_replay_v2, a, s, objects
<1>5. RawStatusFits(q) <=>
          /\ q.condition = "baseline" => objects = {}
          /\ q.condition = "treatment" => \E i \in objects : parse_raw_response(q.task, body(i))
  <2> HIDE DEF objects, q
  <2> QED
    BY <1>1 DEF RawStatusFits, objects
<1>6. ASSUME r.status = "complete"
      PROVE  /\ WellRun(q, s)
             /\ q.condition = "treatment" => Aligned(q, s, {i \in objects : parse_raw_response(q.task, body(i))})
             /\ IF q.condition = "baseline" THEN evaluate_v2(q, a, <<>>)
                ELSE \E i \in objects : evaluate_v2(q, a, body(i))
  BY <1>1, <1>2, <1>6, EarlyPackets
<1>7. q.condition = "baseline" => (evaluate_v2(q, a, <<>>) <=> evaluate_v2(q, a, NoRaw))
  BY BaselineIgnoresResponses
<1>8. Aligned(q, s, {i \in objects : parse_raw_response(q.task, body(i))}) =>
          \E i \in objects : parse_raw_response(q.task, body(i))
  BY DEF Aligned
<1> HIDE DEF q, r, a, s, objects
<1>9. WellRun(q, s) => ~q.mutated /\ a # NoAnswer
  BY DEF WellRun, a
<1> QED
  BY <1>1, <1>3, <1>4, <1>5, <1>6, <1>7, <1>8, <1>9 DEF q, r, objects

\* For all cohorts: an audit confirms what is to be confirmed.
THEOREM AuditsConfirm == Spec => []AuditConfirms
<1>1. ReviewInv => AuditConfirms
  <2> DEFINE p == question
             out == run_pilot(p)
             c(i) == p.cells[i]
  <2> SUFFICES ASSUME ReviewInv, Answered("audit"), answer.status = "audited"
               PROVE  Confirmed(p, IF p.version <= 2 THEN Recorded(p, out) ELSE DOMAIN p.cells)
    BY DEF AuditConfirms
  <2>1. IsPilot(p) /\ answer = audit_pilot(p, out) /\ p.version \in 1..9
    BY DEF ReviewInv, Answered, IsPilot
  <2> HIDE DEF p, out
  <2>2. CASE p.version = 1
    <3>1. answer.rows =
              [i \in Recorded(p, out) |-> Row(Rebuilt(c(i).run).status = "complete", {}, {})]
      BY <2>1, <2>2 DEF audit_pilot, AuditOf, audit_pilot_v1, RefusedAudit, Audit
    <3>2. ASSUME NEW i \in Recorded(p, out), answer.rows[i].valid
          PROVE  run(c(i).run).status \in {"complete", "tool_call_budget_exceeded"}
      <4>1. Rebuilt(c(i).run).status = "complete"
        <5> DEFINE ok == Rebuilt(c(i).run).status = "complete"
        <5>1. answer.rows[i] = Row(ok, {}, {})
          BY <3>1
        <5>2. Row(ok, {}, {}).valid = ok
          BY Zenon DEF Row
        <5> HIDE DEF ok
        <5>3. ok
          BY <3>2, <5>1, <5>2, Zenon
        <5> QED
          BY <5>3 DEF ok
      <4>2. IsQuestion(c(i).run) /\ c(i).run.surface = 1 /\ run(c(i).run) = Packet(1, c(i).run)
        BY <2>1, <2>2, RecordedCells DEF DrivenCell, out
      <4> QED
        BY <4>1, <4>2, AuditOfFirst
    <3>3. DOMAIN answer.rows = Recorded(p, out)
      BY <3>1
    <3> QED
      BY <2>2, <3>2, <3>3 DEF Confirmed, p
  <2>3. CASE p.version = 2
    <3>1. answer.rows = [i \in Recorded(p, out) |-> audit_run_v2(c(i))]
      BY <2>1, <2>3 DEF audit_pilot, AuditOf, audit_pilot_v2, RefusedAudit, Audit
    <3>2. ASSUME NEW i \in Recorded(p, out)
          PROVE  answer.rows[i].valid <=>
                     /\ run(c(i).run).status = "complete"
                     /\ c(i).run.condition = "baseline" => ObjectsAt(c(i).run.stream) = {}
      <4>1. IsQuestion(c(i).run) /\ c(i).run.surface = 2 /\ run(c(i).run) = Packet(2, c(i).run)
        BY <2>1, <2>3, RecordedCells DEF DrivenCell, out
      <4>2. answer.rows[i] = audit_run_v2(c(i))
        BY <3>1
      <4> QED
        BY <4>1, <4>2, AuditOfSecond
    <3>3. DOMAIN answer.rows = Recorded(p, out)
      BY <3>1
    <3> QED
      BY <2>3, <3>2, <3>3 DEF Confirmed, p
  <2>4. CASE p.version \in 3..9
    <3>1. /\ DOMAIN answer.rows = DOMAIN p.cells
          /\ \A i \in DOMAIN p.cells : answer.rows[i].valid <=> Confirms(p, c(i))
      BY <2>1, <2>4, LaterAudits DEF out
    <3> QED
      BY <2>4, <3>1 DEF Confirmed, Confirms, NoDiff, p
  <2> QED
    BY <2>1, <2>2, <2>3, <2>4
<1> QED
  BY <1>1, ReviewAnswers, PTL
-----------------------------------------------------------------------------
(* Cohorts in which everybody did as told.                                 *)

\* A contract without defects, in a place where nothing is, is checked out.
LEMMA NoDefects ==
    ASSUME NEW v \in 1..9, NEW site, ~site.exists, site.repository, site.commits = "here",
           ~site.visible
    PROVE  /\ ContractLoads(v, {}) /\ InstructionLoads(v, {})
           /\ Materialized(v, {}, site) = "ready"
<1>1. \A w \in 1..9 : ContractLoads(w, {})
  BY DEF ContractLoads
<1>2. InstructionLoads(v, {})
  BY <1>1 DEF InstructionLoads
<1>3. \A w \in 1..9 : OracleHidden(w, {}, site)
  BY DEF OracleHidden
<1>4. ensure_history(site) /\ ensure_frozen_history_v1(site) /\ ensure_frozen_history_v2(site)
  BY DEF ensure_history, ensure_frozen_history_v1, ensure_frozen_history_v2
<1>5. /\ materialize_v1({}, site) = "ready"
      /\ materialize_v2({}, site) = "ready"
      /\ materialize_v3({}, site) = "ready"
  BY <1>1, <1>3, <1>4 DEF materialize_v1, materialize_v2, materialize_v3, Checkout
<1>6. /\ materialize_v4({}, site) = "ready"
      /\ materialize_v5({}, site) = "ready"
      /\ materialize_v6({}, site) = "ready"
  BY <1>1, <1>3, <1>4 DEF materialize_v4, materialize_v5, materialize_v6, Checkout
<1>7. /\ materialize_v7({}, site) = "ready"
      /\ materialize_v8({}, site) = "ready"
      /\ materialize_v9({}, site) = "ready"
  BY <1>1, <1>3, <1>4 DEF materialize_v7, materialize_v8, materialize_v9, Checkout
<1>8. Materialized(v, {}, site) = "ready"
  <2> v \in {1, 2, 3, 4, 5, 6, 7, 8, 9}
    OBVIOUS
  <2> QED
    BY <1>5, <1>6, <1>7 DEF Materialized
<1> QED
  BY <1>1, <1>2, <1>8

\* The registered model passes.
LEMMA HonestStarts ==
    ASSUME NEW p, IsPilot(p), Honest(p)
    PROVE  /\ run_pilot(p) = Drive(p)
           /\ model_identity_v4(p) /\ model_identity_v5(p) /\ model_identity_v6(p)
           /\ model_identity_v7(p) /\ model_identity_v8(p)
           /\ p.version = 9 => model_identity_v9(p)
<1> DEFINE f == p.preflight
<1>1. p.fresh /\ p.prepared /\ p.budget /\ p.model = RequestedModel /\ Own(p) /\ Probed(f)
  BY DEF Honest
<1>2. ~f.specific
  BY DEF Honest
<1>3. p.version = 9 => run_preflight_v9(f)
  <2>1. ASSUME p.version = 9, NEW i \in DOMAIN f.streams PROVE Range(f.streams[i]) = {RequestedModel}
    BY <2>1 DEF Honest
  <2>2. f.asked = RequestedModel /\ f.alike
    BY <1>1 DEF Own, Honest
  <2> QED
    BY <1>1, <2>1, <2>2 DEF run_preflight_v9
<1>4. /\ run_preflight_v4(f) /\ run_preflight_v5(f) /\ run_preflight_v6(f)
      /\ run_preflight_v7(f) /\ run_preflight_v8(f)
  BY <1>1, <1>2 DEF run_preflight_v4, run_preflight_v5, run_preflight_v6, run_preflight_v7,
                    run_preflight_v8
<1> HIDE DEF f
<1>5. /\ model_identity_v4(p) /\ model_identity_v5(p) /\ model_identity_v6(p)
      /\ model_identity_v7(p) /\ model_identity_v8(p)
      /\ p.version = 9 => model_identity_v9(p)
  BY <1>1, <1>3, <1>4 DEF model_identity_v4, model_identity_v5, model_identity_v6,
                          model_identity_v7, model_identity_v8, model_identity_v9, f
<1>6. ASSUME NEW out PROVE Registered(p, out) = out
  <2>1. /\ run_pilot_v1(p, out) = out /\ run_pilot_v2(p, out) = out /\ run_pilot_v3(p, out) = out
        /\ run_pilot_v4(p, out) = out /\ run_pilot_v5(p, out) = out /\ run_pilot_v6(p, out) = out
        /\ run_pilot_v7(p, out) = out /\ run_pilot_v8(p, out) = out
        /\ p.version = 9 => run_pilot_v9(p, out) = out
    BY <1>1, <1>5 DEF run_pilot_v1, run_pilot_v2, run_pilot_v3, run_pilot_v4, run_pilot_v5,
                      run_pilot_v6, run_pilot_v7, run_pilot_v8, run_pilot_v9
  <2> p.version \in {1, 2, 3, 4, 5, 6, 7, 8, 9}
    BY DEF IsPilot
  <2> QED
    BY <2>1 DEF Registered
<1>7. run_pilot(p) = Registered(p, Drive(p))
  BY <1>1, Zenon DEF run_pilot
<1> QED
  BY <1>5, <1>6, <1>7

\* Whoever does as told uses no comparison in a baseline, and answers last.
LEMMA ObeyingCalls ==
    ASSUME NEW q, IsQuestion(q), Obeys(q)
    PROVE  /\ NoDiff(q) /\ (q.condition = "baseline" => ObjectsAt(q.stream) = {})
           /\ LastIsUsed(q) /\ Results(q.stream) # {}
<1> DEFINE n == Len(q.stream)
<1>1. IsStream(q.stream) /\ n \in Nat /\ DOMAIN q.stream = 1..n
  BY StreamShape DEF IsQuestion
<1>2. ASSUME q.condition = "baseline", NEW k \in UsesAt(q.stream)
      PROVE  q.stream[k].tool # "diff"
  <2>1. CASE k \in Navigation(q)
    BY <1>2, <2>1 DEF Obeys
  <2>2. CASE k \notin Navigation(q)
    BY <2>2 DEF Navigation, UsesAt
  <2> QED
    BY <2>1, <2>2
<1>3. NoDiff(q)
  BY <1>2 DEF NoDiff, ToolsIn
<1>4. q.condition = "baseline" => ObjectsAt(q.stream) = {}
  <2>1. q.condition = "baseline" => Brought(q) = {}
    BY <1>2 DEF Brought, UsesAt
  <2> QED
    BY <1>1, <2>1, DiffsAreBrought DEF ObjectsAt
<1>5. {j \in DOMAIN q.stream : q.stream[j].type = "result"} = {n} /\ q.stream[n].answer # NoAnswer
  BY DEF Obeys
<1>6. n \in DOMAIN q.stream /\ q.stream[n].type = "result" /\ n + 1..n = {}
  BY <1>1, <1>5
<1>7. Used(q, n)
  BY <1>5, <1>6 DEF Used
<1>8. LastIsUsed(q)
  BY <1>6, <1>7 DEF LastIsUsed
<1> QED
  BY <1>3, <1>4, <1>6, <1>8 DEF Results

\* A cell in which everybody did as told runs, and its packet is complete.
LEMMA HonestCells ==
    ASSUME NEW p, IsPilot(p), Honest(p), NEW i \in DOMAIN p.cells
    PROVE  LET c == p.cells[i]
               q == c.run
               r == run(q)
           IN  /\ DrivenCell(p, c) /\ Obeys(q)
               /\ r = Packet(p.version, q) /\ r.status = "complete"
               /\ Instructed(p.version, c) /\ CheckedOut(p.version, c) /\ c.starts
               /\ c.file = "read" /\ c.warm = "reused"
               /\ Cell(p, c, r) = "ran"
<1> DEFINE c == p.cells[i]
           q == c.run
           r == run(q)
           v == p.version
           known == p.preflight.streams[1]
<1>1. v \in 1..9 /\ IsQuestion(q) /\ q.surface = v /\ ~q.calibration /\ DrivenCell(p, c)
  BY DEF IsPilot, DrivenCell
<1>2. /\ c.site = [exists |-> FALSE, repository |-> TRUE, commits |-> "here", visible |-> FALSE]
      /\ q.contracts = {v} /\ q.ready /\ q.defects = {} /\ q.task.located
      /\ c.starts /\ c.file = "read" /\ c.status = "clean" /\ c.warm = "reused" /\ c.alike
      /\ Obeys(q) /\ Range(q.labels) = Range(known) /\ LabelsAsRegistered(p, c)
  BY DEF Honest
<1>3. /\ ContractLoads(v, {}) /\ Instructed(v, c) /\ CheckedOut(v, c)
  BY <1>1, <1>2, NoDefects DEF Instructed, CheckedOut
<1>4. Follows(q)
  BY <1>1, <1>2, <1>3 DEF Follows, Exclusive
<1>5. r = Packet(v, q)
  BY <1>1, <1>4, FollowerRuns
<1>6. r.status = "complete" /\ (v >= 3 => ~r.hard)
  <2>1. CASE v \in 1..2
    BY <1>1, <1>4, <1>5, <2>1, EarlyFollower
  <2>2. CASE v \in 3..9
    <3> DEFINE s == summarize_stream(q.stream, v)
    <3>1. s.answer # NoAnswer /\ ~Stopping(v, q, s) /\ Judge(v, q, s)
      BY <1>1, <1>4, <2>2, FollowerIsClean
    <3>2. {q.mutated, q.failed} \subseteq BOOLEAN
      BY <1>1 DEF IsQuestion
    <3>3. r = [status |-> "complete", hard |-> FALSE]
      BY <1>5, <2>2, <3>1, <3>2, LaterPacket
    <3> QED
      BY <3>3
  <2> QED
    BY <1>1, <2>1, <2>2
<1>7. HasPacket(c, r) /\ ~WarmRaises(v, c, r)
  BY <1>2, <1>6 DEF HasPacket, WarmRaises
<1>8. v >= 3 => IdentityMatches(p, c)
  <2>1. LabelsValid(q.labels)
    BY <1>2 DEF Obeys
  <2>2. v \in 4..6 => FirstSeen(q.labels) = FirstSeen(known)
    BY <1>1, <1>2 DEF LabelsAsRegistered
  <2>3. v = 8 => q.labels = known
    BY <1>2 DEF LabelsAsRegistered
  <2> HIDE DEF known, q
  <2>4. /\ v \in 4..6 => /\ identity_matches_v4(known, q.labels)
                         /\ identity_matches_v5(known, q.labels)
                         /\ identity_matches_v6(known, q.labels)
        /\ identity_matches_v7(known, q.labels) /\ identity_matches_v9(known, q.labels)
        /\ v = 8 => identity_matches_v8(known, q.labels)
    BY <1>2, <2>1, <2>2, <2>3 DEF identity_matches_v4, identity_matches_v5, identity_matches_v6,
                                  identity_matches_v7, identity_matches_v8, identity_matches_v9
  <2>5. ASSUME p.version \in 3..9 PROVE IdentityMatches(p, c)
    <3> USE DEF IdentityMatches, known, q
    <3>1. CASE p.version = 3
      BY <3>1
    <3>2. CASE p.version = 4
      BY <2>4, <3>2
    <3>3. CASE p.version = 5
      BY <2>4, <3>3
    <3>4. CASE p.version = 6
      BY <2>4, <3>4
    <3>5. CASE p.version = 7
      BY <2>4, <3>5
    <3>6. CASE p.version = 8
      BY <2>4, <3>6
    <3>7. CASE p.version = 9
      BY <2>4, <3>7
    <3>8. p.version \in {3, 4, 5, 6, 7, 8, 9}
      BY <2>5
    <3> QED
      BY <3>1, <3>2, <3>3, <3>4, <3>5, <3>6, <3>7, <3>8
  <2> QED
    BY <1>1, <2>5
<1>9. Cell(p, c, r) = "ran"
  <2>1. CASE v \in 1..2
    <3>1. CellOfFirst(v, c, r) = "ran"
      BY <1>2, <1>3, <1>7 DEF CellOfFirst
    <3> HIDE DEF c, r
    <3>2. CASE p.version = 1
      BY <3>1, <3>2 DEF Cell
    <3>3. CASE p.version = 2
      BY <3>1, <3>3 DEF Cell
    <3>4. p.version \in {1, 2}
      BY <2>1
    <3> QED
      BY <3>2, <3>3, <3>4
  <2>2. CASE v \in 3..9
    <3>1. ~Unready(v, c, r) /\ ~Violates(c, r)
      BY <1>2, <1>3, <1>6, <1>7, <2>2 DEF Unready, Violates
    <3> QED
      BY <1>2, <1>7, <1>8, <2>2, <3>1, CellRuns
  <2> QED
    BY <1>1, <2>1, <2>2
<1> QED
  BY <1>1, <1>2, <1>3, <1>5, <1>6, <1>9

\* So the pilot gets to its end.
LEMMA HonestEnds ==
    ASSUME NEW p, IsPilot(p), Honest(p)
    PROVE  run_pilot(p) = Left("results", "none", Len(p.cells))
<1> DEFINE stages == [i \in DOMAIN p.cells |-> Cell(p, p.cells[i], run(p.cells[i].run))]
<1>1. run_pilot(p) = Driven(p, stages)
  BY HonestStarts DEF Drive
<1>2. \A i \in DOMAIN p.cells : stages[i] = "ran"
  BY HonestCells
<1>3. DOMAIN stages = DOMAIN p.cells /\ IsList(p.cells) /\ p.cut \in Nat /\ p.cut = 0
  BY DEF IsPilot, Honest
<1>4. \A i \in DOMAIN p.cells : i # 0
  <2>1. DOMAIN p.cells = 1..Len(p.cells) /\ Len(p.cells) \in Nat
    BY <1>3, LenProperties DEF IsList
  <2> QED
    BY <2>1
<1> HIDE DEF stages
<1>5. Driven(p, stages) = Left("results", "none", Len(p.cells))
  BY <1>2, <1>3, <1>4, DriveEnds
<1> QED
  BY <1>1, <1>5

\* The early audits find all of its packets.
LEMMA HonestRecorded ==
    ASSUME NEW p, IsPilot(p), Honest(p)
    PROVE  /\ Recorded(p, run_pilot(p)) = DOMAIN p.cells
           /\ Readable(p, Recorded(p, run_pilot(p)))
<1>1. DOMAIN p.cells = 1..Len(p.cells) /\ Len(p.cells) \in Nat /\ Len(p.cells) > 0
  <2>1. p.cells \in Seq(Range(p.cells)) /\ p.cells # <<>>
    BY DEF IsPilot, IsList, Honest
  <2> QED
    BY <2>1, LenProperties, EmptySeq
<1>2. run_pilot(p).ran = Len(p.cells)
  BY HonestEnds DEF Left
<1>3. ASSUME NEW i \in DOMAIN p.cells
      PROVE  LET c == p.cells[i]
             IN  /\ i # p.cut /\ Instructed(p.version, c) /\ CheckedOut(p.version, c) /\ c.starts
                 /\ c.file = "read" /\ run(c.run).status = "complete"
  BY <1>1, HonestCells DEF Honest
<1>4. Recorded(p, run_pilot(p)) = DOMAIN p.cells
  BY <1>1, <1>2, <1>3 DEF Recorded
<1> QED
  BY <1>1, <1>3, <1>4 DEF Readable

\* Without the calls of other tools a complete packet is complete, too.
LEMMA RebuiltComplete ==
    ASSUME NEW q, IsQuestion(q), Packet(1, q).status = "complete"
    PROVE  Rebuilt(q).status = "complete"
<1> DEFINE s == summarize_stream(q.stream, 1)
           u == {i \in s.uses : q.stream[i].tool = "diff"}
           z == [s EXCEPT !.uses = u]
           fits(x) == /\ WellRun(q, x) /\ InBudget(x)
                      /\ q.condition = "treatment" =>
                            Aligned(q, x, {i \in x.objects :
                                              parse_raw_response(q.task, q.stream[i].body)})
                      /\ IF q.condition = "baseline"
                         THEN evaluate_review_answer(q, x.answer, <<>>)
                         ELSE \E i \in x.objects :
                                 evaluate_review_answer(q, x.answer, q.stream[i].body)
<1>1. /\ {q.mutated, q.failed} \subseteq BOOLEAN /\ q.condition \in {"baseline", "treatment"}
      /\ IsStream(q.stream)
  BY DEF IsQuestion
<1>2. \A x : build_temporal_review_packet(q, x).status = "complete" <=> fits(x)
  BY <1>1, EarlyPackets
<1>3. Packet(1, q) = build_temporal_review_packet(q, s)
  BY DEF Packet
<1>4. Rebuilt(q) = build_temporal_review_packet(q, z)
  BY DEF Rebuilt
<1>5. /\ z.answer = s.answer /\ z.unexpected = s.unexpected /\ z.objects = s.objects
      /\ z.uses = u /\ s.uses = UsesAt(q.stream)
  BY DEF summarize_stream
<1>6. fits(s)
  BY <1>2, <1>3
<1> HIDE DEF z, s
<1>7. InBudget(z)
  <2>1. Len(q.stream) \in Nat /\ s.uses \subseteq 1..Len(q.stream) /\ u \subseteq s.uses
    BY <1>1, <1>5, StreamShape DEF UsesAt
  <2>2. IsFiniteSet(1..Len(q.stream))
    BY <2>1, FS_Interval
  <2>3. IsFiniteSet(s.uses)
    BY <2>1, <2>2, FS_Subset
  <2>4. IsFiniteSet(u) /\ Cardinality(u) <= Cardinality(s.uses)
    BY <2>1, <2>3, FS_Subset
  <2>5. Cardinality(u) \in Nat /\ Cardinality(s.uses) \in Nat
    BY <2>3, <2>4, FS_CardinalityType
  <2>6. ~(Cardinality(s.uses) > ToolCallBudget)
    BY <1>6 DEF InBudget
  <2> HIDE DEF u
  <2>7. ToolCallBudget \in Nat
    BY ReviewAssumption
  <2> QED
    BY <1>5, <2>4, <2>5, <2>6, <2>7 DEF InBudget
<1>8. WellRun(q, z)
  BY <1>5, <1>6 DEF WellRun
<1>9. fits(z)
  BY <1>5, <1>6, <1>7, <1>8 DEF Aligned
<1> QED
  BY <1>2, <1>4, <1>9

\* From version 3 on there is an audit, but for version 7.
LEMMA HonestAudited ==
    ASSUME NEW p, IsPilot(p), Honest(p), p.version \in 3..9
    PROVE  audit_pilot(p, run_pilot(p)).status = IF p.version = 7 THEN "refused" ELSE "audited"
<1> DEFINE out == run_pilot(p)
           packets == [i \in DOMAIN p.cells |-> run(p.cells[i].run)]
           audit == audit_pilot(p, out)
<1>1. audit = AuditOf(p, out, Recorded(p, out), packets)
  BY DEF audit_pilot
<1>2. out.left = "results" /\ p.frozen /\ ~p.audited
  BY HonestEnds DEF Left, Honest
<1>3. AllRetained(p)
  <2> SUFFICES ASSUME NEW i \in DOMAIN p.cells PROVE Results(p.cells[i].run.stream) # {}
    BY DEF AllRetained
  <2>1. IsQuestion(p.cells[i].run) /\ Obeys(p.cells[i].run)
    BY HonestCells DEF DrivenCell
  <2> QED
    BY <2>1, ObeyingCalls
<1>4. /\ model_identity_v4(p) /\ model_identity_v5(p) /\ model_identity_v6(p)
      /\ model_identity_v8(p) /\ (p.version = 9 => model_identity_v9(p))
  BY HonestStarts
<1>5. CategoriesRegistered(8) /\ CategoriesRegistered(9) /\ ~CategoriesRegistered(7)
  BY DEF CategoriesRegistered, RegisteredIdentity
<1> HIDE DEF out, packets, audit
<1>6. require_complete_root_v3(p, out)
  BY <1>2 DEF require_complete_root_v3
<1>7. CASE p.version = 3
  <2>1. audit = audit_pilot_v3(p, out, packets)
    BY <1>1, <1>7 DEF AuditOf
  <2> QED
    BY <1>2, <1>6, <1>7, <2>1 DEF audit_pilot_v3, Audit, audit, out
<1>8. CASE p.version = 4
  <2>1. audit = audit_pilot_v4(p, out, packets)
    BY <1>1, <1>8 DEF AuditOf
  <2>2. require_complete_root_v4(p, out)
    BY <1>4, <1>6 DEF require_complete_root_v4
  <2> QED
    BY <1>2, <1>8, <2>1, <2>2 DEF audit_pilot_v4, Audit, audit, out
<1>9. CASE p.version = 5
  <2>1. audit = audit_pilot_v5(p, out, packets)
    BY <1>1, <1>9 DEF AuditOf
  <2>2. require_complete_root_v5(p, out)
    BY <1>4, <1>6 DEF require_complete_root_v5
  <2> QED
    BY <1>2, <1>9, <2>1, <2>2 DEF audit_pilot_v5, Audit, audit, out
<1>10. CASE p.version = 6
  <2>1. audit = audit_pilot_v6(p, out, packets)
    BY <1>1, <1>10 DEF AuditOf
  <2>2. require_complete_root_v6(p, out)
    BY <1>4, <1>6 DEF require_complete_root_v6
  <2> QED
    BY <1>2, <1>3, <1>10, <2>1, <2>2 DEF audit_pilot_v6, Audit, audit, out
<1>11. CASE p.version = 7
  <2>1. audit = audit_pilot_v7(p, out, packets)
    BY <1>1, <1>11 DEF AuditOf
  <2>2. ~require_complete_root_v7(p, out)
    BY <1>5 DEF require_complete_root_v7
  <2> QED
    BY <1>11, <2>1, <2>2 DEF audit_pilot_v7, RefusedAudit, audit, out
<1>12. CASE p.version = 8
  <2>1. audit = audit_pilot_v8(p, out, packets)
    BY <1>1, <1>12 DEF AuditOf
  <2>2. require_complete_root_v8(p, out)
    BY <1>4, <1>5, <1>6 DEF require_complete_root_v8
  <2> QED
    BY <1>3, <1>12, <2>1, <2>2 DEF audit_pilot_v8, Audit, audit, out
<1>13. CASE p.version = 9
  <2>1. audit = audit_pilot_v9(p, out, packets)
    BY <1>1, <1>13 DEF AuditOf
  <2>2. require_complete_root_v9(p, out)
    BY <1>4, <1>5, <1>6, <1>13 DEF require_complete_root_v9, audit_calibrations
  <2> QED
    BY <1>3, <1>13, <2>1, <2>2 DEF audit_pilot_v9, Audit, audit, out
<1>14. p.version \in {3, 4, 5, 6, 7, 8, 9}
  OBVIOUS
<1> QED
  BY <1>7, <1>8, <1>9, <1>10, <1>11, <1>12, <1>13, <1>14

\* Eight valid rows without failures may ask for more.
LEMMA GateOfEight ==
    ASSUME NEW rows, DOMAIN rows = 1..8, rows \in Seq(Range(rows)), NEW counted,
           \A i \in 1..8 : rows[i].valid /\ rows[i].failures = {} /\ rows[i].mismatches = {}
    PROVE  Gate(rows, paired_navigation_records_v6(rows), counted)
<1> DEFINE pairs == paired_navigation_records_v6(rows)
<1>1. Len(rows) = 8
  <2>1. Len(rows) \in Nat /\ 1..Len(rows) = 1..8
    BY LenProperties
  <2> QED
    BY <2>1
<1>2. pairs = {1, 3, 5, 7}
  BY <1>1 DEF paired_navigation_records_v6
<1> HIDE DEF pairs
<1>3. Cardinality(pairs) = 4
  <2> DEFINE a == {1}
             b == a \cup {3}
             c == b \cup {5}
  <2>1. Cardinality(a) = 1 /\ IsFiniteSet(a)
    BY FS_Singleton
  <2>2. ASSUME NEW S, IsFiniteSet(S), NEW x, x \notin S
        PROVE  Cardinality(S \cup {x}) = Cardinality(S) + 1 /\ IsFiniteSet(S \cup {x})
    BY <2>2, FS_AddElement
  <2>3. 3 \notin a /\ 5 \notin b /\ 7 \notin c /\ pairs = c \cup {7}
    BY <1>2
  <2> HIDE DEF a
  <2>4. Cardinality(b) = 2 /\ IsFiniteSet(b)
    BY <2>1, <2>2, <2>3
  <2> HIDE DEF b
  <2>5. Cardinality(c) = 3 /\ IsFiniteSet(c)
    BY <2>2, <2>3, <2>4
  <2> HIDE DEF c
  <2> QED
    BY <2>2, <2>3, <2>5
<1>4. \A t \in {(i - 1) \div 4 : i \in DOMAIN rows} : \E i \in pairs : (i - 1) \div 4 = t
  <2> SUFFICES ASSUME NEW i \in 1..8 PROVE \E j \in {1, 5} : (j - 1) \div 4 = (i - 1) \div 4
    BY <1>2
  <2>1. (1 - 1) \div 4 = 0 /\ (5 - 1) \div 4 = 1
    OBVIOUS
  <2>2. (i - 1) \div 4 \in {0, 1}
    OBVIOUS
  <2> QED
    BY <2>1, <2>2
<1> QED
  BY <1>3, <1>4 DEF Gate, pairs

\* A valid row has no failures.
LEMMA ValidRetained ==
    ASSUME NEW p, NEW c, NEW r, NEW raw, NEW traced, NEW payload, NEW failures,
           Retained(p, c, r, raw, traced, payload, failures).valid
    PROVE  /\ Retained(p, c, r, raw, traced, payload, failures).failures = {}
           /\ Retained(p, c, r, raw, traced, payload, failures).mismatches = {}
<1> DEFINE mismatches == {m \in {"semantic", "payload", "identity"} :
                             CASE m = "semantic" -> failures # Observed(c.run)
                               [] m = "payload" -> ~PayloadMatches(c.run, payload)
                               [] m = "identity" -> ~IdentityMatches(p, c)}
           ok == Reproduced(p.version, c, r, raw, traced) /\ failures = {} /\ mismatches = {}
<1>1. Retained(p, c, r, raw, traced, payload, failures) = Row(ok, failures, mismatches)
  BY Zenon DEF Retained
<1>2. Row(ok, failures, mismatches).valid = ok
  BY Zenon DEF Row
<1>3. ok
  BY <1>1, <1>2, Zenon
<1> HIDE DEF mismatches
<1>4. failures = {} /\ mismatches = {}
  BY <1>3
<1> QED
  BY <1>1, <1>4 DEF Row

\* The rows of an audit that has a gate.
LEMMA GatedAudits ==
    ASSUME NEW p, p.version \in {6, 8, 9}, DOMAIN p.cells = 1..8, NEW out,
           audit_pilot(p, out).status = "audited",
           \A i \in 1..8 : audit_pilot(p, out).rows[i].valid
    PROVE  audit_pilot(p, out).eligible
<1> DEFINE packets == [i \in DOMAIN p.cells |-> run(p.cells[i].run)]
           audit == audit_pilot(p, out)
           rows == audit.rows
           cells6 == [i \in DOMAIN p.cells |-> audit_cell_v6(p, p.cells[i], packets[i])]
           cells8 == [i \in DOMAIN p.cells |-> audit_cell_v8(p, p.cells[i], packets[i])]
           cells9 == [i \in DOMAIN p.cells |-> audit_cell_v9(p, p.cells[i], packets[i])]
<1>1. audit = AuditOf(p, out, Recorded(p, out), packets) /\ audit.status = "audited"
  BY DEF audit_pilot
<1> HIDE DEF packets, audit
<1>2. /\ \A i \in 1..8 : /\ cells6[i] = audit_cell_v6(p, p.cells[i], packets[i])
                         /\ cells8[i] = audit_cell_v8(p, p.cells[i], packets[i])
                         /\ cells9[i] = audit_cell_v9(p, p.cells[i], packets[i])
      /\ \A l \in {cells6, cells8, cells9} : l \in [1..8 -> Range(l)]
  BY DEF Range
<1>3. \A l \in {cells6, cells8, cells9} :
         \A i \in 1..8 : l[i].valid => l[i].failures = {} /\ l[i].mismatches = {}
  <2>1. ASSUME NEW c, NEW r
        PROVE  /\ audit_cell_v6(p, c, r).valid =>
                     audit_cell_v6(p, c, r).failures = {} /\ audit_cell_v6(p, c, r).mismatches = {}
               /\ audit_cell_v8(p, c, r).valid =>
                     audit_cell_v8(p, c, r).failures = {} /\ audit_cell_v8(p, c, r).mismatches = {}
               /\ audit_cell_v9(p, c, r).valid =>
                     audit_cell_v9(p, c, r).failures = {} /\ audit_cell_v9(p, c, r).mismatches = {}
    <3> DEFINE raw6 == raw_events_v6(c.run.stream)
               raw8 == raw_events_v8(c.run.stream)
               raw9 == raw_events_v9(c.run.stream)
               replay6 == semantic_replay_v6(c, raw6, final_payload_v6(c.run))
               replay8 == semantic_replay_v7(c, raw8, final_payload_v8(c.run))
               replay9 == semantic_replay_v7(c, raw9, final_payload_v9(c.run))
    <3>1. audit_cell_v6(p, c, r) =
              Retained(p, c, r, raw6, tool_trace_v6(c.run), final_payload_v6(c.run), replay6)
      BY Zenon DEF audit_cell_v6
    <3>2. audit_cell_v8(p, c, r) =
              Retained(p, c, r, raw8, tool_trace_v7(c.run), final_payload_v8(c.run), replay8)
      BY Zenon DEF audit_cell_v8
    <3>3. audit_cell_v9(p, c, r) =
              Retained(p, c, r, raw9, tool_trace_v7(c.run) /\ c.alike, final_payload_v9(c.run), replay9)
      BY Zenon DEF audit_cell_v9
    <3> HIDE DEF raw6, raw8, raw9, replay6, replay8, replay9
    <3>4. audit_cell_v6(p, c, r).valid =>
             audit_cell_v6(p, c, r).failures = {} /\ audit_cell_v6(p, c, r).mismatches = {}
      BY <3>1, ValidRetained
    <3>5. audit_cell_v8(p, c, r).valid =>
             audit_cell_v8(p, c, r).failures = {} /\ audit_cell_v8(p, c, r).mismatches = {}
      BY <3>2, ValidRetained
    <3>6. audit_cell_v9(p, c, r).valid =>
             audit_cell_v9(p, c, r).failures = {} /\ audit_cell_v9(p, c, r).mismatches = {}
      BY <3>3, ValidRetained
    <3> QED
      BY <3>4, <3>5, <3>6
  <2> HIDE DEF cells6, cells8, cells9
  <2> QED
    BY <1>2, <2>1
<1>4. \A l, e : Audit(l, e).rows = l /\ Audit(l, e).eligible = e
  BY Zenon DEF Audit
<1> HIDE DEF cells6, cells8, cells9
<1>5. ASSUME NEW l \in {cells6, cells8, cells9}, rows = l, NEW counted
      PROVE  Gate(rows, paired_navigation_records_v6(rows), counted)
  <2>1. l \in [1..8 -> Range(l)] /\ 8 \in Nat
    BY <1>2
  <2>2. DOMAIN l = 1..8 /\ l \in Seq(Range(l))
    <3>1. ASSUME NEW n \in Nat, NEW S, NEW f \in [1..n -> S]
          PROVE  f \in Seq(S)
      BY SeqDef
    <3>2. l \in Seq(Range(l))
      BY <2>1, <3>1
    <3> QED
      BY <2>1, <3>2
  <2>3. \A i \in 1..8 : l[i].valid
    BY <1>5 DEF audit
  <2>4. \A i \in 1..8 : l[i].valid /\ l[i].failures = {} /\ l[i].mismatches = {}
    BY <1>3, <2>3
  <2> QED
    BY <1>5, <2>2, <2>4, GateOfEight
<1>6. CASE p.version = 6
  <2>1. audit = audit_pilot_v6(p, out, packets)
    BY <1>1, <1>6 DEF AuditOf
  <2>2. audit = Audit(cells6, expansion_gate_v6(cells6))
    BY <1>1, <2>1 DEF audit_pilot_v6, RefusedAudit, cells6
  <2>3. rows = cells6 /\ audit.eligible = expansion_gate_v6(cells6)
    BY <1>4, <2>2, Zenon
  <2>4. expansion_gate_v6(cells6)
    BY <1>5, <2>3 DEF expansion_gate_v6
  <2> QED
    BY <2>3, <2>4, Zenon DEF audit
<1>7. CASE p.version = 8
  <2>1. audit = audit_pilot_v8(p, out, packets)
    BY <1>1, <1>7 DEF AuditOf
  <2>2. audit = Audit(cells8, expansion_gate_v8(cells8))
    BY <1>1, <2>1 DEF audit_pilot_v8, RefusedAudit, cells8
  <2>3. rows = cells8 /\ audit.eligible = expansion_gate_v8(cells8)
    BY <1>4, <2>2, Zenon
  <2>4. expansion_gate_v8(cells8)
    BY <1>5, <2>3 DEF expansion_gate_v8, paired_navigation_records_v7
  <2> QED
    BY <2>3, <2>4, Zenon DEF audit
<1>8. CASE p.version = 9
  <2>1. audit = audit_pilot_v9(p, out, packets)
    BY <1>1, <1>8 DEF AuditOf
  <2>2. audit = Audit(cells9, expansion_gate_v9(cells9))
    BY <1>1, <2>1 DEF audit_pilot_v9, RefusedAudit, cells9
  <2>3. rows = cells9 /\ audit.eligible = expansion_gate_v9(cells9)
    BY <1>4, <2>2, Zenon
  <2>4. expansion_gate_v9(cells9)
    BY <1>5, <2>3 DEF expansion_gate_v9, expansion_gate_v8, paired_navigation_records_v7
  <2> QED
    BY <2>3, <2>4, Zenon DEF audit
<1> QED
  BY <1>6, <1>7, <1>8

\* The rows are all valid.
LEMMA HonestRows ==
    ASSUME NEW p, IsPilot(p), Honest(p), p.version # 7
    PROVE  LET audit == audit_pilot(p, run_pilot(p))
           IN  /\ audit.status = "audited" /\ DOMAIN audit.rows = DOMAIN p.cells
               /\ \A i \in DOMAIN p.cells : audit.rows[i].valid
<1> DEFINE out == run_pilot(p)
           audit == audit_pilot(p, out)
           recorded == Recorded(p, out)
<1>1. p.version \in {1, 2} \cup 3..9
  BY DEF IsPilot
<1>2. recorded = DOMAIN p.cells /\ Readable(p, recorded)
  BY HonestRecorded
<1>3. ASSUME NEW i \in DOMAIN p.cells
      PROVE  LET c == p.cells[i]
             IN  /\ IsQuestion(c.run) /\ c.run.surface = p.version /\ c.warm = "reused"
                 /\ run(c.run) = Packet(p.version, c.run) /\ run(c.run).status = "complete"
                 /\ NoDiff(c.run) /\ LastIsUsed(c.run)
                 /\ c.run.condition = "baseline" => ObjectsAt(c.run.stream) = {}
  BY HonestCells, ObeyingCalls DEF DrivenCell
<1>4. CASE p.version = 1
  <2>1. audit = Audit([i \in recorded |-> Row(Rebuilt(p.cells[i].run).status = "complete", {}, {})], FALSE)
    BY <1>2, <1>4 DEF audit_pilot, AuditOf, audit_pilot_v1
  <2>2. ASSUME NEW i \in DOMAIN p.cells PROVE audit.rows[i].valid
    <3>1. Rebuilt(p.cells[i].run).status = "complete"
      BY <1>3, <1>4, RebuiltComplete
    <3>2. audit.rows[i] = Row(TRUE, {}, {})
      <4> HIDE DEF recorded, audit
      <4>1. audit.rows = [j \in recorded |-> Row(Rebuilt(p.cells[j].run).status = "complete", {}, {})]
        BY <2>1 DEF Audit
      <4> QED
        BY <1>2, <3>1, <4>1
    <3> QED
      BY <3>2 DEF Row
  <2> QED
    BY <1>2, <2>1, <2>2 DEF Audit
<1>5. CASE p.version = 2
  <2>1. require_v2_root(out)
    BY HonestEnds DEF require_v2_root, Left
  <2>2. audit = Audit([i \in recorded |-> audit_run_v2(p.cells[i])], FALSE)
    BY <1>2, <1>5, <2>1 DEF audit_pilot, AuditOf, audit_pilot_v2
  <2>3. ASSUME NEW i \in DOMAIN p.cells PROVE audit_run_v2(p.cells[i]).valid
    BY <1>3, <1>5, AuditOfSecond
  <2> HIDE DEF recorded, audit
  <2> QED
    BY <1>2, <2>2, <2>3 DEF Audit, audit
<1>6. CASE p.version \in 3..9
  <2>1. audit.status = "audited"
    BY <1>6, HonestAudited
  <2>2. /\ DOMAIN audit.rows = DOMAIN p.cells
        /\ \A i \in DOMAIN p.cells : audit.rows[i].valid <=> Confirms(p, p.cells[i])
    BY <1>6, <2>1, LaterAudits
  <2>3. \A i \in DOMAIN p.cells : Confirms(p, p.cells[i])
    BY <1>3 DEF Confirms
  <2> QED
    BY <2>1, <2>2, <2>3
<1> QED
  BY <1>1, <1>4, <1>5, <1>6

\* For all cohorts: if everybody did as told the pilot ends with results, its
\* audit confirms every one of them, and the cohort may ask for a larger one.
THEOREM HonestCohortsPass == Spec => []HonestCohortPasses
<1>1. ReviewInv => HonestCohortPasses
  <2> DEFINE p == question
             out == run_pilot(p)
  <2> SUFFICES ASSUME ReviewInv, Answered("audit"), Honest(p)
               PROVE  /\ out.left = "results" /\ out.ran = Len(p.cells)
                      /\ IF p.version = 7 THEN answer.status = "refused"
                         ELSE /\ answer.status = "audited"
                              /\ \A i \in DOMAIN answer.rows : answer.rows[i].valid
                              /\ p.version >= 6 => answer.eligible
    BY DEF HonestCohortPasses
  <2>1. IsPilot(p) /\ answer = audit_pilot(p, out) /\ p.version \in 1..9
    BY DEF ReviewInv, Answered, IsPilot
  <2>2. out.left = "results" /\ out.ran = Len(p.cells)
    BY <2>1, HonestEnds DEF Left
  <2>3. CASE p.version = 7
    BY <2>1, <2>2, <2>3, HonestAudited
  <2>4. CASE p.version # 7
    <3>1. /\ answer.status = "audited" /\ DOMAIN answer.rows = DOMAIN p.cells
          /\ \A i \in DOMAIN p.cells : answer.rows[i].valid
      BY <2>1, <2>4, HonestRows
    <3>2. ASSUME p.version >= 6 PROVE answer.eligible
      <4>1. Len(p.cells) = 8 /\ DOMAIN p.cells = 1..8
        <5>1. Len(p.cells) = 8 /\ p.cells \in Seq(Range(p.cells))
          BY <2>1, <3>2 DEF Honest, IsPilot, IsList
        <5> QED
          BY <5>1, LenProperties
      <4>2. p.version \in {6, 8, 9}
        BY <2>1, <2>4, <3>2
      <4> QED
        BY <2>1, <3>1, <4>1, <4>2, GatedAudits
    <3> QED
      BY <2>2, <2>4, <3>1, <3>2
  <2> QED
    BY <2>3, <2>4
<1> QED
  BY <1>1, ReviewAnswers, PTL
=============================================================================
