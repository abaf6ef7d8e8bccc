----------------------------- MODULE ReviewRuns ------------------------------
(***************************************************************************)
(* One run of the adapter: which contract and schema the flags ask for,    *)
(* what the agent is told, and the packet its stream is judged by.         *)
(***************************************************************************)
EXTENDS Answering, ReviewPackets, ReviewContracts

CONSTANTS NavigationCap, Orientations

\* Orientations is a set of families of questions.
IsQuestion(q) ==
    /\ IsStream(q.stream) /\ IsList(q.labels) /\ q.surface \in -1..9 /\ q.contracts \subseteq 1..9
    /\ q.surface = 0 => q.task.expects = "available"
    /\ q.condition \in {"baseline", "treatment"}
    /\ {q.mutated, q.failed} \subseteq BOOLEAN

ASSUME ReviewAssumption ==
    /\ NavigationCap \in Nat /\ ToolCallBudget = NavigationCap + 1
    /\ \A family \in Orientations : \A q \in family : IsQuestion(q)
-----------------------------------------------------------------------------
(* The flags.                                                              *)

\* one contract, that of the surface; a calibration has none
Exclusive(q) ==
    /\ q.contracts # {} => q.contracts = {q.surface}
    /\ q.calibration => q.contracts = {} /\ q.surface = 9

\* the schema the answer must have; below 0 the plain ones
Schema(q) ==
    CASE q.contracts # {} -> Largest(q.contracts)
      [] q.contracts = {} /\ q.calibration -> 9
      [] q.contracts = {} /\ ~q.calibration ->
             IF q.surface >= 0 THEN 0 ELSE IF q.require_trust THEN -2 ELSE -1

\* what the instruction demands of an arm: to keep a call for the answer, to
\* use the tool, to copy what it said of itself, to state the boundary
MustCompare(condition) == IF condition = "treatment" THEN {"compare"} ELSE {}
append_mode_requirement(q) == IF q.assisted THEN {"cap", "navigate"} ELSE {}
append_temporal_protocol_requirement(c) == {"cap", "copy"} \cup MustCompare(c)
append_temporal_review_v3_requirement(c) == {"cap"} \cup MustCompare(c)
append_temporal_review_v4_requirement(c) == {"cap", "boundary"} \cup MustCompare(c)
append_temporal_review_v5_requirement(c) == {"boundary"} \cup MustCompare(c)
append_temporal_review_v6_requirement(c) == {"boundary"} \cup MustCompare(c)

\* Mutant: version 4 is told what version 5 is.
UncappedV4(q) ==
    append_mode_requirement(q) \cup
    (CASE q.contracts \cap 4..9 # {} \/ q.calibration -> append_temporal_review_v5_requirement(q.condition)
       [] q.contracts = {3} -> append_temporal_review_v3_requirement(q.condition)
       [] q.contracts \cap 3..9 = {} /\ ~q.calibration /\ q.surface >= 0 ->
              append_temporal_protocol_requirement(q.condition)
       [] q.surface < 0 -> {})

Demands(q) ==
    append_mode_requirement(q) \cup
    (CASE q.contracts \cap 6..9 # {} \/ q.calibration -> append_temporal_review_v6_requirement(q.condition)
       [] q.contracts = {5} -> append_temporal_review_v5_requirement(q.condition)
       [] q.contracts = {4} -> append_temporal_review_v4_requirement(q.condition)
       [] q.contracts = {3} -> append_temporal_review_v3_requirement(q.condition)
       [] q.contracts \cap 3..9 = {} /\ ~q.calibration /\ q.surface >= 0 ->
              append_temporal_protocol_requirement(q.condition)
       [] q.surface < 0 -> {})

Refuse == [status |-> "refused", hard |-> FALSE]

\* A review surface without its contract is noticed when the model has run.
run(q) ==
    IF ~q.ready \/ ~Exclusive(q) THEN Refuse
    ELSE IF q.contracts # {} /\ ~ContractLoads(q.surface, q.defects) THEN Refuse
    ELSE IF q.calibration THEN build_temporal_review_v9_calibration_packet(q)
    ELSE IF q.surface >= 1 /\ q.contracts = {} THEN [status |-> "wasted", hard |-> FALSE]
    ELSE Packet(q.surface, q)
-----------------------------------------------------------------------------
(* What a packet is worth.                                                 *)

\* the answer that is used: no later result has one
Used(q, j) == /\ q.stream[j].type = "result" /\ q.stream[j].answer # NoAnswer
              /\ \A k \in j + 1..Len(q.stream) :
                    q.stream[k].type = "result" => q.stream[k].answer = NoAnswer

\* what a branch-diff call of the agent brought
Brought(q) == {i \in DOMAIN q.stream : /\ q.stream[i].type = "out"
                                       /\ \E k \in DOMAIN q.stream :
                                             /\ q.stream[k].type = "use" /\ q.stream[k].tool = "diff"
                                             /\ q.stream[k].id = q.stream[i].id}

Good(q, b) == /\ b.form = "object" /\ b.success
              /\ IF q.surface = 0 THEN b.refs # "other" /\ b.content = "available"
                 ELSE b.refs = "frozen" /\ b.content = q.task.expects

\* A complete treatment packet stands on one comparison the tool returned: the
\* one whose trust or boundary the answer claims is the one that is of the
\* frozen commits, has the status the task expects, and shows the locus; from
\* version 3 on it came before the answer, as did all others, all good.
OneCallCertifies ==
    LET q == question
    IN  Answered("orientation") /\ answer.status = "complete" /\ ~q.calibration
        /\ q.condition = "treatment" /\ q.surface >= 0 =>
        \E i \in Brought(q) : \E j \in DOMAIN q.stream :
            LET b == q.stream[i].body
                a == q.stream[j].answer
            IN  /\ Used(q, j) /\ Good(q, b)
                /\ q.surface \in 0..2 => a.trust = <<b.provisioned, b.content>>
                /\ q.surface >= 2 => /\ b.lists \subseteq {"elsewhere"} => q.task.evidence # "content_delta"
                                     /\ b.lists # {}
                /\ q.surface >= 3 => /\ a.boundary = b.content
                                     /\ \A k \in Brought(q) : k < j /\ Good(q, q.stream[k].body)

\* what went wrong with the run, whatever was answered
Faulty(q) ==
    LET used == {k \in DOMAIN q.stream : q.stream[k].type = "use"}
        last == {j \in DOMAIN q.stream : Used(q, j)}
    IN  \/ q.mutated \/ q.failed
        \/ \E k \in used : q.stream[k].tool \in {"find", "graph", "foreign"}
        \/ q.surface <= 4 /\ Cardinality(used) > ToolCallBudget
        \/ q.surface >= 7 /\ ~LabelsValid(q.labels)
        \/ /\ q.condition = "treatment"
           /\ \/ Brought(q) = {}
              \/ \E k \in Brought(q) : ~Good(q, q.stream[k].body) \/ \E j \in last : k > j

\* From version 3 on the pilot stops at a fault of the protocol and at nothing
\* else: a wrong answer is a result, a fault is never counted as one.  Only a
\* run without an answer hides its other faults.
FaultsStopThePilot ==
    LET q == question
    IN  Answered("orientation") /\ q.surface >= 3 /\ q.contracts = {q.surface}
        /\ answer.status # "refused" /\ (\E j \in DOMAIN q.stream : Used(q, j)) =>
            /\ answer.hard <=> Faulty(q)
            /\ Faulty(q) => answer.status # "complete"

\* an agent that does as it is told, with tools that tell the truth
Navigation(q) == {k \in DOMAIN q.stream : q.stream[k].type = "use" /\ q.stream[k].tool # "structured"}

Truthful(q, b) ==
    /\ b.form = "object" /\ b.success /\ b.refs = "frozen"
    /\ (b.content = q.task.expects) <=> "drift" \notin q.defects
    /\ (b.lists = {"required"}) <=> "unsupported" \notin q.defects

Right(q, a) ==
    LET seen == {q.stream[i].body : i \in Brought(q)}
    IN  /\ a.fields = (CASE Schema(q) \in {-2, -1, 0, 1, 2} -> Schema(q)
                         [] Schema(q) = 3 -> 3 [] Schema(q) \in 4..5 -> 4
                         [] Schema(q) \in 6..9 -> 6)
        /\ a.outcome /\ a.loci = <<"required">>
        /\ a.boundary = (CASE q.surface < 3 -> q.task.boundary
                           [] q.surface >= 3 /\ q.condition = "baseline" -> "not_observed"
                           [] q.surface >= 3 /\ q.condition = "treatment" ->
                                  (CHOOSE b \in seen : TRUE).content)
        /\ q.surface \in 0..2 =>
              IF q.condition = "baseline" THEN a.trust = <<>>
              ELSE \E b \in seen : a.trust = <<b.provisioned, b.content>>
        /\ q.surface < 0 /\ q.require_trust =>
              IF q.condition = "baseline" THEN a.trust = <<>>
              ELSE a.trust \in {<<r>> : r \in Resolutions(q.stream)}

Obeys(q) ==
    LET n == Len(q.stream)
    IN  /\ ~q.mutated /\ ~q.failed /\ LabelsValid(q.labels)
        /\ {j \in DOMAIN q.stream : q.stream[j].type = "result"} = {n}
        /\ Cardinality({k \in DOMAIN q.stream : q.stream[k].type = "use"} \ Navigation(q)) <= 1
        /\ \A k \in Navigation(q) :
              q.stream[k].tool \in {"read"} \cup IF q.condition = "baseline" THEN {}
                                                 ELSE AllowedTools(q.surface)
        /\ "cap" \in Demands(q) => Cardinality(Navigation(q)) <= NavigationCap
        /\ "compare" \in Demands(q) => Brought(q) # {}
        /\ "navigate" \in Demands(q) /\ q.condition = "treatment" /\ q.surface < 0 =>
              RetrievalsAt(q.stream) # {}
        /\ \A i \in Brought(q) : Truthful(q, q.stream[i].body)
        /\ q.stream[n].answer # NoAnswer /\ Right(q, q.stream[n].answer)

\* The protocol can be followed: whoever does what the instruction, the schema
\* and the appended requirement say, with a tool that answers truthfully, gets
\* a complete packet - the cap leaves room in the budget, the requirement, the
\* schema and the oracle are of one version.  Before version 5 that takes a
\* contract without defects, from then on one that loads; no loader looks
\* whether the locus is in the checkout.
RightAgentCompletes ==
    LET q == question
    IN  /\ Answered("orientation") /\ q.ready /\ Exclusive(q) /\ ~q.calibration /\ q.task.located
        /\ q.surface >= 1 => q.contracts # {}
        /\ q.surface < 0 => q.assisted
        /\ IF q.surface >= 5 THEN ContractLoads(q.surface, q.defects) ELSE q.defects = {}
        /\ Obeys(q)
        => answer.status = "complete"
=============================================================================
