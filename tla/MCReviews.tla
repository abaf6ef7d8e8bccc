------------------------------ MODULE MCReviews ------------------------------
(***************************************************************************)
(* Small runs of the review adapter: streams of up to three steps of any   *)
(* kind, and runs as they are meant to be; pilots of two tasks.            *)
(***************************************************************************)
EXTENDS ReviewAudits

Task(v, e) ==
    [expects |-> IF e = "graph_delta" /\ v \in 1..3 THEN "unavailable" ELSE "available",
     evidence |-> IF v >= 4 THEN "content_delta" ELSE e, boundary |-> "available", located |-> TRUE]

\* what a branch-diff call returns
Diffs == {"good", "namesake", "elsewhere", "moved", "text", "drifted"}
DiffBody(task, b) ==
    [form |-> IF b = "text" THEN "text" ELSE "object", success |-> TRUE,
     refs |-> IF b = "moved" THEN "moved" ELSE "frozen",
     content |-> IF b = "drifted" THEN "unavailable" ELSE task.expects,
     provisioned |-> IF b = "namesake" THEN 2 ELSE 1,
     lists |-> {IF b \in {"namesake", "elsewhere"} THEN b ELSE "required"}]

\* the answer a version wants, and some it does not
Trusted(v, e) == v < 0 /\ e = "graph_delta"
WantedAnswer(v, c, e) ==
    [fields |-> IF v >= 0 THEN Fields(v) ELSE IF Trusted(v, e) THEN -2 ELSE -1,
     outcome |-> TRUE, loci |-> <<"required">>,
     boundary |-> IF v < 3 THEN Task(v, e).boundary
                  ELSE IF c = "treatment" THEN Task(v, e).expects ELSE "not_observed",
     trust |-> IF c = "baseline" \/ v > 2 THEN <<>>
               ELSE IF v >= 0 THEN <<1, Task(v, e).expects>>
               ELSE IF Trusted(v, e) THEN <<7>> ELSE <<>>]

Replies == {"right", "other locus", "other trust", "other boundary", "none"}
Reply(v, c, e, r) ==
    LET w == WantedAnswer(v, c, e)
    IN  CASE r = "right" -> w
          [] r = "other locus" -> [w EXCEPT !.loci = <<"other">>]
          [] r = "other trust" -> [w EXCEPT !.trust = <<2, "unavailable">>]
          [] r = "other boundary" ->
                 [w EXCEPT !.boundary = IF @ = "available" THEN "unavailable" ELSE "available"]
          [] r = "none" -> NoAnswer

\* a step of a stream, the i-th one's call with id i; a late call's response
\* comes after the answer
Plain == {"read", "foreign", "find", "diff", "structured"}
Step(i, v, c, e, s) ==
    LET use(t) == [type |-> "use", id |-> i, tool |-> t]
        out(b) == [type |-> "out", id |-> i, body |-> b]
        result(r) == [type |-> "result", answer |-> Reply(v, c, e, r)]
    IN  CASE s = "" -> <<>>
          [] s \in Plain -> <<use(s)>>
          [] s = "graph" -> <<use(s), out([success |-> TRUE, found |-> TRUE, resolution |-> 7])>>
          [] s \in Diffs -> <<use("diff"), out(DiffBody(Task(v, e), s))>>
          [] s = "late" -> <<use("diff"), result("right"), out(DiffBody(Task(v, e), "good"))>>
          [] s \in Replies -> <<result(s)>>

\* of at most six steps
Stream(v, c, e, steps) ==
    LET at(i) == IF i \in DOMAIN steps THEN Step(i, v, c, e, steps[i]) ELSE <<>>
    IN  at(1) \o at(2) \o at(3) \o at(4) \o at(5) \o at(6)

Orientation(v, c, e, defects, steps) ==
    [surface |-> v, contracts |-> IF v >= 1 THEN {v} ELSE {}, calibration |-> FALSE, ready |-> TRUE,
     condition |-> c, mutated |-> FALSE, failed |-> FALSE, labels |-> <<"m">>, assisted |-> v < 0,
     require_trust |-> Trusted(v, e), task |-> Task(v, e), defects |-> defects,
     stream |-> Stream(v, c, e, steps)]

Conditions == {"baseline", "treatment"}
Evidences == {"content_delta", "graph_delta"}

\* any two steps, and of some versions' treatments a third
Anything == {"", "read", "foreign", "diff", "graph"} \cup (Diffs \ {"drifted"}) \cup Replies
Wandering ==
    {Orientation(v, c, e, {}, <<s, t>>) :
        v \in {-1, 0, 2, 3, 4, 6, 9}, c \in Conditions, e \in Evidences, s \in Anything, t \in Anything}
WanderingOn ==
    {Orientation(v, "treatment", "content_delta", {}, <<s, t, u>>) :
        v \in {2, 3, 9}, s \in Anything, t \in Anything, u \in Anything}

\* as meant, with more or less reading, and with a response too late
Scripts ==
    {r \o <<b, "structured", "right">> :
        r \in {<<>>, <<"read">>, <<"read", "read">>, <<"read", "read", "read">>},
        b \in {"", "good", "namesake", "graph"}}
    \cup {<<"late">>, <<"good", "late">>}
AsMeant ==
    {Orientation(v, c, e, {}, s) : v \in -1..9, c \in Conditions, e \in Evidences, s \in Scripts}

\* a defect of the contract may show in what the tool returns
DefectScripts ==
    {<<"read", b, "structured", "right">> : b \in {"", "good", "drifted", "elsewhere"}}
Defective ==
    {Orientation(p.v, p.c, "content_delta", {p.d}, p.s) :
        p \in {p \in [v : 1..9, c : Conditions, d : Defects, s : DefectScripts] :
                  p.d \in Expressible(p.v)}}

\* one thing wrong with a run that is otherwise as meant
Spoils == {"mutated", "failed", "labels", "ready", "located", "no contract", "two contracts",
           "other contract", "calibration"}
Spoil(q, s) ==
    CASE s = "mutated" -> [q EXCEPT !.mutated = TRUE]
      [] s = "failed" -> [q EXCEPT !.failed = TRUE]
      [] s = "labels" -> [q EXCEPT !.labels = <<>>]
      [] s = "ready" -> [q EXCEPT !.ready = FALSE]
      [] s = "located" -> [q EXCEPT !.task.located = FALSE]
      [] s = "no contract" -> [q EXCEPT !.contracts = {}]
      [] s = "two contracts" -> [q EXCEPT !.contracts = {1, 3}]
      [] s = "other contract" -> [q EXCEPT !.contracts = {4}]
      [] s = "calibration" -> [q EXCEPT !.calibration = TRUE, !.contracts = {}]
Spoilt ==
    {Spoil(Orientation(v, c, "content_delta", {}, <<b, "right">>), s) :
        v \in -1..9, c \in Conditions, b \in {"", "good", "graph"}, s \in Spoils}

MCOrientations == {Wandering, WanderingOn, AsMeant, Defective, Spoilt}
-----------------------------------------------------------------------------
(* Pilots.                                                                 *)

Site == [exists |-> FALSE, repository |-> TRUE, commits |-> "here", visible |-> FALSE]

CellAsMeant(v, i) ==
    [site |-> Site, starts |-> TRUE, status |-> "clean", file |-> "read", warm |-> "reused",
     alike |-> TRUE,
     run |-> Orientation(v, ArmAt(i), "content_delta", {},
                         IF ArmAt(i) = "treatment" THEN <<"good", "right">> ELSE <<"read", "right">>)]

\* what may become of a cell's run
Courses == {<<"right">>, <<"good", "right">>, <<"none">>, <<"right", "none">>, <<"good", "right", "none">>,
            <<"right", "other locus">>, <<"good", "other locus">>, <<"good", "other boundary">>,
            <<"late">>, <<"good", "late">>, <<"drifted", "right">>, <<"good", "drifted", "right">>,
            <<"foreign", "good", "right">>, <<"good", "">>, <<"text", "right">>,
            <<"good", "read", "read", "read", "right">>, <<"good", "find", "right">>,
            <<"diff", "right">>}
Models == {<<>>, <<"">>, <<"n">>, <<"m", "n">>, <<"n", "m">>, <<"m", "m">>}

CellGoneAstray(v, i) ==
    LET c == CellAsMeant(v, i)
    IN  {[c EXCEPT !.run.stream = Stream(v, ArmAt(i), "content_delta", s)] : s \in Courses}
        \cup {[c EXCEPT !.run.labels = l] : l \in Models}
        \cup {[c EXCEPT !.run.defects = {d}] : d \in {"task", "empty", "leaks locus"}}
        \cup {[c EXCEPT !.run.mutated = TRUE], [c EXCEPT !.run.failed = TRUE], [c EXCEPT !.starts = FALSE],
              [c EXCEPT !.alike = FALSE], [c EXCEPT !.run.ready = FALSE], [c EXCEPT !.run.contracts = {}]}
        \cup {[c EXCEPT !.status = s] : s \in {"dirty", "failed", "raises"}}
        \cup {[c EXCEPT !.file = f] : f \in {"missing", "garbled"}}
        \cup {[c EXCEPT !.warm = w] : w \in {"rebuilt", "failed", "raises"}}
        \cup {[c EXCEPT !.site = s] : s \in {[Site EXCEPT !.exists = TRUE], [Site EXCEPT !.repository = FALSE],
                                            [Site EXCEPT !.commits = "origin"],
                                            [Site EXCEPT !.commits = "nowhere"],
                                            [Site EXCEPT !.visible = TRUE]}}

Preflight ==
    [asked |-> "m", specific |-> FALSE, version |-> TRUE, ended |-> TRUE,
     streams |-> <<<<"m">>, <<"m">>>>, alike |-> TRUE, untouched |-> TRUE]

Pilot(v, n) ==
    [version |-> v, fresh |-> TRUE, budget |-> TRUE, model |-> "m", prepared |-> TRUE, cut |-> 0,
     frozen |-> TRUE, audited |-> FALSE, preflight |-> Preflight,
     cells |-> [i \in 1..n |-> CellAsMeant(v, i)]]

\* one cell gone astray, the driver perhaps killed in the third
OneAstray ==
    UNION {{[Pilot(v, 8) EXCEPT !.cells[i] = c, !.cut = k] : c \in CellGoneAstray(v, i), k \in {0, 3}} :
              v \in 1..9, i \in {2, 4}}
\* every cell with the same labels
WithLabels(p, known, labels) ==
    [p EXCEPT !.preflight.streams = <<known, known>>,
              !.cells = [i \in DOMAIN @ |-> [@[i] EXCEPT !.run.labels = labels]]]
ManyModels ==
    {WithLabels(Pilot(v, 8), known, labels) : v \in 3..9, known \in Models \ {<<>>},
                                             labels \in Models \cup {<<"m", "n", "m">>}}

\* what the driver starts from
PilotSpoils == {"cut", "used", "budget", "model", "unprepared", "changed", "audited", "asked",
                "specific", "version", "ended", "unlike", "touched"}
SpoilPilot(p, s) ==
    CASE s = "cut" -> [p EXCEPT !.cut = 5]
      [] s = "used" -> [p EXCEPT !.fresh = FALSE]
      [] s = "budget" -> [p EXCEPT !.budget = FALSE]
      [] s = "model" -> [p EXCEPT !.model = "n", !.preflight.asked = "n"]
      [] s = "unprepared" -> [p EXCEPT !.prepared = FALSE]
      [] s = "changed" -> [p EXCEPT !.frozen = FALSE]
      [] s = "audited" -> [p EXCEPT !.audited = TRUE]
      [] s = "asked" -> [p EXCEPT !.preflight.asked = "n"]
      [] s = "specific" -> [p EXCEPT !.preflight.specific = TRUE]
      [] s = "version" -> [p EXCEPT !.preflight.version = FALSE]
      [] s = "ended" -> [p EXCEPT !.preflight.ended = FALSE]
      [] s = "unlike" -> [p EXCEPT !.preflight.alike = FALSE]
      [] s = "touched" -> [p EXCEPT !.preflight.untouched = FALSE]
SpoiltPilots == {SpoilPilot(Pilot(v, 8), s) : v \in 1..9, s \in PilotSpoils}

MCPilots == {OneAstray, ManyModels, SpoiltPilots}
=============================================================================
