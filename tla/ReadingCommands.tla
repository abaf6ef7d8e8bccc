--------------------------- MODULE ReadingCommands ---------------------------
(***************************************************************************)
(* Every command that only reads, side by side: what it may be asked, and  *)
(* one action per command, which answers with what Analyses, ReviewRuns    *)
(* and ReviewAudits compute.                                               *)
(***************************************************************************)
EXTENDS Analyses, ReviewAudits

(* On what a store or git has.                                             *)

AnalysisAsked ==
    \/ cmd \in {"branch-diff", "compare"} /\ question \in Snapshots \X Snapshots
    \/ cmd = "codegraph-diff" /\ question \in Databases \X Databases
    \/ cmd = "impact" /\ question \in Impacts
    \/ cmd = "changed" /\ question \in Edits
    \/ cmd = "graph" /\ question \in Walks
    \/ cmd = "deps" /\ question \in Layouts
    \/ cmd = "topology" /\ question \in Topologies
    \/ cmd = "git-metrics" /\ question \in Logs
    \/ cmd = "debt" /\ question \in Debts

BranchDiffCommand == Answer("branch-diff", Diff(question[1], question[2]))

CompareCommand == Answer("compare", Compare(question[1], question[2]))

\* branch-diff of two workspaces that `index --backend codegraph` filled
CodegraphDiffCommand ==
    Answer("codegraph-diff", Diff(SnapshotOf(question[1]), SnapshotOf(question[2])))

ImpactCommand == Answer("impact", Impact(question))

ChangedCommand == Answer("changed", ChangedSymbols(question))

GraphCommand ==
    Answer("graph", GraphQuery(question.edges, question.methods, question.start,
                               question.depth, question.include_unresolved))

DepsCommand ==
    Answer("deps", Deps(question.dir, question.inside, question.rels, question.depth))

TopologyCommand ==
    LET q == question
    IN  Answer("topology",
               [server |-> ServerTopology(q.kind, q.edges, q.hub, q.god),
                client |-> ClientTopology(q.kind, q.init, q.edges, q.hub, q.god)])

GitMetricsCommand ==
    Answer("git-metrics", [f \in question.paths |-> ChangeFrequency(question.log, f)])

DebtCommand == Answer("debt", [score |-> TotalScore(question), grade |-> Grade(question)])

AnalysisStep ==
    \/ BranchDiffCommand \/ CompareCommand \/ CodegraphDiffCommand
    \/ ImpactCommand \/ ChangedCommand \/ GraphCommand \/ DepsCommand
    \/ TopologyCommand \/ GitMetricsCommand \/ DebtCommand
-----------------------------------------------------------------------------
(* On the evaluations: a run of an agent, a pilot, the audit of its files.  *)

ReviewAsked == cmd = "orientation" /\ \E family \in Orientations : question \in family

PilotAsked == cmd \in {"pilot", "audit"} /\ \E family \in Pilots : question \in family

OrientationCommand == Answer("orientation", run(question))

PilotCommand == Answer("pilot", run_pilot(question))
AuditCommand == Answer("audit", audit_pilot(question, run_pilot(question)))
-----------------------------------------------------------------------------

Init ==
    /\ AnalysisAsked \/ ReviewAsked \/ PilotAsked
    /\ answer = Unanswered

Next == AnalysisStep \/ OrientationCommand \/ PilotCommand \/ AuditCommand

Spec == Init /\ [][Next]_vars
=============================================================================
