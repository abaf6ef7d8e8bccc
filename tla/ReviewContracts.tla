--------------------------- MODULE ReviewContracts ---------------------------
(***************************************************************************)
(* The contracts of the temporal reviews: per version a frozen manifest of *)
(* tasks, an instruction per task and, from version 4 on, the raw diffs    *)
(* the tasks were selected by.  Each loader refuses what it checks for; a  *)
(* contract is the set of its defects, and what a loader lets pass is what *)
(* it does not look at.  A checkout is materialised from a repository.     *)
(***************************************************************************)
EXTENDS Integers, FiniteSets

\* of the manifest, its tasks, the recorded selection, and the instruction
ManifestDefects ==
    {"identity", "lineage", "runtime", "calibration", "schema", "exclusion missing",
     "exclusion added", "order"}
TaskDefects ==
    {"task", "refs", "backend", "status", "status unknown", "reason", "arms' boundary",
     "no locus", "evidence", "file moved"}
SelectionDefects == {"preflight", "digest", "frozen", "reused", "raw refs", "drift", "unsupported"}
InstructionDefects == {"empty", "leaks oracle", "leaks sha", "leaks locus", "no surface", "escapes"}

Defects == ManifestDefects \cup TaskDefects \cup SelectionDefects \cup InstructionDefects
-----------------------------------------------------------------------------
(* What the manifests' and tasks' validators refuse.                       *)

validate_task_v1 ==
    {"task", "file moved", "refs", "backend", "status unknown", "reason", "no locus"}
validate_temporal_review_manifest ==
    {"identity", "schema", "exclusion missing", "order"} \cup validate_task_v1

\* no status, no exclusions
validate_task_v2 == {"task", "refs", "backend", "no locus", "evidence"}
validate_manifest_v2 == {"identity", "schema", "order"} \cup validate_task_v2

\* the boundary of either arm follows from the status; any evidence will do
validate_task_v3 == {"task", "refs", "backend", "status unknown", "arms' boundary", "no locus"}
validate_manifest_v3 ==
    {"identity", "schema", "exclusion missing", "exclusion added", "order"} \cup validate_task_v3

\* one comparison only, an available one between codeindex snapshots
validate_task_v4 ==
    {"task", "refs", "backend", "status", "status unknown", "reason", "arms' boundary", "no locus",
     "evidence"}
selection_preflight_v4 == {"preflight", "digest"}
validate_manifest_v4 ==
    {"identity", "schema", "exclusion missing", "exclusion added", "order", "frozen"}
    \cup selection_preflight_v4 \cup validate_task_v4

validate_task_v5 ==
    {"task", "refs", "backend", "status", "status unknown", "reason", "arms' boundary", "no locus",
     "evidence"}
validate_selection_raw_v5 == {"raw refs", "drift", "unsupported"}
selection_preflight_v5 == {"preflight", "digest", "reused"} \cup validate_selection_raw_v5
validate_manifest_v5 ==
    {"identity", "lineage", "schema", "exclusion missing", "exclusion added", "order", "frozen"}
    \cup selection_preflight_v5 \cup validate_task_v5

validate_task_v6 == validate_task_v5
validate_selection_artifact_v6 == {"digest", "reused", "raw refs", "drift", "unsupported"}
selection_preflight_v6 == {"preflight"} \cup validate_selection_artifact_v6
validate_manifest_v6 ==
    {"identity", "lineage", "schema", "exclusion missing", "exclusion added", "order", "frozen"}
    \cup selection_preflight_v6 \cup validate_task_v6

validate_task_v7 == validate_task_v6
validate_selection_artifact_v7 == validate_selection_artifact_v6
selection_preflight_v7 == {"preflight"} \cup validate_selection_artifact_v7
validate_manifest_v7 ==
    {"identity", "lineage", "schema", "exclusion missing", "exclusion added", "order", "frozen"}
    \cup selection_preflight_v7 \cup validate_task_v7

\* and how a run's model is to be identified
validate_task_v8 == validate_task_v7
validate_selection_artifact_v8 == validate_selection_artifact_v7
selection_preflight_v8 == {"preflight"} \cup validate_selection_artifact_v8
validate_manifest_v8 ==
    {"identity", "lineage", "runtime", "schema", "exclusion missing", "exclusion added", "order",
     "frozen"} \cup selection_preflight_v8 \cup validate_task_v8

\* and how the runtime is calibrated before the pilot
validate_task_v9 == validate_task_v8
validate_selection_artifact_v9 == validate_selection_artifact_v8
selection_preflight_v9 == {"preflight"} \cup validate_selection_artifact_v9
validate_manifest_v9 ==
    {"identity", "lineage", "runtime", "calibration", "schema", "exclusion missing",
     "exclusion added", "order", "frozen"} \cup selection_preflight_v9 \cup validate_task_v9

Refused(v) ==
    CASE v = 1 -> validate_temporal_review_manifest [] v = 2 -> validate_manifest_v2
      [] v = 3 -> validate_manifest_v3 [] v = 4 -> validate_manifest_v4
      [] v = 5 -> validate_manifest_v5 [] v = 6 -> validate_manifest_v6
      [] v = 7 -> validate_manifest_v7 [] v = 8 -> validate_manifest_v8
      [] v = 9 -> validate_manifest_v9

ContractLoads(v, defects) == defects \cap Refused(v) = {}

\* What a version's contract cannot have: nobody wrote it down.
Expressible(v) ==
    CASE v < 1 -> {}
      [] v \in 1..3 -> Defects \ (SelectionDefects \cup {"lineage", "runtime", "calibration"})
      [] v = 4 -> Defects \ {"lineage", "runtime", "calibration"}
      [] v \in 5..7 -> Defects \ {"runtime", "calibration"}
      [] v = 8 -> Defects \ {"calibration"}
      [] v = 9 -> Defects

-----------------------------------------------------------------------------
(* What the instructions' loaders refuse; they load the contract first.    *)

validate_instruction_v1 == {"empty", "leaks oracle", "leaks sha", "leaks locus", "no surface"}
load_temporal_review_instruction == {"escapes"} \cup validate_instruction_v1
load_instruction_v2 == {"escapes", "empty", "leaks oracle", "leaks sha", "no surface"}
load_instruction_v3 == load_instruction_v2 \cup {"leaks locus"}
load_instruction_v4 == {"escapes", "empty", "leaks oracle", "leaks sha", "leaks locus", "no surface"}
load_instruction_v5 == load_instruction_v4
load_instruction_v6 == load_instruction_v5
load_instruction_v7 == load_instruction_v6
load_instruction_v8 == load_instruction_v7
load_instruction_v9 == load_instruction_v8

RefusedInstructions(v) ==
    CASE v = 1 -> load_temporal_review_instruction [] v = 2 -> load_instruction_v2
      [] v = 3 -> load_instruction_v3 [] v = 4 -> load_instruction_v4
      [] v = 5 -> load_instruction_v5 [] v = 6 -> load_instruction_v6
      [] v = 7 -> load_instruction_v7 [] v = 8 -> load_instruction_v8
      [] v = 9 -> load_instruction_v9

InstructionLoads(v, defects) ==
    ContractLoads(v, defects) /\ defects \cap RefusedInstructions(v) = {}
-----------------------------------------------------------------------------
(* A checkout of the frozen head commit, with the oracle's files hidden.   *)

\* The frozen commits are in the repository itself, or at its origin.
ensure_frozen_history_v1(site) == site.commits \in {"here", "origin"}
ensure_frozen_history_v2(site) == ensure_frozen_history_v1(site)
ensure_history(site) == site.commits \in {"here", "origin"}

\* Version 1 looks for the files it knows, the later ones for those that the
\* manifest excludes.
OracleHidden(v, defects, site) ==
    site.visible => v > 1 /\ "exclusion missing" \in defects

\* What has been cloned stays when a later step fails, and is in the way of
\* the next attempt.
Checkout(loads, site, finishes) ==
    IF ~loads \/ site.exists \/ ~site.repository THEN "refused"
    ELSE IF finishes THEN "ready" ELSE "stranded"

materialize_v1(defects, site) ==
    Checkout(ContractLoads(1, defects), site,
             ensure_frozen_history_v1(site) /\ OracleHidden(1, defects, site))
materialize_v2(defects, site) ==
    Checkout(ContractLoads(2, defects), site,
             ensure_frozen_history_v2(site) /\ OracleHidden(2, defects, site))
materialize_v3(defects, site) ==
    Checkout(ContractLoads(3, defects), site,
             ensure_history(site) /\ OracleHidden(3, defects, site))
materialize_v4(defects, site) ==
    Checkout(ContractLoads(4, defects), site,
             ensure_history(site) /\ OracleHidden(4, defects, site))
materialize_v5(defects, site) ==
    Checkout(ContractLoads(5, defects), site,
             ensure_history(site) /\ OracleHidden(5, defects, site))
materialize_v6(defects, site) ==
    Checkout(ContractLoads(6, defects), site,
             ensure_history(site) /\ OracleHidden(6, defects, site))
materialize_v7(defects, site) ==
    Checkout(ContractLoads(7, defects), site,
             ensure_history(site) /\ OracleHidden(7, defects, site))
materialize_v8(defects, site) ==
    Checkout(ContractLoads(8, defects), site,
             ensure_history(site) /\ OracleHidden(8, defects, site))
materialize_v9(defects, site) ==
    Checkout(ContractLoads(9, defects), site,
             ensure_history(site) /\ OracleHidden(9, defects, site))

Materialized(v, defects, site) ==
    CASE v = 1 -> materialize_v1(defects, site) [] v = 2 -> materialize_v2(defects, site)
      [] v = 3 -> materialize_v3(defects, site) [] v = 4 -> materialize_v4(defects, site)
      [] v = 5 -> materialize_v5(defects, site) [] v = 6 -> materialize_v6(defects, site)
      [] v = 7 -> materialize_v7(defects, site) [] v = 8 -> materialize_v8(defects, site)
      [] v = 9 -> materialize_v9(defects, site)
=============================================================================
