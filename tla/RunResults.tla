----------------------------- MODULE RunResults -----------------------------
(***************************************************************************)
(* The shape of a RunResult (runners/completion_runner.py) as far as the   *)
(* rest of the harness tells results apart: the exit status that reports   *)
(* and regression checks filter on, the secondary scores that become rows  *)
(* of score_details, and whether the JSON line is longer than one write of *)
(* the file buffer.  TaskExecution produces results of this shape; CliRun  *)
(* stores them.                                                            *)
(***************************************************************************)
CONSTANT Scorers        \* the names in the scorer registry

Statuses == {"success", "error"}

\* The kinds of task CompletionRunner.run tells apart by task["code_type"].
TaskKinds == {"text", "function_completion", "patch_generation"}

IsCode(kind) == kind # "text"

(***************************************************************************)
(* What the storage layer may rely on about the result of a task: only a   *)
(* successful text task has secondary scores that are dictionaries, the    *)
(* ones save_score_details turns into rows.                                *)
(***************************************************************************)
Results(kind) ==
  { r \in [status : Statuses, details : SUBSET Scorers] :
      r.details # {} => r.status = "success" /\ ~IsCode(kind) }
=============================================================================
