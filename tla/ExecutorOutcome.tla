-------------------------- MODULE ExecutorOutcome --------------------------
(***************************************************************************)
(* The results an execution hands to the policies of a task.  DebateLoop   *)
(* and SubtaskFanout are shown to produce only these; TaskRun assumes it.  *)
(***************************************************************************)

ExecutorStatuses == {"pending", "running", "blocked", "completed", "failed"}

(* Classes of failure_kind: a kind of RETRYABLE_FAILURE_KINDS, any other   *)
(* kind, and the two kinds that hand the task to a human.                  *)
FailureKinds == {"none", "retryable", "blocking", "budget_exhausted", "debate"}

ExecutorResult == [status    : ExecutorStatuses,
                   kind      : FailureKinds,
                   exhausted : BOOLEAN]

(* How the debate loop and the subtask fan-out may end; the fan-out sets   *)
(* the flag for a spent budget too.                                        *)
Outcomes ==
  {[status |-> "completed", kind |-> "none", exhausted |-> FALSE],
   [status |-> "failed", kind |-> "debate", exhausted |-> TRUE],
   [status |-> "failed", kind |-> "budget_exhausted", exhausted |-> TRUE]}
  \cup {[status |-> "failed", kind |-> k, exhausted |-> FALSE] :
          k \in {"retryable", "blocking", "budget_exhausted"}}

=============================================================================
