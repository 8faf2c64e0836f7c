--------------------------- MODULE TaskRunProofs ---------------------------
EXTENDS TaskRun, SequenceTheorems, TLAPS

(* The records the policies compute are of the types the files hold. *)
LEMMA StopTypes ==
  \A a \in Nat, result \in ExecutorResult : \A retry :
    evaluate_stop_policy(a, result, retry)
      \in [attempt : Nat, continue_allowed : BOOLEAN,
           checkpoint_kind : {"pending", "completed_run_review",
                              "retry_review", "blocking_failure_review"}]
  BY DEF evaluate_stop_policy

(* A handoff record of any result and checks fits its file. *)
LEMMA HandoffTypes ==
  \A a \in Nat, result \in ExecutorResult, checks \in Checks :
    build_handoff_record(a, result, checks)
      \in [attempt : Nat, status : Handoffs,
           executor_status : ExecutorStatuses, kind : FailureKinds]
  BY DEF build_handoff_record, ExecutorResult, Handoffs

(* What an execution returns is an executor result. *)
LEMMA OutcomeTypes == Outcomes \subseteq ExecutorResult
  <1>1. ASSUME NEW s \in {"completed", "failed"}, NEW k \in FailureKinds, NEW x \in BOOLEAN
        PROVE  [status |-> s, kind |-> k, exhausted |-> x] \in ExecutorResult
    BY DEF ExecutorResult, ExecutorStatuses
  <1>. QED BY <1>1 DEF Outcomes, FailureKinds

(* The status and lifecycle a run ends with are known ones. *)
LEMMA FinalTypes ==
  \A result \in ExecutorResult, checks \in Checks :
    FinalState(result, checks)
      \in [status : Terminal, lifecycle : {"waiting_human", "completed", "failed"}]
  BY DEF FinalState, classify_task_terminal_state, Terminal

(* A checkpoint snapshot fits its file. *)
LEMMA SnapshotTypes ==
  \A a \in Nat : \A status, handoff, retry, stop :
    evaluate_checkpoint_snapshot(a, status, handoff, retry, stop)
      \in [attempt : Nat, resume_ready : BOOLEAN, path : Paths]
  BY DEF evaluate_checkpoint_snapshot, Paths

(* A step that moves one runner, and a step that also saves its state. *)
LEMMA GotoTypes ==
  ASSUME TypeOK, NEW r \in Runners, NEW here, NEW next \in Steps, goto(r, here, next)
  PROVE  pc' \in [Runners -> Steps]
  BY DEF TypeOK, goto

(* save_state keeps the persisted and the held state typed. *)
LEMMA SaveTypes ==
  ASSUME TypeOK, NEW r \in Runners, NEW s \in TaskState, save_state(r, s)
  PROVE  store' \in TaskState /\ mem' \in [Runners -> TaskState]
  BY DEF TypeOK, save_state

(* An appended event keeps the log typed. *)
LEMMA EventTypes1 ==
  ASSUME TypeOK, NEW r \in Runners, NEW type \in EventTypes, append_event(r, type)
  PROVE  log' \in Seq(Events)
  <1>1. mem[r].attempt \in Nat
    BY DEF TypeOK, TaskState
  <1>. QED BY <1>1 DEF TypeOK, append_event, Events

(* A command starts with a typed context. *)
LEMMA CommandContextTypes ==
  \A via \in {"none", "run", "retry", "resume", "rerun"}, reset \in BOOLEAN,
     skip \in SkipPhases :
    [via |-> via, reset |-> reset, skip |-> skip, multi |-> FALSE,
     reused |-> FALSE, items |-> NoRefs, result |-> NoResult,
     checks |-> NoChecks] \in Context
  <1>1. NoResult \in ExecutorResult /\ NoChecks \in Checks
    BY DEF NoResult, NoChecks, ExecutorResult, Checks, ExecutorStatuses, FailureKinds
  <1>. QED BY <1>1 DEF Context, MaybeRefs

(* The initial state is typed. *)
LEMMA TypeInit == Init => TypeOK
  <1>. SUFFICES ASSUME Init PROVE TypeOK
    OBVIOUS
  <1>1. create_task \in TaskState
    BY DEF create_task, TaskState, Statuses, Phases, Lifecycles, ExecutorStatuses,
           ExecutionPhases, DispatchStatuses, MaybeRefs
  <1>2. NoFiles \in Files
    BY DEF NoFiles, Files, MaybeRefs, Handoffs, Paths, ExecutorStatuses, FailureKinds
  <1>3. ctx \in [Runners -> Context]
    BY CommandContextTypes DEF Init, SkipPhases
  <1>4. pc \in [Runners -> Steps]
    BY DEF Init, Steps
  <1>5. log \in Seq(Events) /\ crashes \in Nat
    BY DEF Init
  <1>6. store \in TaskState /\ mem \in [Runners -> TaskState] /\ files \in Files
    BY <1>1, <1>2 DEF Init
  <1>. QED BY <1>3, <1>4, <1>5, <1>6 DEF TypeOK

(* A command keeps the types. *)
LEMMA TypeCommand ==
  ASSUME TypeOK, NEW r \in Runners, Command(r)
  PROVE  TypeOK'
  <1>1. ASSUME NEW via \in {"run", "retry", "resume", "rerun"},
               NEW reset \in BOOLEAN, NEW skip \in SkipPhases,
               run_task_command(r, via, reset, skip)
        PROVE  TypeOK'
    BY <1>1, CommandContextTypes DEF TypeOK, run_task_command, Steps
  <1>2. is_acknowledged_dispatch_reentry \in BOOLEAN
    BY DEF is_acknowledged_dispatch_reentry
  <1>3. CASE Run(r)
    BY <1>1, <1>3 DEF Run, SkipPhases
  <1>4. CASE resume_task_command(r)
    BY <1>1, <1>4 DEF resume_task_command, SkipPhases
  <1>5. CASE \E skip \in SkipPhases : retry_task_command(r, skip)
    <2>1. PICK skip \in SkipPhases :
            run_task_command(r, "retry", ~is_acknowledged_dispatch_reentry, skip)
      BY <1>5 DEF retry_task_command
    <2>. QED BY <1>1, <1>2, <2>1
  <1>6. CASE \E skip \in SkipPhases : rerun_task_command(r, skip)
    BY <1>1, <1>6 DEF rerun_task_command
  <1>. QED BY <1>3, <1>4, <1>5, <1>6 DEF Command

(* Every step of run_task_async keeps the types. *)
LEMMA TypeStep ==
  ASSUME TypeOK, NEW r \in Runners, Step(r)
  PROVE  TypeOK'
  <1>m. mem[r] \in TaskState /\ ctx[r] \in Context /\ store \in TaskState /\ files \in Files
    BY DEF TypeOK
  <1>e. /\ {"running", "dispatch_blocked"} \subseteq Statuses
        /\ {"running", "blocked"} \subseteq ExecutorStatuses
        /\ {"intake", "dispatch", "retrieval", "executing", "summarize"} \subseteq Phases
        /\ {"prepared", "blocked", "dispatched", "reused"} \subseteq Lifecycles
        /\ {"planned", "blocked", "dispatched"} \subseteq DispatchStatuses
        /\ {"pending", "retrieval_done", "execution_done", "analysis_done"}
             \subseteq ExecutionPhases
    BY DEF Statuses, ExecutorStatuses, Phases, Lifecycles, DispatchStatuses, ExecutionPhases
  <1>1. CASE load_state(r)
    <2>1. [store EXCEPT !.grounding_refs = NoRefs, !.grounding_locked = FALSE] \in TaskState
      BY <1>m DEF TaskState, MaybeRefs
    <2>2. pc' \in [Runners -> Steps]
      BY <1>1, GotoTypes DEF load_state, Steps
    <2>3. mem' \in [Runners -> TaskState]
      BY <1>1, <1>m, <2>1 DEF load_state, TypeOK
    <2>. QED BY <1>1, <2>2, <2>3 DEF TypeOK, load_state
  <1>2. CASE begin_execution_attempt(r)
    <2>1. [mem[r] EXCEPT !.attempt = @ + 1, !.lifecycle = "prepared",
                         !.dispatch = "planned", !.executor_status = "running",
                         !.status = "running", !.phase = "intake",
                         !.execution_phase = "pending"] \in TaskState
      <3>. DEFINE opened == [mem[r] EXCEPT !.attempt = @ + 1, !.lifecycle = "prepared",
                                           !.dispatch = "planned"]
      <3>1. opened \in TaskState
        <4>1. mem[r].attempt \in Nat
          BY <1>m DEF TaskState
        <4>2. \A n \in Nat : [mem[r] EXCEPT !.attempt = n, !.lifecycle = "prepared",
                                            !.dispatch = "planned"] \in TaskState
          BY <1>m, <1>e DEF TaskState
        <4>3. mem[r].attempt + 1 \in Nat
          BY <4>1
        <4>. QED BY <4>2, <4>3
      <3>2. [opened EXCEPT !.executor_status = "running", !.status = "running",
                           !.phase = "intake", !.execution_phase = "pending"] \in TaskState
        <4>. HIDE DEF opened
        <4>. QED BY <3>1, <1>e DEF TaskState
      <3>. QED BY <3>2
    <2>2. pc' \in [Runners -> Steps]
      BY <1>2, GotoTypes DEF begin_execution_attempt, Steps
    <2>3. store' \in TaskState /\ mem' \in [Runners -> TaskState]
      BY <1>2, <2>1, SaveTypes DEF begin_execution_attempt
    <2>. QED BY <1>2, <2>2, <2>3 DEF TypeOK, begin_execution_attempt
  <1>3. CASE RunStarted(r)
    <2>1. pc' \in [Runners -> Steps]
      BY <1>3, GotoTypes DEF RunStarted, Steps
    <2>2. log' \in Seq(Events)
      BY <1>3, EventTypes1 DEF RunStarted, EventTypes
    <2>. QED BY <1>3, <2>1, <2>2 DEF TypeOK, RunStarted
  <1>4. CASE apply_blocked_dispatch_verdict(r)
    <2>1. [mem[r] EXCEPT !.dispatch = "blocked", !.lifecycle = "blocked",
                         !.executor_status = "blocked", !.status = "dispatch_blocked",
                         !.phase = "dispatch"] \in TaskState
      BY <1>m, <1>e DEF TaskState
    <2>2. pc' \in [Runners -> Steps]
      BY <1>4, GotoTypes DEF apply_blocked_dispatch_verdict, Steps
    <2>3. store' \in TaskState /\ mem' \in [Runners -> TaskState]
      BY <1>4, <2>1, SaveTypes DEF apply_blocked_dispatch_verdict
    <2>. QED BY <1>4, <2>2, <2>3 DEF TypeOK, apply_blocked_dispatch_verdict
  <1>5. CASE DispatchBlockedEvent(r)
    <2>1. pc' \in [Runners -> Steps]
      BY <1>5, GotoTypes DEF DispatchBlockedEvent, Steps
    <2>2. log' \in Seq(Events)
      BY <1>5, EventTypes1 DEF DispatchBlockedEvent, EventTypes
    <2>. QED BY <1>5, <2>1, <2>2 DEF TypeOK, DispatchBlockedEvent
  <1>6. CASE EnterRetrieval(r)
    <2>1. [mem[r] EXCEPT !.phase = "retrieval"] \in TaskState
      BY <1>m, <1>e DEF TaskState
    <2>2. pc' \in [Runners -> Steps]
      BY <1>6, GotoTypes DEF EnterRetrieval, Steps
    <2>3. store' \in TaskState /\ mem' \in [Runners -> TaskState]
      BY <1>6, <2>1, SaveTypes DEF EnterRetrieval
    <2>4. ctx' \in [Runners -> Context]
      <3>1. \A multi \in BOOLEAN : [ctx[r] EXCEPT !.multi = multi] \in Context
        BY <1>m DEF Context
      <3>. QED BY <1>6, <3>1 DEF EnterRetrieval, TypeOK
    <2>. QED BY <1>6, <2>2, <2>3, <2>4 DEF TypeOK, EnterRetrieval
  <1>7. CASE run_retrieval(r)
    <2>1. pc' \in [Runners -> Steps]
      BY <1>7, GotoTypes DEF run_retrieval, Steps
    <2>2. \A items \in MaybeRefs : [ctx[r] EXCEPT !.items = items] \in Context
      BY <1>m DEF Context
    <2>3. \A items \in MaybeRefs : [files EXCEPT !.retrieval = items] \in Files
      BY <1>m DEF Files
    <2>4. files.retrieval \in MaybeRefs /\ Refs \subseteq MaybeRefs
      BY <1>m DEF Files, MaybeRefs
    <2>5. ctx' \in [Runners -> Context] /\ files' \in Files
      BY <1>7, <2>2, <2>3, <2>4 DEF run_retrieval, TypeOK
    <2>. QED BY <1>7, <2>1, <2>5 DEF TypeOK, run_retrieval
  <1>8. CASE resolve_grounding_state(r)
    <2>1. \A refs \in MaybeRefs :
            [mem[r] EXCEPT !.grounding_refs = refs, !.grounding_locked = TRUE,
                           !.execution_phase = "retrieval_done"] \in TaskState
      BY <1>m, <1>e DEF TaskState
    <2>2. pc' \in [Runners -> Steps]
      BY <1>8, GotoTypes DEF resolve_grounding_state, Steps
    <2>3. files.evidence \in MaybeRefs /\ ctx[r].items \in MaybeRefs
      BY <1>m DEF Files, Context
    <2>4. store' \in TaskState /\ mem' \in [Runners -> TaskState]
      BY <1>8, <2>1, <2>3, SaveTypes DEF resolve_grounding_state
    <2>. QED BY <1>8, <2>2, <2>4 DEF TypeOK, resolve_grounding_state
  <1>9. CASE ReuseExecution(r)
    <2>. DEFINE result == load_previous_executor_result(r)
    <2>1. result \in ExecutorResult
      BY <1>m DEF load_previous_executor_result, ExecutorResult, TaskState, Files
    <2>2. [mem[r] EXCEPT !.lifecycle = "reused", !.executor_status = result.status,
                         !.phase = "executing", !.execution_phase = "execution_done"]
            \in TaskState
      <3>1. result.status \in ExecutorStatuses
        BY <2>1 DEF ExecutorResult
      <3>. HIDE DEF result
      <3>. QED BY <1>m, <1>e, <3>1 DEF TaskState
    <2>3. [ctx[r] EXCEPT !.result = result, !.reused = TRUE] \in Context
      <3>. HIDE DEF result
      <3>. QED BY <1>m, <2>1 DEF Context
    <2>. HIDE DEF result
    <2>a. /\ goto(r, "dispatch", "executed")
          /\ ctx' = [ctx EXCEPT ![r].result = result, ![r].reused = TRUE]
          /\ save_state(r, [mem[r] EXCEPT !.lifecycle = "reused",
                                          !.executor_status = result.status,
                                          !.phase = "executing",
                                          !.execution_phase = "execution_done"])
          /\ UNCHANGED <<files, log, crashes>>
      BY <1>9 DEF ReuseExecution, result
    <2>4. pc' \in [Runners -> Steps]
      BY <2>a, GotoTypes DEF Steps
    <2>5. store' \in TaskState /\ mem' \in [Runners -> TaskState]
      BY <2>a, <2>2, SaveTypes
    <2>6. ctx' \in [Runners -> Context]
      BY <2>a, <2>3 DEF TypeOK
    <2>. QED BY <2>a, <2>4, <2>5, <2>6 DEF TypeOK
  <1>10. CASE DispatchExecution(r)
    <2>1. [mem[r] EXCEPT !.dispatch = "dispatched", !.lifecycle = "dispatched",
                         !.phase = "executing"] \in TaskState
      BY <1>m, <1>e DEF TaskState
    <2>2. pc' \in [Runners -> Steps]
      BY <1>10, GotoTypes DEF DispatchExecution, Steps
    <2>3. store' \in TaskState /\ mem' \in [Runners -> TaskState]
      BY <1>10, <2>1, SaveTypes DEF DispatchExecution
    <2>. QED BY <1>10, <2>2, <2>3 DEF TypeOK, DispatchExecution
  <1>11. CASE Execute(r)
    <2>1. PICK result \in Outcomes :
            /\ ctx' = [ctx EXCEPT ![r].result = result]
            /\ save_state(r, [mem[r] EXCEPT !.executor_status = result.status,
                                            !.execution_phase = "execution_done"])
      BY <1>11 DEF Execute
    <2>2. result \in ExecutorResult
      BY OutcomeTypes
    <2>3. [mem[r] EXCEPT !.executor_status = result.status,
                         !.execution_phase = "execution_done"] \in TaskState
      <3>1. result.status \in ExecutorStatuses
        BY <2>2 DEF ExecutorResult
      <3>. QED BY <1>m, <1>e, <3>1 DEF TaskState
    <2>4. pc' \in [Runners -> Steps]
      BY <1>11, GotoTypes DEF Execute, Steps
    <2>5. store' \in TaskState /\ mem' \in [Runners -> TaskState]
      BY <2>1, <2>3, SaveTypes
    <2>6. ctx' \in [Runners -> Context]
      <3>1. [ctx[r] EXCEPT !.result = result] \in Context
        BY <1>m, <2>2 DEF Context
      <3>. QED BY <2>1, <3>1 DEF TypeOK
    <2>. QED BY <1>11, <2>4, <2>5, <2>6 DEF TypeOK, Execute
  <1>20. CASE StopOnBudget(r)
    <2>1. PICK result \in Outcomes :
            /\ ctx' = [ctx EXCEPT ![r].result = result]
            /\ save_state(r, [mem[r] EXCEPT !.executor_status = result.status,
                                            !.execution_phase = "execution_done"])
      BY <1>20 DEF StopOnBudget, Outcomes
    <2>2. result \in ExecutorResult
      BY OutcomeTypes
    <2>3. [mem[r] EXCEPT !.executor_status = result.status,
                         !.execution_phase = "execution_done"] \in TaskState
      <3>1. result.status \in ExecutorStatuses
        BY <2>2 DEF ExecutorResult
      <3>. QED BY <1>m, <1>e, <3>1 DEF TaskState
    <2>4. pc' \in [Runners -> Steps]
      BY <1>20, GotoTypes DEF StopOnBudget, Steps
    <2>5. store' \in TaskState /\ mem' \in [Runners -> TaskState]
      BY <2>1, <2>3, SaveTypes
    <2>6. ctx' \in [Runners -> Context]
      <3>1. [ctx[r] EXCEPT !.result = result] \in Context
        BY <1>m, <2>2 DEF Context
      <3>. QED BY <2>1, <3>1 DEF TypeOK
    <2>. QED BY <1>20, <2>4, <2>5, <2>6 DEF TypeOK, StopOnBudget
  <1>21. CASE WriteExecutorOutput(r)
    <2>1. pc' \in [Runners -> Steps]
      BY <1>21, GotoTypes DEF WriteExecutorOutput, Steps
    <2>2. files' \in Files
      BY <1>m, <1>21 DEF WriteExecutorOutput, Files
    <2>. QED BY <1>21, <2>1, <2>2 DEF TypeOK, WriteExecutorOutput
  <1>12. CASE Summarize(r)
    <2>1. [mem[r] EXCEPT !.phase = "summarize", !.execution_phase = "analysis_done"] \in TaskState
      BY <1>m, <1>e DEF TaskState
    <2>2. pc' \in [Runners -> Steps]
      BY <1>12, GotoTypes DEF Summarize, Steps
    <2>3. store' \in TaskState /\ mem' \in [Runners -> TaskState]
      BY <1>12, <2>1, SaveTypes DEF Summarize
    <2>. QED BY <1>12, <2>2, <2>3 DEF TypeOK, Summarize
  <1>13. CASE WriteGroundingEvidence(r)
    <2>1. pc' \in [Runners -> Steps]
      BY <1>13, GotoTypes DEF WriteGroundingEvidence, Steps
    <2>2. files' \in Files
      <3>1. mem[r].grounding_refs \in MaybeRefs
        BY <1>m DEF TaskState
      <3>. QED BY <1>m, <1>13, <3>1 DEF WriteGroundingEvidence, Files
    <2>. QED BY <1>13, <2>1, <2>2 DEF TypeOK, WriteGroundingEvidence
  <1>t. mem[r].attempt \in Nat /\ ctx[r].result \in ExecutorResult /\ ctx[r].checks \in Checks
    BY <1>m DEF TaskState, Context
  <1>14. CASE write_retry_policy_artifacts(r)
    <2>1. PICK checks \in Checks :
            /\ ctx' = [ctx EXCEPT ![r].checks = checks]
            /\ files' = [files EXCEPT !.retry =
                 evaluate_retry_policy(mem[r].attempt, ctx[r].result, checks)]
      BY <1>14 DEF write_retry_policy_artifacts
    <2>2. pc' \in [Runners -> Steps]
      BY <1>14, GotoTypes DEF write_retry_policy_artifacts, Steps
    <2>3. evaluate_retry_policy(mem[r].attempt, ctx[r].result, checks)
            \in [attempt : Nat, retryable : BOOLEAN]
      BY <1>t DEF evaluate_retry_policy
    <2>4. files' \in Files
      BY <1>m, <2>1, <2>3 DEF Files
    <2>5. ctx' \in [Runners -> Context]
      <3>1. [ctx[r] EXCEPT !.checks = checks] \in Context
        BY <1>m DEF Context
      <3>. QED BY <2>1, <3>1 DEF TypeOK
    <2>. QED BY <1>14, <2>2, <2>4, <2>5 DEF TypeOK, write_retry_policy_artifacts
  <1>15. CASE write_stop_policy_artifacts(r)
    <2>. DEFINE record == evaluate_stop_policy(mem[r].attempt, ctx[r].result,
           evaluate_retry_policy(mem[r].attempt, ctx[r].result, ctx[r].checks))
    <2>1. record \in [attempt : Nat, continue_allowed : BOOLEAN,
                     checkpoint_kind : {"pending", "completed_run_review",
                                        "retry_review", "blocking_failure_review"}]
      BY <1>t, StopTypes
    <2>2. pc' \in [Runners -> Steps]
      BY <1>15, GotoTypes DEF write_stop_policy_artifacts, Steps
    <2>3. files' = [files EXCEPT !.stop = record]
      BY <1>15 DEF write_stop_policy_artifacts
    <2>. HIDE DEF record
    <2>4. files' \in Files
      BY <1>m, <2>1, <2>3 DEF Files
    <2>. QED BY <1>15, <2>2, <2>4 DEF TypeOK, write_stop_policy_artifacts
  <1>16. CASE save_handoff(r)
    <2>. DEFINE record == build_handoff_record(mem[r].attempt, ctx[r].result, ctx[r].checks)
    <2>1. record \in [attempt : Nat, status : Handoffs,
                     executor_status : ExecutorStatuses, kind : FailureKinds]
      BY <1>t, HandoffTypes
    <2>2. pc' \in [Runners -> Steps]
      BY <1>16, GotoTypes DEF save_handoff, Steps
    <2>3. files' = [files EXCEPT !.handoff = record]
      BY <1>16 DEF save_handoff
    <2>. HIDE DEF record
    <2>4. files' \in Files
      BY <1>m, <2>1, <2>3 DEF Files
    <2>. QED BY <1>16, <2>2, <2>4 DEF TypeOK, save_handoff
  <1>17. CASE write_checkpoint_snapshot_artifacts(r)
    <2>. DEFINE record == evaluate_checkpoint_snapshot(
           mem[r].attempt, FinalState(ctx[r].result, ctx[r].checks).status,
           build_handoff_record(mem[r].attempt, ctx[r].result, ctx[r].checks),
           evaluate_retry_policy(mem[r].attempt, ctx[r].result, ctx[r].checks),
           evaluate_stop_policy(mem[r].attempt, ctx[r].result,
             evaluate_retry_policy(mem[r].attempt, ctx[r].result, ctx[r].checks)))
    <2>1. record \in [attempt : Nat, resume_ready : BOOLEAN, path : Paths]
      BY <1>t, SnapshotTypes
    <2>2. pc' \in [Runners -> Steps]
      BY <1>17, GotoTypes DEF write_checkpoint_snapshot_artifacts, Steps
    <2>3. files' = [files EXCEPT !.snapshot = record]
      BY <1>17 DEF write_checkpoint_snapshot_artifacts
    <2>. HIDE DEF record
    <2>4. files' \in Files
      BY <1>m, <2>1, <2>3 DEF Files
    <2>. QED BY <1>17, <2>2, <2>4 DEF TypeOK, write_checkpoint_snapshot_artifacts
  <1>18. CASE SaveFinalState(r)
    <2>. DEFINE final == FinalState(ctx[r].result, ctx[r].checks)
                phase == IF manual_intervention_required(ctx[r].result)
                         THEN "waiting_human" ELSE mem[r].phase
                saved == [mem[r] EXCEPT !.status = final.status,
                                        !.lifecycle = final.lifecycle, !.phase = phase]
    <2>1. final.status \in Statuses /\ final.lifecycle \in Lifecycles
      BY <1>t, FinalTypes DEF Statuses, Lifecycles
    <2>2. phase \in Phases
      BY <1>m DEF TaskState, Phases
    <2>3. saved \in TaskState
      <3>. HIDE DEF final, phase
      <3>. QED BY <1>m, <2>1, <2>2 DEF TaskState
    <2>4. pc' \in [Runners -> Steps]
      BY <1>18, GotoTypes DEF SaveFinalState, Steps
    <2>5. save_state(r, saved)
      BY <1>18 DEF SaveFinalState
    <2>. HIDE DEF saved
    <2>6. store' \in TaskState /\ mem' \in [Runners -> TaskState]
      BY <2>3, <2>5, SaveTypes
    <2>. QED BY <1>18, <2>4, <2>6 DEF TypeOK, SaveFinalState
  <1>19. CASE FinalEvent(r)
    <2>1. pc' \in [Runners -> Steps]
      BY <1>19, GotoTypes DEF FinalEvent, Steps
    <2>2. log' \in Seq(Events)
      BY <1>19, EventTypes1 DEF FinalEvent, EventTypes, ClosingEvent
    <2>. QED BY <1>19, <2>1, <2>2 DEF TypeOK, FinalEvent
  <1>. QED BY <1>1, <1>2, <1>3, <1>4, <1>5, <1>6, <1>7, <1>8, <1>9, <1>10, <1>11,
              <1>12, <1>13, <1>14, <1>15, <1>16, <1>17, <1>18, <1>19, <1>20, <1>21 DEF Step

(* acknowledge_task keeps the types. *)
LEMMA TypeAcknowledge ==
  ASSUME TypeOK, acknowledge_task
  PROVE  TypeOK'
  <1>1. store' \in TaskState
    <2>1. /\ "running" \in Statuses /\ "retrieval" \in Phases /\ "prepared" \in Lifecycles
          /\ "pending" \in ExecutorStatuses /\ "acknowledged" \in DispatchStatuses
      BY DEF Statuses, Phases, Lifecycles, ExecutorStatuses, DispatchStatuses
    <2>. QED BY <2>1 DEF TypeOK, acknowledge_task, TaskState
  <1>2. log' \in Seq(Events)
    <2>1. store.attempt \in Nat
      BY DEF TypeOK, TaskState
    <2>. QED BY <2>1 DEF TypeOK, acknowledge_task, EventTypes, Events
  <1>. QED BY <1>1, <1>2 DEF TypeOK, acknowledge_task

(* A crash keeps the types. *)
LEMMA TypeCrash ==
  ASSUME TypeOK, NEW r \in Runners, Crash(r)
  PROVE  TypeOK'
  BY BoundsAssumption DEF TypeOK, Crash, Steps

(* TypeOK is inductive. *)
LEMMA TypeNext == TypeOK /\ [Next]_vars => TypeOK'
  <1>. SUFFICES ASSUME TypeOK, [Next]_vars PROVE TypeOK'
    OBVIOUS
  <1>1. CASE UNCHANGED vars
    BY <1>1 DEF TypeOK, vars
  <1>2. CASE acknowledge_task
    BY <1>2, TypeAcknowledge
  <1>3. ASSUME NEW r \in Runners, Command(r) \/ Step(r) \/ Crash(r) PROVE TypeOK'
    BY <1>3, TypeCommand, TypeStep, TypeCrash
  <1>. QED BY <1>1, <1>2, <1>3 DEF Next

(* The persisted task, the records on disk and every runner's state keep   *)
(* their types whatever the commands, crashes and interleavings.           *)
THEOREM TypeCorrect == Spec => []TypeOK
  BY TypeInit, TypeNext, PTL DEF Spec

-----------------------------------------------------------------------------
(***************************************************************************)
(* One command at a time.  The inductive invariant: at most one runner is  *)
(* active; once its run has begun, the state it holds is the persisted one *)
(* and says "running" until the final save; the records it has written so  *)
(* far are the ones its result and checks determine; and a settled task    *)
(* keeps the records of the result that settled it.                        *)
(***************************************************************************)

Begun == Steps \ {"idle", "admitted", "loaded"}
InRun == Begun \ {"blocked", "finished"}

(* The records of one attempt, as a function of its result and checks. *)
RetryOf(a, result, checks) == evaluate_retry_policy(a, result, checks)
StopOf(a, result, checks) == evaluate_stop_policy(a, result, RetryOf(a, result, checks))
HandoffOf(a, result, checks) == build_handoff_record(a, result, checks)
SnapshotOf(a, result, checks) ==
  evaluate_checkpoint_snapshot(a, FinalState(result, checks).status,
    HandoffOf(a, result, checks), RetryOf(a, result, checks), StopOf(a, result, checks))

(* A debate that ran out of rounds has its own failure kind. *)
Results == {result \in ExecutorResult :
              result.exhausted => result.kind \in {"debate", "budget_exhausted"}}

OneRunner == \A r, q \in Runners : pc[r] # "idle" /\ pc[q] # "idle" => r = q

RunnerInv(r) ==
  /\ pc[r] = "loaded" => mem[r].attempt = store.attempt
  /\ pc[r] \in Begun => mem[r] = store
  /\ pc[r] \in InRun => store.status = "running"
  /\ pc[r] = "blocked" => store.status = "dispatch_blocked"
  /\ pc[r] \in InRun \cup {"admitted", "loaded"} => ctx[r].result \in Results
  /\ pc[r] \in {"stop_policy", "handoff", "snapshot", "finish"} =>
       files.retry = RetryOf(store.attempt, ctx[r].result, ctx[r].checks)
  /\ pc[r] \in {"handoff", "snapshot", "finish"} =>
       files.stop = StopOf(store.attempt, ctx[r].result, ctx[r].checks)
  /\ pc[r] \in {"snapshot", "finish"} =>
       files.handoff = HandoffOf(store.attempt, ctx[r].result, ctx[r].checks)
  /\ pc[r] = "finish" =>
       files.snapshot = SnapshotOf(store.attempt, ctx[r].result, ctx[r].checks)
  /\ pc[r] = "begun" =>
       \A i \in DOMAIN log :
         log[i].type = "task.run_started" => log[i].attempt < store.attempt

AttemptCounts == store.status # "created" => store.attempt > 0

LogBounded == \A i \in DOMAIN log : log[i].attempt <= store.attempt

SettledByResult ==
  store.status \in Terminal =>
    \E result \in Results, checks \in Checks :
      /\ store.status = FinalState(result, checks).status
      /\ files.retry = RetryOf(store.attempt, result, checks)
      /\ files.stop = StopOf(store.attempt, result, checks)
      /\ files.handoff = HandoffOf(store.attempt, result, checks)
      /\ files.snapshot = SnapshotOf(store.attempt, result, checks)

SerialInv == /\ TypeOK
             /\ OneRunner
             /\ \A r \in Runners : RunnerInv(r)
             /\ AttemptCounts
             /\ LogBounded
             /\ AttemptIdentifiesRun
             /\ SettledByResult

(* Length and elements of a log with one more event. *)
LEMMA AppendFacts ==
  ASSUME NEW s \in Seq(Events), NEW e
  PROVE  /\ DOMAIN Append(s, e) = DOMAIN s \cup {Len(s) + 1}
         /\ \A i \in DOMAIN s : Append(s, e)[i] = s[i]
         /\ Append(s, e)[Len(s) + 1] = e
         /\ \A i \in DOMAIN s : s[i].attempt \in Nat
         /\ Len(s) + 1 \notin DOMAIN s
  <1>1. Len(s) \in Nat /\ DOMAIN s = 1 .. Len(s) /\ s \in [1 .. Len(s) -> Events]
    BY LenProperties
  <1>2. \A i \in DOMAIN s : s[i].attempt \in Nat
    BY <1>1 DEF Events
  <1>. QED BY <1>1, <1>2

(* How the sets of steps named above lie in each other. *)
LEMMA StepSets ==
  /\ InRun = {"begun", "started", "retrieval", "grounding", "dispatch", "executing",
              "output", "executed", "evidence", "retry_policy", "stop_policy", "handoff",
              "snapshot", "finish"}
  /\ Begun = InRun \cup {"blocked", "finished"}
  BY DEF InRun, Begun, Steps

(* RunnerInv says nothing of an idle runner. *)
LEMMA IdleRunner ==
  ASSUME NEW r \in Runners, pc'[r] = "idle"
  PROVE  RunnerInv(r)'
  BY StepSets DEF RunnerInv

(* A step of the one active runner leaves it the only one. *)
LEMMA SerialGoto ==
  ASSUME TypeOK, OneRunner, NEW r \in Runners, NEW here, NEW next, here # "idle",
         goto(r, here, next)
  PROVE  /\ OneRunner'
         /\ pc[r] = here /\ pc'[r] = next
         /\ \A q \in Runners : q # r => pc'[q] = "idle"
  BY DEF TypeOK, OneRunner, goto

(* A step of the active runner preserves the invariant if it re-establishes *)
(* the part about that runner and the parts about the log and the status.   *)
LEMMA SerialStep ==
  ASSUME SerialInv, TypeOK', NEW r \in Runners, NEW here, NEW next, here # "idle",
         goto(r, here, next), RunnerInv(r)', AttemptCounts', LogBounded',
         AttemptIdentifiesRun', SettledByResult'
  PROVE  SerialInv'
  <1>1. OneRunner' /\ \A q \in Runners : q # r => pc'[q] = "idle"
    BY SerialGoto DEF SerialInv
  <1>2. \A q \in Runners : RunnerInv(q)'
    BY <1>1, IdleRunner
  <1>. QED BY <1>1, <1>2 DEF SerialInv

(* Most steps change neither the status, the attempt nor the log. *)
LEMMA SilentStep ==
  ASSUME SerialInv, TypeOK', NEW r \in Runners, NEW here \in InRun, NEW next,
         goto(r, here, next), log' = log,
         store'.status = store.status, store'.attempt = store.attempt,
         RunnerInv(r)'
  PROVE  SerialInv'
  <1>1. here # "idle" /\ pc[r] = here
    BY StepSets DEF goto
  <1>2. store.status = "running"
    BY <1>1 DEF SerialInv, RunnerInv
  <1>3. SettledByResult'
    BY <1>2 DEF SettledByResult, Terminal
  <1>4. AttemptCounts' /\ LogBounded' /\ AttemptIdentifiesRun'
    BY DEF SerialInv, AttemptCounts, LogBounded, AttemptIdentifiesRun
  <1>. QED BY <1>1, <1>3, <1>4, SerialStep

(* load_state: the attempt held is the persisted one. *)
LEMMA SerialLoad ==
  ASSUME SerialInv, TypeOK', NEW r \in Runners, load_state(r)
  PROVE  SerialInv'
  <1>1. pc[r] = "admitted" /\ pc'[r] = "loaded"
    BY SerialGoto DEF SerialInv, load_state
  <1>2. mem'[r].attempt = store.attempt
    BY DEF SerialInv, TypeOK, load_state, TaskState
  <1>3. RunnerInv(r)'
    <2>1. ctx[r].result \in Results
      BY <1>1 DEF SerialInv, RunnerInv
    <2>. QED BY <1>1, <1>2, <2>1, StepSets DEF RunnerInv, load_state
  <1>4. AttemptCounts' /\ LogBounded' /\ AttemptIdentifiesRun' /\ SettledByResult'
    BY DEF SerialInv, load_state, AttemptCounts, LogBounded, AttemptIdentifiesRun,
           SettledByResult
  <1>. QED BY <1>3, <1>4, SerialStep DEF load_state

(* begin_execution_attempt: the new attempt is above every logged one. *)
LEMMA SerialBegin ==
  ASSUME SerialInv, TypeOK', NEW r \in Runners, begin_execution_attempt(r)
  PROVE  SerialInv'
  <1>1. pc[r] = "loaded" /\ pc'[r] = "begun"
    BY SerialGoto DEF SerialInv, begin_execution_attempt
  <1>t. /\ mem[r] \in TaskState /\ mem \in [Runners -> TaskState]
        /\ store.attempt \in Nat
        /\ log \in Seq(Events)
    BY DEF SerialInv, TypeOK, TaskState
  <1>2. mem[r].attempt = store.attempt
    BY <1>1 DEF SerialInv, RunnerInv
  <1>3. store'.attempt = store.attempt + 1 /\ store'.status = "running"
    <2>1. store' = [mem[r] EXCEPT !.attempt = mem[r].attempt + 1, !.lifecycle = "prepared",
                                  !.dispatch = "planned", !.executor_status = "running",
                                  !.status = "running", !.phase = "intake",
                                  !.execution_phase = "pending"]
      BY DEF begin_execution_attempt, save_state
    <2>. QED BY <1>t, <1>2, <2>1 DEF TaskState
  <1>4. mem'[r] = store' /\ log' = log /\ ctx' = ctx
    BY <1>t DEF begin_execution_attempt, save_state
  <1>5. \A i \in DOMAIN log : log[i].attempt \in Nat /\ log[i].attempt <= store.attempt
    <2>1. \A i \in DOMAIN log : log[i].attempt \in Nat
      BY <1>t, AppendFacts
    <2>. QED BY <2>1 DEF SerialInv, LogBounded
  <1>6. RunnerInv(r)'
    <2>1. ctx[r].result \in Results
      BY <1>1 DEF SerialInv, RunnerInv
    <2>. QED BY <1>1, <1>t, <1>3, <1>4, <1>5, <2>1, StepSets DEF RunnerInv
  <1>7. AttemptCounts' /\ LogBounded'
    BY <1>t, <1>3, <1>4, <1>5 DEF AttemptCounts, LogBounded
  <1>8. AttemptIdentifiesRun' /\ SettledByResult'
    BY <1>3, <1>4 DEF SerialInv, AttemptIdentifiesRun, SettledByResult, Terminal
  <1>. QED BY <1>6, <1>7, <1>8, SerialStep DEF begin_execution_attempt

(* RunStarted: the logged attempt is new, so the log stays distinct. *)
LEMMA SerialRunStarted ==
  ASSUME SerialInv, TypeOK', NEW r \in Runners, RunStarted(r)
  PROVE  SerialInv'
  <1>1. pc[r] = "begun" /\ pc'[r] = "started"
    BY SerialGoto DEF SerialInv, RunStarted
  <1>2. /\ mem[r] = store /\ store.status = "running" /\ ctx[r].result \in Results
        /\ \A i \in DOMAIN log :
             log[i].type = "task.run_started" => log[i].attempt < store.attempt
    BY <1>1, StepSets DEF SerialInv, RunnerInv
  <1>3. /\ log \in Seq(Events) /\ store.attempt \in Nat
        /\ log' = Append(log, [type |-> "task.run_started", attempt |-> store.attempt])
    BY <1>2 DEF SerialInv, TypeOK, TaskState, RunStarted, append_event
  <1>4. /\ DOMAIN log' = DOMAIN log \cup {Len(log) + 1}
        /\ \A i \in DOMAIN log : log'[i] = log[i]
        /\ log'[Len(log) + 1] = [type |-> "task.run_started", attempt |-> store.attempt]
        /\ \A i \in DOMAIN log : log[i].attempt \in Nat
    BY <1>3, AppendFacts
  <1>5. RunnerInv(r)'
    BY <1>1, <1>2, StepSets DEF RunnerInv, RunStarted
  <1>6. AttemptCounts' /\ SettledByResult'
    BY DEF SerialInv, RunStarted, AttemptCounts, SettledByResult
  <1>7. LogBounded'
    BY <1>3, <1>4 DEF SerialInv, LogBounded, RunStarted
  <1>8. AttemptIdentifiesRun'
    <2>1. SUFFICES ASSUME NEW i \in DOMAIN log', NEW j \in DOMAIN log', i # j,
                          log'[i].type = "task.run_started", log'[j].type = "task.run_started"
                   PROVE  log'[i].attempt # log'[j].attempt
      BY DEF AttemptIdentifiesRun
    <2>2. CASE i \in DOMAIN log /\ j \in DOMAIN log
      BY <2>1, <2>2, <1>4 DEF SerialInv, AttemptIdentifiesRun
    <2>3. CASE i \in DOMAIN log /\ j = Len(log) + 1
      <3>1. log[i].attempt < store.attempt /\ log[i].attempt \in Nat
        BY <2>1, <2>3, <1>2, <1>4
      <3>. QED BY <3>1, <2>3, <1>3, <1>4
    <2>4. CASE j \in DOMAIN log /\ i = Len(log) + 1
      <3>1. log[j].attempt < store.attempt /\ log[j].attempt \in Nat
        BY <2>1, <2>4, <1>2, <1>4
      <3>. QED BY <3>1, <2>4, <1>3, <1>4
    <2>. QED BY <2>1, <2>2, <2>3, <2>4, <1>4
  <1>. QED BY <1>5, <1>6, <1>7, <1>8, SerialStep DEF RunStarted

(* An event that closes or blocks the attempt, and the operator's            *)
(* acknowledgement, add no run_started.                                      *)
LEMMA OtherEvent ==
  ASSUME SerialInv, NEW e, log' = Append(log, e), e.type # "task.run_started",
         e.attempt = store.attempt, store'.attempt = store.attempt
  PROVE  LogBounded' /\ AttemptIdentifiesRun'
  <1>1. log \in Seq(Events) /\ store.attempt \in Nat
    BY DEF SerialInv, TypeOK, TaskState
  <1>2. /\ DOMAIN log' = DOMAIN log \cup {Len(log) + 1}
        /\ \A i \in DOMAIN log : log'[i] = log[i]
        /\ log'[Len(log) + 1] = e
        /\ \A i \in DOMAIN log : log[i].attempt \in Nat
    BY <1>1, AppendFacts
  <1>3. LogBounded'
    BY <1>1, <1>2 DEF SerialInv, LogBounded
  <1>4. AttemptIdentifiesRun'
    BY <1>2 DEF SerialInv, AttemptIdentifiesRun
  <1>. QED BY <1>3, <1>4

(* apply_blocked_dispatch_verdict leaves the terminal statuses alone. *)
LEMMA SerialBlocked ==
  ASSUME SerialInv, TypeOK', NEW r \in Runners, apply_blocked_dispatch_verdict(r)
  PROVE  SerialInv'
  <1>1. pc[r] = "started" /\ pc'[r] = "blocked"
    BY SerialGoto DEF SerialInv, apply_blocked_dispatch_verdict
  <1>2. mem[r] = store /\ store \in TaskState /\ mem \in [Runners -> TaskState]
        /\ store.status = "running"
    BY <1>1, StepSets DEF SerialInv, RunnerInv, TypeOK
  <1>3. /\ store'.status = "dispatch_blocked" /\ store'.attempt = store.attempt
        /\ mem'[r] = store'
    BY <1>2 DEF apply_blocked_dispatch_verdict, save_state, TaskState
  <1>4. RunnerInv(r)'
    BY <1>1, <1>3, StepSets DEF RunnerInv
  <1>5. LogBounded' /\ AttemptIdentifiesRun' /\ AttemptCounts' /\ SettledByResult'
    BY <1>2, <1>3 DEF SerialInv, apply_blocked_dispatch_verdict, LogBounded,
       AttemptIdentifiesRun, AttemptCounts, SettledByResult, Terminal
  <1>. QED BY <1>4, <1>5, SerialStep DEF apply_blocked_dispatch_verdict

(* The blocked event is no run_started. *)
LEMMA SerialBlockedEvent ==
  ASSUME SerialInv, TypeOK', NEW r \in Runners, DispatchBlockedEvent(r)
  PROVE  SerialInv'
  <1>1. pc[r] = "blocked" /\ pc'[r] = "idle"
    BY SerialGoto DEF SerialInv, DispatchBlockedEvent
  <1>2. mem[r] = store
    BY <1>1, StepSets DEF SerialInv, RunnerInv
  <1>3. LogBounded' /\ AttemptIdentifiesRun'
    BY <1>2, OtherEvent DEF DispatchBlockedEvent, append_event, EventTypes
  <1>4. AttemptCounts' /\ SettledByResult'
    BY DEF SerialInv, DispatchBlockedEvent, AttemptCounts, SettledByResult
  <1>. QED BY <1>1, <1>3, <1>4, IdleRunner, SerialStep DEF DispatchBlockedEvent

(* EnterRetrieval stays within the run. *)
LEMMA SerialEnterRetrieval ==
  ASSUME SerialInv, TypeOK', NEW r \in Runners, EnterRetrieval(r)
  PROVE  SerialInv'
  <1>1. pc[r] = "started" /\ pc'[r] = "retrieval"
    BY SerialGoto DEF SerialInv, EnterRetrieval
  <1>2. mem[r] = store /\ store \in TaskState /\ mem \in [Runners -> TaskState]
    BY <1>1, StepSets DEF SerialInv, RunnerInv, TypeOK
  <1>3. /\ store'.status = store.status /\ store'.attempt = store.attempt
        /\ mem'[r] = store'
    BY <1>2 DEF EnterRetrieval, save_state, TaskState
  <1>5. ctx[r].result \in Results /\ store.status = "running"
    BY <1>1, StepSets DEF SerialInv, RunnerInv
  <1>6. ctx'[r].result = ctx[r].result
    BY DEF SerialInv, TypeOK, Context, EnterRetrieval
  <1>4. RunnerInv(r)'
    BY <1>1, <1>3, <1>5, <1>6, StepSets DEF RunnerInv
  <1>. QED BY <1>1, <1>3, <1>4, SilentStep, StepSets DEF EnterRetrieval

(* run_retrieval touches no policy record. *)
LEMMA SerialRetrieval ==
  ASSUME SerialInv, TypeOK', NEW r \in Runners, run_retrieval(r)
  PROVE  SerialInv'
  <1>1. pc[r] = "retrieval" /\ pc'[r] = "grounding"
    BY SerialGoto DEF SerialInv, run_retrieval
  <1>2. mem[r] = store /\ store \in TaskState /\ mem \in [Runners -> TaskState]
    BY <1>1, StepSets DEF SerialInv, RunnerInv, TypeOK
  <1>3. store'.status = store.status /\ store'.attempt = store.attempt /\ mem'[r] = store'
    BY <1>2 DEF run_retrieval
  <1>5. ctx[r].result \in Results /\ store.status = "running"
    BY <1>1, StepSets DEF SerialInv, RunnerInv
  <1>6. ctx'[r].result = ctx[r].result
    BY DEF SerialInv, TypeOK, Context, run_retrieval
  <1>4. RunnerInv(r)'
    BY <1>1, <1>3, <1>5, <1>6, StepSets DEF RunnerInv
  <1>. QED BY <1>1, <1>3, <1>4, SilentStep, StepSets DEF run_retrieval

(* resolve_grounding_state stays within the run. *)
LEMMA SerialGrounding ==
  ASSUME SerialInv, TypeOK', NEW r \in Runners, resolve_grounding_state(r)
  PROVE  SerialInv'
  <1>1. pc[r] = "grounding" /\ pc'[r] = "dispatch"
    BY SerialGoto DEF SerialInv, resolve_grounding_state
  <1>2. mem[r] = store /\ store \in TaskState /\ mem \in [Runners -> TaskState]
    BY <1>1, StepSets DEF SerialInv, RunnerInv, TypeOK
  <1>3. /\ store'.status = store.status /\ store'.attempt = store.attempt
        /\ mem'[r] = store'
    BY <1>2 DEF resolve_grounding_state, save_state, TaskState
  <1>5. ctx[r].result \in Results /\ store.status = "running"
    BY <1>1, StepSets DEF SerialInv, RunnerInv
  <1>4. RunnerInv(r)'
    BY <1>1, <1>3, <1>5, StepSets DEF RunnerInv, resolve_grounding_state
  <1>. QED BY <1>1, <1>3, <1>4, SilentStep, StepSets DEF resolve_grounding_state

(* DispatchExecution stays within the run. *)
LEMMA SerialDispatch ==
  ASSUME SerialInv, TypeOK', NEW r \in Runners, DispatchExecution(r)
  PROVE  SerialInv'
  <1>1. pc[r] = "dispatch" /\ pc'[r] = "executing"
    BY SerialGoto DEF SerialInv, DispatchExecution
  <1>2. mem[r] = store /\ store \in TaskState /\ mem \in [Runners -> TaskState]
    BY <1>1, StepSets DEF SerialInv, RunnerInv, TypeOK
  <1>3. /\ store'.status = store.status /\ store'.attempt = store.attempt
        /\ mem'[r] = store'
    BY <1>2 DEF DispatchExecution, save_state, TaskState
  <1>5. ctx[r].result \in Results /\ store.status = "running"
    BY <1>1, StepSets DEF SerialInv, RunnerInv
  <1>4. RunnerInv(r)'
    BY <1>1, <1>3, <1>5, StepSets DEF RunnerInv, DispatchExecution
  <1>. QED BY <1>1, <1>3, <1>4, SilentStep, StepSets DEF DispatchExecution

(* Summarize stays within the run. *)
LEMMA SerialSummarize ==
  ASSUME SerialInv, TypeOK', NEW r \in Runners, Summarize(r)
  PROVE  SerialInv'
  <1>1. pc[r] = "executed" /\ pc'[r] = "evidence"
    BY SerialGoto DEF SerialInv, Summarize
  <1>2. mem[r] = store /\ store \in TaskState /\ mem \in [Runners -> TaskState]
    BY <1>1, StepSets DEF SerialInv, RunnerInv, TypeOK
  <1>3. /\ store'.status = store.status /\ store'.attempt = store.attempt
        /\ mem'[r] = store'
    BY <1>2 DEF Summarize, save_state, TaskState
  <1>5. ctx[r].result \in Results /\ store.status = "running"
    BY <1>1, StepSets DEF SerialInv, RunnerInv
  <1>4. RunnerInv(r)'
    BY <1>1, <1>3, <1>5, StepSets DEF RunnerInv, Summarize
  <1>. QED BY <1>1, <1>3, <1>4, SilentStep, StepSets DEF Summarize

(* A reused result is one the policies can classify. *)
LEMMA SerialReuse ==
  ASSUME SerialInv, TypeOK', NEW r \in Runners, ReuseExecution(r)
  PROVE  SerialInv'
  <1>1. pc[r] = "dispatch" /\ pc'[r] = "executed"
    BY SerialGoto DEF SerialInv, ReuseExecution
  <1>2. mem[r] = store /\ store \in TaskState /\ mem \in [Runners -> TaskState]
    BY <1>1, StepSets DEF SerialInv, RunnerInv, TypeOK
  <1>3. /\ store'.status = store.status /\ store'.attempt = store.attempt
        /\ mem'[r] = store'
    BY <1>2 DEF ReuseExecution, save_state, TaskState
  <1>5. ctx'[r].result \in Results /\ store.status = "running"
    <2>1. ctx'[r].result = load_previous_executor_result(r)
      BY DEF SerialInv, TypeOK, Context, ReuseExecution
    <2>2. load_previous_executor_result(r) \in ExecutorResult
      BY <1>2 DEF SerialInv, TypeOK, load_previous_executor_result, ExecutorResult, TaskState, Files
    <2>3. load_previous_executor_result(r).exhausted = FALSE
      BY DEF load_previous_executor_result
    <2>. QED BY <1>1, <2>1, <2>2, <2>3, StepSets DEF SerialInv, RunnerInv, Results
  <1>4. RunnerInv(r)'
    BY <1>1, <1>3, <1>5, StepSets DEF RunnerInv
  <1>. QED BY <1>1, <1>3, <1>4, SilentStep, StepSets DEF ReuseExecution

(* An executed result is one the policies can classify. *)
LEMMA SerialExecute ==
  ASSUME SerialInv, TypeOK', NEW r \in Runners, Execute(r)
  PROVE  SerialInv'
  <1>1. pc[r] = "output" /\ pc'[r] = "executed"
    BY SerialGoto DEF SerialInv, Execute
  <1>2. mem[r] = store /\ store \in TaskState /\ mem \in [Runners -> TaskState]
    BY <1>1, StepSets DEF SerialInv, RunnerInv, TypeOK
  <1>3. /\ store'.status = store.status /\ store'.attempt = store.attempt
        /\ mem'[r] = store'
    BY <1>2 DEF Execute, save_state, TaskState
  <1>5. ctx'[r].result \in Results /\ store.status = "running"
    <2>1. ctx'[r].result \in Outcomes
      BY DEF SerialInv, TypeOK, Context, Execute
    <2>2. Outcomes \subseteq Results
      BY OutcomeTypes DEF Outcomes, Results
    <2>. QED BY <1>1, <2>1, <2>2, StepSets DEF SerialInv, RunnerInv
  <1>4. RunnerInv(r)'
    BY <1>1, <1>3, <1>5, StepSets DEF RunnerInv
  <1>. QED BY <1>1, <1>3, <1>4, SilentStep, StepSets DEF Execute

(* The result of the budget guard is one the policies can classify. *)
LEMMA SerialBudgetStop ==
  ASSUME SerialInv, TypeOK', NEW r \in Runners, StopOnBudget(r)
  PROVE  SerialInv'
  <1>1. pc[r] = "executing" /\ pc'[r] = "executed"
    BY SerialGoto DEF SerialInv, StopOnBudget
  <1>2. mem[r] = store /\ store \in TaskState /\ mem \in [Runners -> TaskState]
    BY <1>1, StepSets DEF SerialInv, RunnerInv, TypeOK
  <1>3. /\ store'.status = store.status /\ store'.attempt = store.attempt
        /\ mem'[r] = store'
    BY <1>2 DEF StopOnBudget, save_state, TaskState
  <1>5. ctx'[r].result \in Results /\ store.status = "running"
    <2>1. ctx'[r].result \in Outcomes
      BY DEF SerialInv, TypeOK, Context, StopOnBudget, Outcomes
    <2>2. Outcomes \subseteq Results
      BY OutcomeTypes DEF Outcomes, Results
    <2>. QED BY <1>1, <2>1, <2>2, StepSets DEF SerialInv, RunnerInv
  <1>4. RunnerInv(r)'
    BY <1>1, <1>3, <1>5, StepSets DEF RunnerInv
  <1>. QED BY <1>1, <1>3, <1>4, SilentStep, StepSets DEF StopOnBudget

(* Writing executor output touches no policy record. *)
LEMMA SerialOutput ==
  ASSUME SerialInv, TypeOK', NEW r \in Runners, WriteExecutorOutput(r)
  PROVE  SerialInv'
  <1>1. pc[r] = "executing" /\ pc'[r] = "output"
    BY SerialGoto DEF SerialInv, WriteExecutorOutput
  <1>2. mem[r] = store /\ store \in TaskState /\ mem \in [Runners -> TaskState]
    BY <1>1, StepSets DEF SerialInv, RunnerInv, TypeOK
  <1>3. store' = store /\ mem' = mem
    BY DEF WriteExecutorOutput
  <1>5. ctx[r].result \in Results /\ store.status = "running"
    BY <1>1, StepSets DEF SerialInv, RunnerInv
  <1>4. RunnerInv(r)'
    BY <1>1, <1>2, <1>3, <1>5, StepSets DEF RunnerInv, WriteExecutorOutput
  <1>. QED BY <1>1, <1>3, <1>4, SilentStep, StepSets DEF WriteExecutorOutput

(* Writing the evidence touches no policy record. *)
LEMMA SerialEvidence ==
  ASSUME SerialInv, TypeOK', NEW r \in Runners, WriteGroundingEvidence(r)
  PROVE  SerialInv'
  <1>1. pc[r] = "evidence" /\ pc'[r] = "retry_policy"
    BY SerialGoto DEF SerialInv, WriteGroundingEvidence
  <1>2. mem[r] = store /\ store \in TaskState /\ mem \in [Runners -> TaskState]
    BY <1>1, StepSets DEF SerialInv, RunnerInv, TypeOK
  <1>3. store' = store /\ mem' = mem
    BY DEF WriteGroundingEvidence
  <1>5. ctx[r].result \in Results /\ store.status = "running"
    BY <1>1, StepSets DEF SerialInv, RunnerInv
  <1>4. RunnerInv(r)'
    BY <1>1, <1>2, <1>3, <1>5, StepSets DEF RunnerInv, WriteGroundingEvidence
  <1>. QED BY <1>1, <1>3, <1>4, SilentStep, StepSets DEF WriteGroundingEvidence

(* The retry record becomes the one of this attempt. *)
LEMMA SerialRetryPolicy ==
  ASSUME SerialInv, TypeOK', NEW r \in Runners, write_retry_policy_artifacts(r)
  PROVE  SerialInv'
  <1>1. pc[r] = "retry_policy" /\ pc'[r] = "stop_policy"
    BY SerialGoto DEF SerialInv, write_retry_policy_artifacts
  <1>2. mem[r] = store /\ store \in TaskState /\ mem \in [Runners -> TaskState]
    BY <1>1, StepSets DEF SerialInv, RunnerInv, TypeOK
  <1>3. store' = store /\ mem' = mem
    BY DEF write_retry_policy_artifacts
  <1>5. ctx[r].result \in Results /\ store.status = "running"
    BY <1>1, StepSets DEF SerialInv, RunnerInv
  <1>6. /\ ctx'[r].result = ctx[r].result
        /\ files'.retry = RetryOf(store.attempt, ctx'[r].result, ctx'[r].checks)
    BY <1>2 DEF SerialInv, TypeOK, Context, Files, write_retry_policy_artifacts, RetryOf
  <1>4. RunnerInv(r)'
    BY <1>1, <1>2, <1>3, <1>5, <1>6, StepSets DEF RunnerInv
  <1>. QED BY <1>1, <1>3, <1>4, SilentStep, StepSets DEF write_retry_policy_artifacts

(* The stop record becomes the one of this attempt. *)
LEMMA SerialStopPolicy ==
  ASSUME SerialInv, TypeOK', NEW r \in Runners, write_stop_policy_artifacts(r)
  PROVE  SerialInv'
  <1>1. pc[r] = "stop_policy" /\ pc'[r] = "handoff"
    BY SerialGoto DEF SerialInv, write_stop_policy_artifacts
  <1>2. mem[r] = store /\ store \in TaskState /\ mem \in [Runners -> TaskState]
    BY <1>1, StepSets DEF SerialInv, RunnerInv, TypeOK
  <1>3. store' = store /\ mem' = mem
    BY DEF write_stop_policy_artifacts
  <1>5. ctx[r].result \in Results /\ store.status = "running"
    BY <1>1, StepSets DEF SerialInv, RunnerInv
  <1>6. /\ files'.stop = StopOf(store.attempt, ctx[r].result, ctx[r].checks)
        /\ files'.retry = files.retry /\ ctx' = ctx
    BY <1>2 DEF SerialInv, TypeOK, Files, write_stop_policy_artifacts, RetryOf, StopOf
  <1>7. files.retry = RetryOf(store.attempt, ctx[r].result, ctx[r].checks)
    BY <1>1 DEF SerialInv, RunnerInv
  <1>4. RunnerInv(r)'
    BY <1>1, <1>2, <1>3, <1>5, <1>6, <1>7, StepSets DEF RunnerInv
  <1>. QED BY <1>1, <1>3, <1>4, SilentStep, StepSets DEF write_stop_policy_artifacts

(* The handoff becomes the one of this attempt. *)
LEMMA SerialHandoff ==
  ASSUME SerialInv, TypeOK', NEW r \in Runners, save_handoff(r)
  PROVE  SerialInv'
  <1>1. pc[r] = "handoff" /\ pc'[r] = "snapshot"
    BY SerialGoto DEF SerialInv, save_handoff
  <1>2. mem[r] = store /\ store \in TaskState /\ mem \in [Runners -> TaskState]
    BY <1>1, StepSets DEF SerialInv, RunnerInv, TypeOK
  <1>3. store' = store /\ mem' = mem
    BY DEF save_handoff
  <1>5. ctx[r].result \in Results /\ store.status = "running"
    BY <1>1, StepSets DEF SerialInv, RunnerInv
  <1>6. /\ files'.handoff = HandoffOf(store.attempt, ctx[r].result, ctx[r].checks)
        /\ files'.retry = files.retry /\ files'.stop = files.stop /\ ctx' = ctx
    BY <1>2 DEF SerialInv, TypeOK, Files, save_handoff, HandoffOf
  <1>7. /\ files.retry = RetryOf(store.attempt, ctx[r].result, ctx[r].checks)
        /\ files.stop = StopOf(store.attempt, ctx[r].result, ctx[r].checks)
    BY <1>1 DEF SerialInv, RunnerInv
  <1>4. RunnerInv(r)'
    BY <1>1, <1>2, <1>3, <1>5, <1>6, <1>7, StepSets DEF RunnerInv
  <1>. QED BY <1>1, <1>3, <1>4, SilentStep, StepSets DEF save_handoff

(* The snapshot becomes the one of this attempt. *)
LEMMA SerialSnapshot ==
  ASSUME SerialInv, TypeOK', NEW r \in Runners, write_checkpoint_snapshot_artifacts(r)
  PROVE  SerialInv'
  <1>1. pc[r] = "snapshot" /\ pc'[r] = "finish"
    BY SerialGoto DEF SerialInv, write_checkpoint_snapshot_artifacts
  <1>2. mem[r] = store /\ store \in TaskState /\ mem \in [Runners -> TaskState]
    BY <1>1, StepSets DEF SerialInv, RunnerInv, TypeOK
  <1>3. store' = store /\ mem' = mem
    BY DEF write_checkpoint_snapshot_artifacts
  <1>5. ctx[r].result \in Results /\ store.status = "running"
    BY <1>1, StepSets DEF SerialInv, RunnerInv
  <1>6. /\ files'.snapshot = SnapshotOf(store.attempt, ctx[r].result, ctx[r].checks)
        /\ files'.retry = files.retry /\ files'.stop = files.stop
        /\ files'.handoff = files.handoff /\ ctx' = ctx
    BY <1>2 DEF SerialInv, TypeOK, Files, write_checkpoint_snapshot_artifacts,
                SnapshotOf, HandoffOf, RetryOf, StopOf
  <1>7. /\ files.retry = RetryOf(store.attempt, ctx[r].result, ctx[r].checks)
        /\ files.stop = StopOf(store.attempt, ctx[r].result, ctx[r].checks)
        /\ files.handoff = HandoffOf(store.attempt, ctx[r].result, ctx[r].checks)
    BY <1>1 DEF SerialInv, RunnerInv
  <1>4. RunnerInv(r)'
    BY <1>1, <1>2, <1>3, <1>5, <1>6, <1>7, StepSets DEF RunnerInv
  <1>. QED BY <1>1, <1>3, <1>4, SilentStep, StepSets DEF write_checkpoint_snapshot_artifacts

(* The status is settled when all four records are current. *)
LEMMA SerialFinalState ==
  ASSUME SerialInv, TypeOK', NEW r \in Runners, SaveFinalState(r)
  PROVE  SerialInv'
  <1>1. pc[r] = "finish" /\ pc'[r] = "finished"
    BY SerialGoto DEF SerialInv, SaveFinalState
  <1>2. /\ mem[r] = store /\ store \in TaskState /\ mem \in [Runners -> TaskState]
        /\ store.status = "running"
    BY <1>1, StepSets DEF SerialInv, RunnerInv, TypeOK
  <1>3. /\ store'.status = FinalState(ctx[r].result, ctx[r].checks).status
        /\ store'.attempt = store.attempt /\ mem'[r] = store'
    BY <1>2 DEF SaveFinalState, save_state, TaskState
  <1>4. /\ ctx[r].result \in Results
        /\ files.retry = RetryOf(store.attempt, ctx[r].result, ctx[r].checks)
        /\ files.stop = StopOf(store.attempt, ctx[r].result, ctx[r].checks)
        /\ files.handoff = HandoffOf(store.attempt, ctx[r].result, ctx[r].checks)
        /\ files.snapshot = SnapshotOf(store.attempt, ctx[r].result, ctx[r].checks)
    BY <1>1, StepSets DEF SerialInv, RunnerInv
  <1>5. ctx[r].checks \in Checks
    BY DEF SerialInv, TypeOK, Context
  <1>6. files' = files /\ log' = log
    BY DEF SaveFinalState
  <1>7. SettledByResult'
    BY <1>3, <1>4, <1>5, <1>6 DEF SettledByResult
  <1>8. RunnerInv(r)'
    BY <1>1, <1>3, StepSets DEF RunnerInv
  <1>9. LogBounded' /\ AttemptIdentifiesRun' /\ AttemptCounts'
    BY <1>2, <1>3, <1>6 DEF SerialInv, LogBounded, AttemptIdentifiesRun, AttemptCounts
  <1>. QED BY <1>7, <1>8, <1>9, SerialStep DEF SaveFinalState

(* The closing event is no run_started. *)
LEMMA SerialFinalEvent ==
  ASSUME SerialInv, TypeOK', NEW r \in Runners, FinalEvent(r)
  PROVE  SerialInv'
  <1>1. pc[r] = "finished" /\ pc'[r] = "idle"
    BY SerialGoto DEF SerialInv, FinalEvent
  <1>2. mem[r] = store
    BY <1>1, StepSets DEF SerialInv, RunnerInv
  <1>3. ClosingEvent(r) \in EventTypes \ {"task.run_started"}
    BY DEF ClosingEvent, EventTypes
  <1>4. LogBounded' /\ AttemptIdentifiesRun'
    BY <1>2, <1>3, OtherEvent DEF FinalEvent, append_event
  <1>5. AttemptCounts' /\ SettledByResult'
    BY DEF SerialInv, FinalEvent, AttemptCounts, SettledByResult
  <1>. QED BY <1>1, <1>4, <1>5, IdleRunner, SerialStep DEF FinalEvent

(* A command is admitted only when no runner is active. *)
LEMMA SerialCommand ==
  ASSUME SerialOperator = TRUE, SerialInv, TypeOK', NEW r \in Runners, Command(r)
  PROVE  SerialInv'
  <1>1. PICK via, reset, skip : run_task_command(r, via, reset, skip)
    BY DEF Command, Run, retry_task_command, resume_task_command, rerun_task_command
  <1>2. /\ \A q \in Runners : pc[q] = "idle"
        /\ pc'[r] = "admitted" /\ \A q \in Runners : q # r => pc'[q] = "idle"
        /\ ctx'[r].result = NoResult
        /\ UNCHANGED <<store, files, log, mem>>
    BY <1>1 DEF SerialInv, TypeOK, run_task_command, MayIssue, Quiet
  <1>3. OneRunner'
    BY <1>2 DEF OneRunner
  <1>4. RunnerInv(r)'
    <2>1. NoResult \in Results
      BY DEF NoResult, Results, ExecutorResult, ExecutorStatuses, FailureKinds
    <2>. QED BY <1>2, <2>1, StepSets DEF RunnerInv
  <1>5. \A q \in Runners : RunnerInv(q)'
    BY <1>2, <1>4, IdleRunner
  <1>. QED BY <1>2, <1>3, <1>5 DEF SerialInv, AttemptCounts, LogBounded,
              AttemptIdentifiesRun, SettledByResult

(* acknowledge_task acts on a blocked task that no runner holds. *)
LEMMA SerialAcknowledge ==
  ASSUME SerialOperator = TRUE, SerialInv, TypeOK', acknowledge_task
  PROVE  SerialInv'
  <1>1. \A q \in Runners : pc'[q] = "idle"
    BY DEF acknowledge_task, MayIssue, Quiet
  <1>2. store'.status = "running" /\ store'.attempt = store.attempt
        /\ store.status = "dispatch_blocked"
    BY DEF SerialInv, TypeOK, acknowledge_task, TaskState
  <1>3. OneRunner' /\ \A q \in Runners : RunnerInv(q)'
    BY <1>1, IdleRunner DEF OneRunner
  <1>4. LogBounded' /\ AttemptIdentifiesRun'
    BY <1>2, OtherEvent DEF acknowledge_task, EventTypes
  <1>5. AttemptCounts' /\ SettledByResult'
    BY <1>2 DEF SerialInv, AttemptCounts, SettledByResult, Terminal
  <1>. QED BY <1>3, <1>4, <1>5 DEF SerialInv

(* A crash leaves a running task, never a half-settled one. *)
LEMMA SerialCrash ==
  ASSUME SerialInv, TypeOK', NEW r \in Runners, Crash(r)
  PROVE  SerialInv'
  <1>1. goto(r, pc[r], "idle") /\ pc[r] # "idle"
    BY DEF Crash, goto
  <1>2. pc'[r] = "idle"
    BY <1>1, SerialGoto DEF SerialInv
  <1>3. RunnerInv(r)'
    BY <1>2, IdleRunner
  <1>4. AttemptCounts' /\ LogBounded' /\ AttemptIdentifiesRun' /\ SettledByResult'
    BY DEF SerialInv, Crash, AttemptCounts, LogBounded, AttemptIdentifiesRun, SettledByResult
  <1>. QED BY <1>1, <1>3, <1>4, SerialStep

(* The initial state satisfies SerialInv. *)
LEMMA SerialInit == Init => SerialInv
  <1>. SUFFICES ASSUME Init PROVE SerialInv
    OBVIOUS
  <1>1. \A r \in Runners : pc[r] = "idle"
    BY DEF Init
  <1>2. OneRunner /\ \A r \in Runners : RunnerInv(r)
    BY <1>1, StepSets DEF OneRunner, RunnerInv
  <1>3. AttemptCounts /\ SettledByResult
    BY DEF Init, create_task, AttemptCounts, SettledByResult, Terminal
  <1>4. LogBounded /\ AttemptIdentifiesRun
    BY DEF Init, LogBounded, AttemptIdentifiesRun
  <1>. QED BY <1>2, <1>3, <1>4, TypeInit DEF SerialInv

(* SerialInv is inductive. *)
LEMMA SerialNext ==
  ASSUME SerialOperator = TRUE, SerialInv, [Next]_vars
  PROVE  SerialInv'
  <1>t. TypeOK'
    BY TypeNext DEF SerialInv
  <1>1. CASE UNCHANGED vars
    BY <1>1, <1>t DEF SerialInv, vars, OneRunner, RunnerInv, AttemptCounts, LogBounded,
       AttemptIdentifiesRun, SettledByResult
  <1>2. CASE acknowledge_task
    BY <1>2, <1>t, SerialAcknowledge
  <1>3. ASSUME NEW r \in Runners, Command(r) PROVE SerialInv'
    BY <1>3, <1>t, SerialCommand
  <1>4. ASSUME NEW r \in Runners, Crash(r) PROVE SerialInv'
    BY <1>4, <1>t, SerialCrash
  <1>5. ASSUME NEW r \in Runners, Step(r) PROVE SerialInv'
    BY <1>5, <1>t, SerialLoad, SerialBegin, SerialRunStarted, SerialBlocked,
       SerialBlockedEvent, SerialEnterRetrieval, SerialRetrieval, SerialGrounding,
       SerialReuse, SerialDispatch, SerialExecute, SerialBudgetStop, SerialOutput, SerialSummarize, SerialEvidence,
       SerialRetryPolicy, SerialStopPolicy, SerialHandoff, SerialSnapshot,
       SerialFinalState, SerialFinalEvent DEF Step
  <1>. QED BY <1>1, <1>2, <1>3, <1>4, <1>5 DEF Next

(* The inductive invariant of one command at a time. *)
THEOREM SerialCorrect ==
  ASSUME SerialOperator = TRUE
  PROVE  Spec => []SerialInv
  BY SerialInit, SerialNext, PTL DEF Spec

(* The pure part: what the records of one attempt say about each other. *)
LEMMA PolicyGates ==
  ASSUME NEW a \in Nat \ {0}, NEW result \in Results, NEW checks \in Checks
  PROVE  /\ RetryOf(a, result, checks).attempt = a
         /\ StopOf(a, result, checks).attempt = a
         /\ HandoffOf(a, result, checks).attempt = a
         /\ SnapshotOf(a, result, checks).attempt = a
         /\ /\ SnapshotOf(a, result, checks).resume_ready
            /\ SnapshotOf(a, result, checks).path = "resume"
            <=> FinalState(result, checks).status = "failed"
         /\ RetryOf(a, result, checks).retryable =>
              FinalState(result, checks).status = "failed" /\ a < BASELINE_MAX_ATTEMPTS
  <1>1. /\ RetryOf(a, result, checks).attempt = a
        /\ StopOf(a, result, checks).attempt = a
        /\ HandoffOf(a, result, checks).attempt = a
        /\ SnapshotOf(a, result, checks).attempt = a
    BY DEF RetryOf, StopOf, HandoffOf, SnapshotOf, evaluate_retry_policy,
       evaluate_stop_policy, build_handoff_record, evaluate_checkpoint_snapshot
  <1>2. StopOf(a, result, checks).continue_allowed = FALSE
    BY DEF StopOf, evaluate_stop_policy
  <1>3. HandoffOf(a, result, checks).status =
          IF AllPassed(result, checks) THEN "review_completed_run"
          ELSE IF is_knowledge_policy_review_required(result, checks)
               THEN "knowledge_policy_review"
          ELSE "resume_from_failure"
    BY DEF HandoffOf, build_handoff_record
  <1>4. FinalState(result, checks).status =
          IF manual_intervention_required(result) THEN "waiting_human"
          ELSE IF is_knowledge_policy_review_required(result, checks) THEN "waiting_human"
          ELSE IF AllPassed(result, checks) THEN "completed" ELSE "failed"
    BY DEF FinalState, classify_task_terminal_state
  <1>5. /\ SnapshotOf(a, result, checks).resume_ready
        /\ SnapshotOf(a, result, checks).path = "resume"
        <=> FinalState(result, checks).status = "failed"
    <2>. DEFINE handoff == HandoffOf(a, result, checks)
                status == FinalState(result, checks).status
    <2>1. SnapshotOf(a, result, checks) =
            evaluate_checkpoint_snapshot(a, status, handoff,
              RetryOf(a, result, checks), StopOf(a, result, checks))
      BY DEF SnapshotOf
    <2>2. /\ status \in {"completed", "failed", "waiting_human"}
          /\ status = "failed" => handoff.status = "resume_from_failure"
          /\ status = "completed" => handoff.status = "review_completed_run"
      BY <1>3, <1>4
    <2>. HIDE DEF handoff, status
    <2>3. SnapshotOf(a, result, checks).resume_ready
            = (handoff.status = "resume_from_failure")
      BY <2>1 DEF evaluate_checkpoint_snapshot
    <2>4. SnapshotOf(a, result, checks).path =
            IF status = "waiting_human"
            THEN IF handoff.status = "knowledge_policy_review" THEN "review" ELSE "run"
            ELSE IF handoff.status = "review_completed_run" THEN "review"
            ELSE IF handoff.status = "resume_from_failure" THEN "resume"
            ELSE "rerun"
      BY <1>2, <2>1, <2>2 DEF evaluate_checkpoint_snapshot
    <2>. QED BY <2>2, <2>3, <2>4 DEF status
  <1>6. RetryOf(a, result, checks).retryable =>
          FinalState(result, checks).status = "failed" /\ a < BASELINE_MAX_ATTEMPTS
    BY <1>4 DEF RetryOf, evaluate_retry_policy, Results, manual_intervention_required,
       is_knowledge_policy_review_required, AllPassed
  <1>. QED BY <1>1, <1>5, <1>6

(* SerialInv implies the three properties it was made for. *)
LEMMA SerialImplies ==
  ASSUME SerialInv
  PROVE  SettledRecordsAreCurrent /\ GatesAgreeWithStatus
  <1>. SUFFICES ASSUME store.status \in Terminal
                PROVE  SettledRecordsAreCurrent /\ GatesAgreeWithStatus
    BY DEF SettledRecordsAreCurrent, GatesAgreeWithStatus
  <1>1. PICK result \in Results, checks \in Checks :
          /\ store.status = FinalState(result, checks).status
          /\ files.retry = RetryOf(store.attempt, result, checks)
          /\ files.stop = StopOf(store.attempt, result, checks)
          /\ files.handoff = HandoffOf(store.attempt, result, checks)
          /\ files.snapshot = SnapshotOf(store.attempt, result, checks)
    BY DEF SerialInv, SettledByResult
  <1>2. store.attempt \in Nat \ {0}
    BY DEF SerialInv, TypeOK, TaskState, AttemptCounts, Terminal
  <1>3. /\ files.retry.attempt = store.attempt /\ files.stop.attempt = store.attempt
        /\ files.handoff.attempt = store.attempt /\ files.snapshot.attempt = store.attempt
        /\ files.snapshot.resume_ready /\ files.snapshot.path = "resume"
           <=> store.status = "failed"
        /\ files.retry.retryable =>
             store.status = "failed" /\ store.attempt < BASELINE_MAX_ATTEMPTS
    BY <1>1, <1>2, PolicyGates
  <1>4. load_checkpoint_snapshot = files.snapshot
    BY <1>2, <1>3 DEF load_checkpoint_snapshot
  <1>. QED BY <1>3, <1>4 DEF SettledRecordsAreCurrent, GatesAgreeWithStatus,
              resume_allowed, retry_allowed

(* With one command at a time, an attempt number names one run, whatever   *)
(* crashes (_begin_execution_attempt, task.run_started).                   *)
THEOREM AttemptsAreRuns ==
  ASSUME SerialOperator = TRUE
  PROVE  Spec => []AttemptIdentifiesRun
  <1>1. SerialInv => AttemptIdentifiesRun
    BY DEF SerialInv
  <1>. QED BY <1>1, SerialCorrect, PTL

(* With one command at a time, the policy records of a settled task are    *)
(* those of the attempt that settled it (write_task_artifacts).            *)
THEOREM RecordsAreCurrent ==
  ASSUME SerialOperator = TRUE
  PROVE  Spec => []SettledRecordsAreCurrent
  <1>1. SerialInv => SettledRecordsAreCurrent
    BY SerialImplies
  <1>. QED BY <1>1, SerialCorrect, PTL

(* With one command at a time, the retry and resume gates of a settled     *)
(* task agree with its status (retry_task_command, resume_task_command).   *)
THEOREM GatesAgree ==
  ASSUME SerialOperator = TRUE
  PROVE  Spec => []GatesAgreeWithStatus
  <1>1. SerialInv => GatesAgreeWithStatus
    BY SerialImplies
  <1>. QED BY <1>1, SerialCorrect, PTL

(* How one step of a runner moves the persisted status and attempt. *)
LEMMA TruthStep ==
  ASSUME SerialInv, NEW r \in Runners, Step(r)
  PROVE  [Truth!Next]_<<store.status, store.attempt>>
  <1>. DEFINE Kept == store'.status = store.status /\ store'.attempt = store.attempt
  <1>t. /\ mem[r] \in TaskState /\ store \in TaskState
        /\ store.attempt \in Nat
    BY DEF SerialInv, TypeOK, TaskState
  <1>s. pc[r] \in Begun => mem[r] = store
    BY DEF SerialInv, RunnerInv
  <1>r. pc[r] \in InRun => store.status = "running"
    BY DEF SerialInv, RunnerInv
  <1>k. Kept => [Truth!Next]_<<store.status, store.attempt>>
    OBVIOUS
  <1>1. CASE begin_execution_attempt(r)
    <2>1. mem[r].attempt = store.attempt
      BY <1>1 DEF SerialInv, RunnerInv, begin_execution_attempt, goto
    <2>2. store' = [mem[r] EXCEPT !.attempt = mem[r].attempt + 1, !.lifecycle = "prepared",
                                  !.dispatch = "planned", !.executor_status = "running",
                                  !.status = "running", !.phase = "intake",
                                  !.execution_phase = "pending"]
      BY <1>1 DEF begin_execution_attempt, save_state
    <2>3. store'.status = "running" /\ store'.attempt = store.attempt + 1
      BY <1>t, <2>1, <2>2 DEF TaskState
    <2>. QED BY <2>3 DEF Truth!Next, Truth!Begin
  <1>2. CASE apply_blocked_dispatch_verdict(r)
    <2>1. pc[r] \in InRun /\ pc[r] \in Begun
      BY <1>2, StepSets DEF apply_blocked_dispatch_verdict, goto
    <2>2. store'.status = "dispatch_blocked" /\ store'.attempt = store.attempt
      BY <1>2, <1>t, <1>s, <2>1 DEF apply_blocked_dispatch_verdict, save_state, TaskState
    <2>. QED BY <1>r, <2>1, <2>2 DEF Truth!Next, Truth!Block
  <1>3. CASE SaveFinalState(r)
    <2>1. pc[r] \in InRun /\ pc[r] \in Begun
      BY <1>3, StepSets DEF SaveFinalState, goto
    <2>2. /\ store'.status = FinalState(ctx[r].result, ctx[r].checks).status
          /\ store'.attempt = store.attempt
      BY <1>3, <1>t, <1>s, <2>1 DEF SaveFinalState, save_state, TaskState
    <2>3. store'.status \in Terminal
      BY <2>2, FinalTypes DEF SerialInv, TypeOK, Context
    <2>. QED BY <1>r, <2>1, <2>2, <2>3 DEF Truth!Next, Truth!Settle, Truth!Terminal, Terminal
  <1>4. CASE \/ EnterRetrieval(r) \/ resolve_grounding_state(r) \/ ReuseExecution(r)
             \/ DispatchExecution(r) \/ StopOnBudget(r) \/ Execute(r) \/ Summarize(r)
    <2>1. pc[r] \in Begun
      BY <1>4, StepSets DEF EnterRetrieval, resolve_grounding_state, ReuseExecution,
         DispatchExecution, StopOnBudget, Execute, Summarize, goto
    <2>2. mem[r] = store
      BY <1>s, <2>1
    <2>3. CASE EnterRetrieval(r)
      BY <2>2, <2>3, <1>t DEF EnterRetrieval, save_state, TaskState
    <2>4. CASE resolve_grounding_state(r)
      BY <2>2, <2>4, <1>t DEF resolve_grounding_state, save_state, TaskState
    <2>5. CASE ReuseExecution(r)
      BY <2>2, <2>5, <1>t DEF ReuseExecution, save_state, TaskState
    <2>6. CASE DispatchExecution(r)
      BY <2>2, <2>6, <1>t DEF DispatchExecution, save_state, TaskState
    <2>7. CASE Execute(r)
      BY <2>2, <2>7, <1>t DEF Execute, save_state, TaskState
    <2>9. CASE StopOnBudget(r)
      BY <2>2, <2>9, <1>t DEF StopOnBudget, save_state, TaskState
    <2>8. CASE Summarize(r)
      BY <2>2, <2>8, <1>t DEF Summarize, save_state, TaskState
    <2>. QED BY <1>4, <2>3, <2>4, <2>5, <2>6, <2>7, <2>8, <2>9
  <1>5. CASE UNCHANGED store
    BY <1>5
  <1>. QED BY <1>1, <1>2, <1>3, <1>4, <1>5 DEF Step, load_state, RunStarted,
              DispatchBlockedEvent, run_retrieval, WriteExecutorOutput, WriteGroundingEvidence,
              write_retry_policy_artifacts, write_stop_policy_artifacts, save_handoff,
              write_checkpoint_snapshot_artifacts, FinalEvent

(* With one command at a time, the persisted status and attempt implement  *)
(* TaskTruth: a run opens a new attempt and closes it once, from running   *)
(* (save_state in run_task_async and acknowledge_task).                    *)
THEOREM TaskRunImplementsTaskTruth ==
  ASSUME SerialOperator = TRUE
  PROVE  Spec => RefinesTaskTruth
  <1>1. Init => Truth!Init
    BY DEF Init, create_task, Truth!Init
  <1>2. SerialInv /\ [Next]_vars => [Truth!Next]_<<store.status, store.attempt>>
    <2>. SUFFICES ASSUME SerialInv, [Next]_vars
                  PROVE  [Truth!Next]_<<store.status, store.attempt>>
      OBVIOUS
    <2>1. CASE UNCHANGED vars
      BY <2>1 DEF vars
    <2>2. CASE acknowledge_task
      <3>1. /\ store.status = "dispatch_blocked" /\ store'.status = "running"
            /\ store'.attempt = store.attempt
        BY <2>2 DEF SerialInv, TypeOK, acknowledge_task, TaskState
      <3>. QED BY <3>1 DEF Truth!Next, Truth!Acknowledge
    <2>3. ASSUME NEW r \in Runners, Step(r)
          PROVE  [Truth!Next]_<<store.status, store.attempt>>
      BY <2>3, TruthStep
    <2>4. ASSUME NEW r \in Runners, Command(r) \/ Crash(r)
          PROVE  [Truth!Next]_<<store.status, store.attempt>>
      BY <2>4 DEF Command, Run, retry_task_command, resume_task_command,
         rerun_task_command, run_task_command, Crash
    <2>. QED BY <2>1, <2>2, <2>3, <2>4 DEF Next
  <1>. QED BY <1>1, <1>2, SerialCorrect, PTL DEF Spec, RefinesTaskTruth, Truth!Spec

-----------------------------------------------------------------------------
(***************************************************************************)
(* Without crashes: the log closes what the status says, and the citations *)
(* of a locked grounding are those in the evidence artifact, unless a run  *)
(* is about to write it.                                                   *)
(***************************************************************************)
NoneBegun == \A r \in Runners : pc[r] \notin Begun
LastCloses == store.status = "completed" <=> log[Len(log)].type = "task.completed"
ManualIsNotCompleted ==
  \A r \in Runners : pc[r] = "finished" /\ manual_intervention_required(ctx[r].result)
                     => store.status # "completed"
LogCloses ==
  crashes = 0 => (NoneBegun /\ log # <<>> => LastCloses) /\ ManualIsNotCompleted

Unwritten == {"dispatch", "executing", "output", "executed", "evidence"}
LockedHasRefs == store.grounding_locked => store.grounding_refs \in Refs
EvidenceFollows ==
  store.grounding_locked =>
    files.evidence = store.grounding_refs \/ \E r \in Runners : pc[r] \in Unwritten
LoadedKeeps ==
  \A r \in Runners : pc[r] = "loaded" /\ mem[r].grounding_locked =>
    store.grounding_locked /\ mem[r].grounding_refs = store.grounding_refs
ItemsCited == \A r \in Runners : pc[r] = "grounding" => ctx[r].items \in Refs
GroundingKept ==
  crashes = 0 => LockedHasRefs /\ EvidenceFollows /\ LoadedKeeps /\ ItemsCited

(* While one runner takes a step of its run, all others are idle. *)
LEMMA OneSteps ==
  ASSUME SerialInv, NEW r \in Runners, Step(r)
  PROVE  /\ crashes' = crashes /\ pc[r] # "idle"
         /\ \A q \in Runners \ {r} : pc[q] = "idle" /\ pc'[q] = "idle"
  <1>. USE DEF goto
  <1>1. crashes' = crashes /\ pc[r] # "idle" /\ \E next : pc' = [pc EXCEPT ![r] = next]
    BY DEF Step, load_state, begin_execution_attempt, RunStarted,
       apply_blocked_dispatch_verdict, DispatchBlockedEvent, EnterRetrieval, run_retrieval,
       resolve_grounding_state, ReuseExecution, DispatchExecution, StopOnBudget,
       WriteExecutorOutput, Execute, Summarize, WriteGroundingEvidence,
       write_retry_policy_artifacts, write_stop_policy_artifacts, save_handoff,
       write_checkpoint_snapshot_artifacts, SaveFinalState, FinalEvent
  <1>2. \A q \in Runners \ {r} : pc[q] = "idle"
    BY <1>1 DEF SerialInv, OneRunner
  <1>. QED BY <1>1, <1>2 DEF SerialInv, TypeOK

(* A command only admits its runner. *)
LEMMA CommandAdmits ==
  ASSUME TypeOK, NEW r \in Runners, Command(r)
  PROVE  /\ UNCHANGED <<store, files, log, mem, crashes>>
         /\ pc[r] = "idle" /\ pc' = [pc EXCEPT ![r] = "admitted"]
         /\ \A q \in Runners \ {r} : ctx'[q] = ctx[q]
  BY DEF TypeOK, Command, Run, retry_task_command, resume_task_command, rerun_task_command,
     run_task_command

(* The last event of a log with one more. *)
LEMMA LastEvent ==
  ASSUME TypeOK, NEW e, log' = Append(log, e)
  PROVE  log' # <<>> /\ log'[Len(log')] = e
  BY DEF TypeOK

(* A step of a run, other than the two that end it, is followed by another. *)
LEMMA RunGoesOn ==
  ASSUME SerialInv, NEW r \in Runners, Step(r), ~load_state(r), ~DispatchBlockedEvent(r),
         ~FinalEvent(r)
  PROVE  pc'[r] \in Begun /\ (pc'[r] = "finished" => SaveFinalState(r))
  <1>1. pc \in [Runners -> Steps]
    BY DEF SerialInv, TypeOK
  <1>2. \A here, next : goto(r, here, next) => pc'[r] = next
    BY <1>1 DEF goto
  <1>. QED BY <1>2, StepSets DEF Step, SaveFinalState, begin_execution_attempt, RunStarted,
       apply_blocked_dispatch_verdict, EnterRetrieval, run_retrieval,
       resolve_grounding_state, ReuseExecution, DispatchExecution, StopOnBudget,
       WriteExecutorOutput, Execute, Summarize, WriteGroundingEvidence,
       write_retry_policy_artifacts, write_stop_policy_artifacts, save_handoff,
       write_checkpoint_snapshot_artifacts

(* Every step keeps the log closed as the status says. *)
LEMMA LogClosesNext ==
  ASSUME SerialOperator = TRUE, SerialInv, LogCloses, [Next]_vars
  PROVE  LogCloses'
  <1>. SUFFICES ASSUME crashes' = 0
                PROVE  (NoneBegun /\ log # <<>> => LastCloses)' /\ ManualIsNotCompleted'
    BY DEF LogCloses
  <1>t. TypeOK /\ store \in TaskState
    BY DEF SerialInv, TypeOK
  <1>1. CASE UNCHANGED vars
    BY <1>1 DEF vars, LogCloses, NoneBegun, LastCloses, ManualIsNotCompleted
  <1>2. CASE acknowledge_task
    <2>1. \A r \in Runners : pc'[r] = "idle"
      BY <1>2 DEF acknowledge_task, MayIssue, Quiet
    <2>2. store'.status = "running"
      BY <1>2, <1>t DEF acknowledge_task, TaskState
    <2>3. log'[Len(log')].type = "task.dispatch_acknowledged"
      BY <1>2, <1>t, LastEvent DEF acknowledge_task
    <2>. QED BY <2>1, <2>2, <2>3 DEF LastCloses, ManualIsNotCompleted
  <1>3. ASSUME NEW r \in Runners, Command(r)
        PROVE  (NoneBegun /\ log # <<>> => LastCloses)' /\ ManualIsNotCompleted'
    <2>1. /\ UNCHANGED <<store, log, crashes>> /\ pc[r] = "idle" /\ pc'[r] = "admitted"
          /\ \A q \in Runners \ {r} : pc'[q] = pc[q] /\ ctx'[q] = ctx[q]
      BY <1>3, <1>t, CommandAdmits DEF TypeOK
    <2>2. NoneBegun' => NoneBegun
      BY <2>1, StepSets DEF NoneBegun
    <2>. QED BY <2>1, <2>2 DEF LogCloses, LastCloses, ManualIsNotCompleted
  <1>4. ASSUME NEW r \in Runners, Crash(r) PROVE FALSE
    BY <1>4, <1>t DEF Crash, TypeOK
  <1>5. ASSUME NEW r \in Runners, Step(r)
        PROVE  (NoneBegun /\ log # <<>> => LastCloses)' /\ ManualIsNotCompleted'
    <2>0. /\ crashes = 0 /\ \A q \in Runners \ {r} : pc[q] = "idle" /\ pc'[q] = "idle"
      BY <1>5, OneSteps
    <2>1. CASE load_state(r)
      <3>1. UNCHANGED <<store, log>> /\ pc[r] = "admitted" /\ pc'[r] = "loaded"
        BY <2>1, <1>t DEF load_state, goto, TypeOK
      <3>2. NoneBegun
        BY <2>0, <3>1, StepSets DEF NoneBegun
      <3>. QED BY <2>0, <3>1, <3>2 DEF LogCloses, LastCloses, ManualIsNotCompleted
    <2>2. CASE DispatchBlockedEvent(r)
      <3>1. store' = store /\ pc[r] = "blocked" /\ pc'[r] = "idle"
        BY <2>2, <1>t DEF DispatchBlockedEvent, goto, TypeOK
      <3>2. store.status = "dispatch_blocked"
        BY <3>1 DEF SerialInv, RunnerInv
      <3>3. log'[Len(log')].type = "task.dispatch_blocked"
        BY <2>2, <1>t, LastEvent DEF DispatchBlockedEvent, append_event
      <3>. QED BY <2>0, <3>1, <3>2, <3>3 DEF LastCloses, ManualIsNotCompleted
    <2>3. CASE FinalEvent(r)
      <3>1. store' = store /\ pc[r] = "finished" /\ pc'[r] = "idle"
        BY <2>3, <1>t DEF FinalEvent, goto, TypeOK
      <3>2. mem[r] = store
        BY <3>1, StepSets DEF SerialInv, RunnerInv
      <3>3. manual_intervention_required(ctx[r].result) => store.status # "completed"
        BY <2>0, <3>1 DEF LogCloses, ManualIsNotCompleted
      <3>4. ClosingEvent(r) = "task.completed" <=> store.status = "completed"
        BY <3>2, <3>3 DEF ClosingEvent
      <3>5. log'[Len(log')].type = ClosingEvent(r)
        BY <2>3, <1>t, LastEvent DEF FinalEvent, append_event
      <3>. QED BY <2>0, <3>1, <3>4, <3>5 DEF LastCloses, ManualIsNotCompleted
    <2>4. CASE ~load_state(r) /\ ~DispatchBlockedEvent(r) /\ ~FinalEvent(r)
      <3>1. pc'[r] \in Begun /\ (pc'[r] = "finished" => SaveFinalState(r))
        BY <1>5, <2>4, RunGoesOn
      <3>2. ~NoneBegun'
        BY <3>1 DEF NoneBegun
      <3>3. ASSUME SaveFinalState(r), manual_intervention_required(ctx'[r].result)
            PROVE  store'.status # "completed"
        <4>1. ctx' = ctx /\ store'.status = FinalState(ctx[r].result, ctx[r].checks).status
          BY <3>3, <1>t DEF SaveFinalState, save_state, TypeOK, TaskState
        <4>. QED BY <3>3, <4>1 DEF FinalState
      <3>. QED BY <2>0, <3>1, <3>2, <3>3 DEF ManualIsNotCompleted
    <2>. QED BY <2>1, <2>2, <2>3, <2>4
  <1>. QED BY <1>1, <1>2, <1>3, <1>4, <1>5 DEF Next

(* With one command at a time, and if none was cut off, the event log      *)
(* closes the last attempt the way the persisted status does               *)
(* (task.completed after save_state).                                      *)
THEOREM CompletionIsLogged ==
  ASSUME SerialOperator = TRUE
  PROVE  Spec => []CompletionLogged
  <1>1. Init => LogCloses
    BY DEF Init, LogCloses, ManualIsNotCompleted
  <1>2. SerialInv /\ LogCloses => CompletionLogged
    BY StepSets DEF LogCloses, CompletionLogged, Quiet, NoneBegun, LastCloses
  <1>. QED BY <1>1, <1>2, SerialCorrect, LogClosesNext, PTL DEF Spec

(* A step that leaves the lock, the citations and the evidence alone. *)
LEMMA GroundingFrame ==
  ASSUME GroundingKept, NEW r \in Runners, crashes = 0,
         \A q \in Runners \ {r} : pc[q] = "idle" /\ pc'[q] = "idle",
         store'.grounding_locked = store.grounding_locked,
         store'.grounding_refs = store.grounding_refs,
         files'.evidence = files.evidence,
         pc[r] \in Unwritten => pc'[r] \in Unwritten,
         pc'[r] \notin {"loaded", "grounding"}
  PROVE  GroundingKept'
  <1>1. LockedHasRefs' /\ EvidenceFollows'
    BY DEF GroundingKept, LockedHasRefs, EvidenceFollows, Unwritten
  <1>2. LoadedKeeps' /\ ItemsCited'
    BY DEF LoadedKeeps, ItemsCited
  <1>. QED BY <1>1, <1>2 DEF GroundingKept

(* Every step of a run keeps the citations. *)
LEMMA GroundingStep ==
  ASSUME SerialInv, GroundingKept, NEW r \in Runners, Step(r), crashes = 0
  PROVE  GroundingKept'
  <1>t. /\ store \in TaskState /\ mem[r] \in TaskState /\ files \in Files
        /\ pc \in [Runners -> Steps] /\ mem \in [Runners -> TaskState]
        /\ ctx \in [Runners -> Context]
    BY DEF SerialInv, TypeOK
  <1>o. \A q \in Runners \ {r} : pc[q] = "idle" /\ pc'[q] = "idle"
    BY OneSteps
  <1>g. \A here, next : goto(r, here, next) => pc[r] = here /\ pc'[r] = next
    BY <1>t DEF goto
  <1>s. pc[r] \in Begun => mem[r] = store
    BY DEF SerialInv, RunnerInv
  <1>1. CASE load_state(r)
    <2>1. pc[r] = "admitted" /\ pc'[r] = "loaded" /\ UNCHANGED <<store, files>>
      BY <1>1, <1>g DEF load_state
    <2>2. mem'[r].grounding_locked =>
            store.grounding_locked /\ mem'[r].grounding_refs = store.grounding_refs
      BY <1>1, <1>t DEF load_state, TaskState
    <2>3. LoadedKeeps' /\ ItemsCited'
      BY <1>o, <2>1, <2>2 DEF LoadedKeeps, ItemsCited
    <2>4. LockedHasRefs' /\ EvidenceFollows'
      BY <1>o, <2>1 DEF GroundingKept, LockedHasRefs, EvidenceFollows, Unwritten
    <2>. QED BY <2>3, <2>4 DEF GroundingKept
  <1>2. CASE begin_execution_attempt(r)
    <2>1. pc[r] = "loaded" /\ pc'[r] = "begun" /\ files' = files
      BY <1>2, <1>g DEF begin_execution_attempt
    <2>2. /\ store'.grounding_locked = mem[r].grounding_locked
          /\ store'.grounding_refs = mem[r].grounding_refs
      BY <1>2, <1>t DEF begin_execution_attempt, save_state, TaskState
    <2>3. mem[r].grounding_locked =>
            /\ store.grounding_locked /\ mem[r].grounding_refs = store.grounding_refs
            /\ store.grounding_refs \in Refs /\ files.evidence = store.grounding_refs
      BY <1>o, <2>1 DEF GroundingKept, LoadedKeeps, LockedHasRefs, EvidenceFollows, Unwritten
    <2>4. LockedHasRefs' /\ EvidenceFollows'
      BY <2>1, <2>2, <2>3 DEF LockedHasRefs, EvidenceFollows
    <2>5. LoadedKeeps' /\ ItemsCited'
      BY <1>o, <2>1 DEF LoadedKeeps, ItemsCited
    <2>. QED BY <2>4, <2>5 DEF GroundingKept
  <1>3. CASE run_retrieval(r)
    <2>1. pc[r] = "retrieval" /\ pc'[r] = "grounding" /\ store' = store
      BY <1>3, <1>g DEF run_retrieval
    <2>2. files'.evidence = files.evidence
      BY <1>3, <1>t DEF run_retrieval, Files
    <2>3. ctx'[r].items \in Refs
      <3>1. files.retrieval \in MaybeRefs
        BY <1>t DEF Files
      <3>2. ctx[r] \in Context
        BY <1>t
      <3>3. \A items : [ctx EXCEPT ![r].items = items][r].items = items
        BY <1>t, <3>2 DEF Context
      <3>. QED BY <1>3, <3>1, <3>3 DEF run_retrieval, MaybeRefs
    <2>4. LockedHasRefs' /\ EvidenceFollows'
      BY <1>o, <2>1, <2>2 DEF GroundingKept, LockedHasRefs, EvidenceFollows, Unwritten
    <2>5. LoadedKeeps' /\ ItemsCited'
      BY <1>o, <2>1, <2>3 DEF LoadedKeeps, ItemsCited
    <2>. QED BY <2>4, <2>5 DEF GroundingKept
  <1>4. CASE resolve_grounding_state(r)
    <2>1. pc[r] = "grounding" /\ pc'[r] = "dispatch" /\ mem[r] = store
      BY <1>4, <1>g, <1>s, StepSets DEF resolve_grounding_state
    <2>2. store'.grounding_refs = IF store.grounding_locked /\ files.evidence # NoRefs
                                  THEN files.evidence ELSE ctx[r].items
      BY <1>4, <1>t, <2>1 DEF resolve_grounding_state, save_state, TaskState
    <2>3. ctx[r].items \in Refs
      BY <2>1 DEF GroundingKept, ItemsCited
    <2>4. store.grounding_locked => files.evidence \in Refs
      BY <1>o, <2>1 DEF GroundingKept, EvidenceFollows, LockedHasRefs, Unwritten
    <2>5. LockedHasRefs' /\ EvidenceFollows'
      BY <2>1, <2>2, <2>3, <2>4 DEF LockedHasRefs, EvidenceFollows, Unwritten
    <2>6. LoadedKeeps' /\ ItemsCited'
      BY <1>o, <2>1 DEF LoadedKeeps, ItemsCited
    <2>. QED BY <2>5, <2>6 DEF GroundingKept
  <1>5. CASE WriteGroundingEvidence(r)
    <2>1. pc[r] = "evidence" /\ pc'[r] = "retry_policy" /\ mem[r] = store /\ store' = store
      BY <1>5, <1>g, <1>s, StepSets DEF WriteGroundingEvidence
    <2>2. files'.evidence = store.grounding_refs
      BY <1>5, <1>t, <2>1 DEF WriteGroundingEvidence, Files
    <2>3. LockedHasRefs' /\ EvidenceFollows'
      BY <2>1, <2>2 DEF GroundingKept, LockedHasRefs, EvidenceFollows
    <2>4. LoadedKeeps' /\ ItemsCited'
      BY <1>o, <2>1 DEF LoadedKeeps, ItemsCited
    <2>. QED BY <2>3, <2>4 DEF GroundingKept
  <1>6. CASE \/ apply_blocked_dispatch_verdict(r) \/ EnterRetrieval(r) \/ ReuseExecution(r)
             \/ DispatchExecution(r) \/ StopOnBudget(r) \/ Execute(r) \/ Summarize(r)
             \/ SaveFinalState(r)
    <2>1. /\ pc[r] \in Begun /\ files' = files
          /\ pc[r] \in Unwritten => pc'[r] \in Unwritten
          /\ pc'[r] \notin {"loaded", "grounding"}
      <3>1. CASE apply_blocked_dispatch_verdict(r)
        BY <1>g, <3>1, StepSets DEF apply_blocked_dispatch_verdict, Unwritten
      <3>2. CASE EnterRetrieval(r)
        BY <1>g, <3>2, StepSets DEF EnterRetrieval, Unwritten
      <3>3. CASE ReuseExecution(r)
        BY <1>g, <3>3, StepSets DEF ReuseExecution, Unwritten
      <3>4. CASE DispatchExecution(r)
        BY <1>g, <3>4, StepSets DEF DispatchExecution, Unwritten
      <3>5. CASE StopOnBudget(r)
        BY <1>g, <3>5, StepSets DEF StopOnBudget, Unwritten
      <3>6. CASE Execute(r)
        BY <1>g, <3>6, StepSets DEF Execute, Unwritten
      <3>7. CASE Summarize(r)
        BY <1>g, <3>7, StepSets DEF Summarize, Unwritten
      <3>8. CASE SaveFinalState(r)
        BY <1>g, <3>8, StepSets DEF SaveFinalState, Unwritten
      <3>. QED BY <1>6, <3>1, <3>2, <3>3, <3>4, <3>5, <3>6, <3>7, <3>8
    <2>2. mem[r] = store
      BY <1>s, <2>1
    <2>3. /\ store'.grounding_locked = store.grounding_locked
          /\ store'.grounding_refs = store.grounding_refs
      <3>1. CASE apply_blocked_dispatch_verdict(r)
        BY <1>t, <2>2, <3>1 DEF apply_blocked_dispatch_verdict, save_state, TaskState
      <3>2. CASE EnterRetrieval(r)
        BY <1>t, <2>2, <3>2 DEF EnterRetrieval, save_state, TaskState
      <3>3. CASE ReuseExecution(r)
        BY <1>t, <2>2, <3>3 DEF ReuseExecution, save_state, TaskState
      <3>4. CASE DispatchExecution(r)
        BY <1>t, <2>2, <3>4 DEF DispatchExecution, save_state, TaskState
      <3>5. CASE StopOnBudget(r)
        BY <1>t, <2>2, <3>5 DEF StopOnBudget, save_state, TaskState
      <3>6. CASE Execute(r)
        BY <1>t, <2>2, <3>6 DEF Execute, save_state, TaskState
      <3>7. CASE Summarize(r)
        BY <1>t, <2>2, <3>7 DEF Summarize, save_state, TaskState
      <3>8. CASE SaveFinalState(r)
        BY <1>t, <2>2, <3>8 DEF SaveFinalState, save_state, TaskState
      <3>. QED BY <1>6, <3>1, <3>2, <3>3, <3>4, <3>5, <3>6, <3>7, <3>8
    <2>. QED BY <1>o, <2>1, <2>3, GroundingFrame
  <1>7. CASE \/ RunStarted(r) \/ DispatchBlockedEvent(r) \/ WriteExecutorOutput(r)
             \/ write_retry_policy_artifacts(r) \/ write_stop_policy_artifacts(r)
             \/ save_handoff(r) \/ write_checkpoint_snapshot_artifacts(r) \/ FinalEvent(r)
    <2>1. /\ store' = store
          /\ pc[r] \in Unwritten => pc'[r] \in Unwritten
          /\ pc'[r] \notin {"loaded", "grounding"}
      BY <1>7, <1>g DEF RunStarted, DispatchBlockedEvent, WriteExecutorOutput,
         write_retry_policy_artifacts, write_stop_policy_artifacts, save_handoff,
         write_checkpoint_snapshot_artifacts, FinalEvent, Unwritten
    <2>2. files'.evidence = files.evidence
      BY <1>7, <1>t DEF RunStarted, DispatchBlockedEvent, WriteExecutorOutput,
         write_retry_policy_artifacts, write_stop_policy_artifacts, save_handoff,
         write_checkpoint_snapshot_artifacts, FinalEvent, Files
    <2>. QED BY <1>o, <2>1, <2>2, GroundingFrame
  <1>. QED BY <1>1, <1>2, <1>3, <1>4, <1>5, <1>6, <1>7 DEF Step

(* Every step keeps the citations. *)
LEMMA GroundingNext ==
  ASSUME SerialOperator = TRUE, SerialInv, GroundingKept, [Next]_vars
  PROVE  GroundingKept'
  <1>. SUFFICES ASSUME crashes' = 0 PROVE GroundingKept'
    BY DEF GroundingKept
  <1>t. TypeOK /\ store \in TaskState /\ pc \in [Runners -> Steps]
    BY DEF SerialInv, TypeOK
  <1>1. CASE UNCHANGED vars
    BY <1>1 DEF vars, GroundingKept, LockedHasRefs, EvidenceFollows, LoadedKeeps, ItemsCited
  <1>2. CASE acknowledge_task
    <2>1. /\ UNCHANGED <<files, pc, mem, ctx, crashes>>
          /\ store'.grounding_locked = store.grounding_locked
          /\ store'.grounding_refs = store.grounding_refs
      BY <1>2, <1>t DEF acknowledge_task, TaskState
    <2>. QED BY <2>1 DEF GroundingKept, LockedHasRefs, EvidenceFollows, LoadedKeeps,
            ItemsCited
  <1>3. ASSUME NEW r \in Runners, Command(r) PROVE GroundingKept'
    <2>1. /\ UNCHANGED <<store, files, mem, crashes>> /\ pc[r] = "idle" /\ pc'[r] = "admitted"
          /\ \A q \in Runners \ {r} : pc'[q] = pc[q] /\ ctx'[q] = ctx[q]
      BY <1>3, <1>t, CommandAdmits
    <2>2. LockedHasRefs' /\ EvidenceFollows'
      BY <2>1 DEF GroundingKept, LockedHasRefs, EvidenceFollows, Unwritten
    <2>3. LoadedKeeps' /\ ItemsCited'
      BY <2>1 DEF GroundingKept, LoadedKeeps, ItemsCited
    <2>. QED BY <2>2, <2>3 DEF GroundingKept
  <1>4. ASSUME NEW r \in Runners, Crash(r) PROVE FALSE
    BY <1>4, <1>t DEF Crash, TypeOK
  <1>5. ASSUME NEW r \in Runners, Step(r) PROVE GroundingKept'
    BY <1>5, OneSteps, GroundingStep
  <1>. QED BY <1>1, <1>2, <1>3, <1>4, <1>5 DEF Next

(* With one command at a time, and if none was cut off, a run that does    *)
(* not reset the grounding keeps the citations a previous run locked       *)
(* (_resolve_grounding_state, write_task_artifacts).                       *)
THEOREM GroundingIsStable ==
  ASSUME SerialOperator = TRUE
  PROVE  Spec => GroundingStable
  <1>1. Init => GroundingKept
    BY DEF Init, create_task, GroundingKept, LockedHasRefs, EvidenceFollows, LoadedKeeps,
       ItemsCited
  <1>2. SerialInv /\ GroundingKept /\ [Next]_vars =>
          [\A r \in Runners :
             /\ pc[r] = "grounding" /\ pc'[r] = "dispatch"
             /\ ~ctx[r].reset /\ store.grounding_locked /\ crashes = 0
             => store'.grounding_refs = store.grounding_refs]_vars
    <2>. SUFFICES ASSUME SerialInv, GroundingKept, Next, NEW r \in Runners,
                         pc[r] = "grounding", pc'[r] = "dispatch",
                         store.grounding_locked, crashes = 0
                  PROVE  store'.grounding_refs = store.grounding_refs
      OBVIOUS
    <2>t. TypeOK /\ store \in TaskState /\ pc \in [Runners -> Steps]
      BY DEF SerialInv, TypeOK
    <2>1. PICK q \in Runners : Step(q)
      <3>1. ~acknowledge_task
        BY DEF acknowledge_task
      <3>2. ASSUME NEW q \in Runners, Command(q) \/ Crash(q) PROVE FALSE
        <4>1. pc' = [pc EXCEPT ![q] = "admitted"] \/ pc' = [pc EXCEPT ![q] = "idle"]
          BY <2>t, <3>2, CommandAdmits DEF Crash
        <4>. QED BY <2>t, <4>1
      <3>. QED BY <3>1, <3>2 DEF Next
    <2>2. q = r
      BY <2>1, OneSteps
    <2>3. resolve_grounding_state(r)
      <3>1. \A here, next : goto(r, here, next) => here = "grounding" /\ next = "dispatch"
        BY <2>t DEF goto
      <3>. QED BY <2>1, <2>2, <3>1 DEF Step, load_state, begin_execution_attempt, RunStarted,
              apply_blocked_dispatch_verdict, DispatchBlockedEvent, EnterRetrieval,
              run_retrieval, ReuseExecution, DispatchExecution, StopOnBudget,
              WriteExecutorOutput, Execute, Summarize, WriteGroundingEvidence,
              write_retry_policy_artifacts, write_stop_policy_artifacts, save_handoff,
              write_checkpoint_snapshot_artifacts, SaveFinalState, FinalEvent
    <2>4. mem[r] = store
      BY StepSets DEF SerialInv, RunnerInv
    <2>5. files.evidence = store.grounding_refs /\ store.grounding_refs \in Refs
      <3>1. \A p \in Runners : pc[p] \notin Unwritten
        BY <2>1, <2>2, OneSteps DEF Unwritten
      <3>. QED BY <3>1 DEF GroundingKept, EvidenceFollows, LockedHasRefs
    <2>. QED BY <2>t, <2>3, <2>4, <2>5, RefsAssumption DEF resolve_grounding_state, save_state,
            TaskState
  <1>. QED BY <1>1, <1>2, SerialCorrect, GroundingNext, PTL DEF Spec, GroundingStable

=============================================================================
