------------------------------ MODULE TaskRun ------------------------------
(***************************************************************************)
(* The life of one task: the operator's commands (run, retry, resume,      *)
(* rerun, acknowledge) and the steps of run_task_async between two writes  *)
(* to disk.  A step is what happens between two points where a crash of    *)
(* the process leaves something different behind.                          *)
(*                                                                         *)
(* A runner is a process or request that executes a command.  It keeps a   *)
(* TaskState in memory and save_state overwrites the persisted one with    *)
(* it; the policy records that the next command reads are files of their   *)
(* own, written one after the other and never cleared when a run starts.   *)
(***************************************************************************)
EXTENDS Naturals, Sequences, ExecutorOutcome

CONSTANTS Runners,         \* processes that execute commands on the task
          Refs,            \* the grounding citations a retrieval may yield
          NoRefs,          \* no citations / no such artifact
          AttemptBound,    \* bound: attempts opened in a behaviour
          CrashBound,      \* bound: crashes of a runner in a behaviour
          SerialOperator   \* commands on the task are issued one at a time

ASSUME BoundsAssumption == /\ AttemptBound \in Nat
                           /\ CrashBound \in Nat
                           /\ SerialOperator \in BOOLEAN
ASSUME RefsAssumption == NoRefs \notin Refs

VARIABLES store,    \* the persisted TaskState
          files,    \* artifacts and policy records on disk
          log,      \* the events that open and close attempts
          pc,       \* the step a runner is at
          mem,      \* the TaskState a runner holds
          ctx,      \* the other locals of a runner's command
          crashes   \* crashes so far

vars == <<store, files, log, pc, mem, ctx, crashes>>

BASELINE_MAX_ATTEMPTS == 2

-----------------------------------------------------------------------------
(* Types *)

Terminal == {"completed", "failed", "waiting_human"}
Statuses == Terminal \cup {"created", "running", "dispatch_blocked"}
Phases == {"intake", "dispatch", "retrieval", "executing", "summarize",
           "waiting_human"}
Lifecycles == {"idle", "prepared", "blocked", "dispatched", "reused",
               "waiting_human", "completed", "failed"}
ExecutionPhases == {"pending", "retrieval_done", "execution_done", "analysis_done"}
DispatchStatuses == {"not_requested", "planned", "blocked", "acknowledged",
                     "dispatched"}
SkipPhases == {"retrieval", "execution", "analysis"}
MaybeRefs == Refs \cup {NoRefs}

TaskState ==
  [status           : Statuses,
   phase            : Phases,
   lifecycle        : Lifecycles,
   executor_status  : ExecutorStatuses,
   execution_phase  : ExecutionPhases,
   dispatch         : DispatchStatuses,
   attempt          : Nat,
   grounding_locked : BOOLEAN,
   grounding_refs   : MaybeRefs]

(* Verdicts of the checks run before the retry policy. *)
Checks == [blocking  : BOOLEAN,   \* compatibility, execution fit or validation failed
           knowledge : BOOLEAN]   \* knowledge policy failed

Handoffs == {"pending", "review_completed_run", "knowledge_policy_review",
             "resume_from_failure"}
Paths == {"run", "monitor", "retry", "review", "resume", "rerun", "inspect"}

(* "attempt" is the attempt a record was written in, 0 when the file does  *)
(* not exist; the readers below never look at it.                          *)
Files ==
  [retrieval : MaybeRefs,
   evidence  : MaybeRefs,
   output    : BOOLEAN,
   retry     : [attempt : Nat, retryable : BOOLEAN],
   stop      : [attempt : Nat, continue_allowed : BOOLEAN,
                checkpoint_kind : {"pending", "completed_run_review",
                                   "retry_review", "blocking_failure_review"}],
   handoff   : [attempt : Nat, status : Handoffs,
                executor_status : ExecutorStatuses, kind : FailureKinds],
   snapshot  : [attempt : Nat, resume_ready : BOOLEAN, path : Paths]]

Steps == {"idle", "admitted", "loaded", "begun", "started", "blocked",
          "retrieval", "grounding", "dispatch", "executing", "output", "executed",
          "evidence", "retry_policy", "stop_policy", "handoff", "snapshot",
          "finish", "finished"}

Context == [via    : {"none", "run", "retry", "resume", "rerun"},
            reset  : BOOLEAN,
            skip   : SkipPhases,
            multi  : BOOLEAN,
            reused : BOOLEAN,
            items  : MaybeRefs,
            result : ExecutorResult,
            checks : Checks]

EventTypes == {"task.run_started", "task.dispatch_blocked",
               "task.dispatch_acknowledged", "task.completed", "task.failed",
               "task.waiting_human"}
Events == [type : EventTypes, attempt : Nat]

TypeOK == /\ store \in TaskState
          /\ files \in Files
          /\ log \in Seq(Events)
          /\ pc \in [Runners -> Steps]
          /\ mem \in [Runners -> TaskState]
          /\ ctx \in [Runners -> Context]
          /\ crashes \in Nat

-----------------------------------------------------------------------------
(* Policies: what write_task_artifacts records about a finished execution. *)

evaluate_retry_policy(attempt, result, checks) ==
  [attempt   |-> attempt,
   retryable |-> /\ result.status # "completed"
                 /\ result.kind = "retryable"
                 /\ ~checks.blocking /\ ~checks.knowledge
                 /\ attempt < BASELINE_MAX_ATTEMPTS]

evaluate_stop_policy(attempt, result, retry) ==
  [attempt          |-> attempt,
   continue_allowed |-> FALSE,
   checkpoint_kind  |-> IF result.status = "completed" THEN "completed_run_review"
                        ELSE IF retry.retryable THEN "retry_review"
                        ELSE "blocking_failure_review"]

AllPassed(result, checks) ==
  result.status = "completed" /\ ~checks.blocking /\ ~checks.knowledge

is_knowledge_policy_review_required(result, checks) ==
  result.status = "completed" /\ ~checks.blocking /\ checks.knowledge

build_handoff_record(attempt, result, checks) ==
  [attempt         |-> attempt,
   status          |-> IF AllPassed(result, checks) THEN "review_completed_run"
                       ELSE IF is_knowledge_policy_review_required(result, checks)
                            THEN "knowledge_policy_review"
                       ELSE "resume_from_failure",
   executor_status |-> result.status,
   kind            |-> result.kind]

(* The retry branch needs continue_allowed, which evaluate_stop_policy     *)
(* never grants.                                                           *)
evaluate_checkpoint_snapshot(attempt, status, handoff, retry, stop) ==
  [attempt      |-> attempt,
   resume_ready |-> handoff.status = "resume_from_failure",
   path |->
     IF status = "created" THEN "run"
     ELSE IF status = "running" THEN "monitor"
     ELSE IF /\ retry.retryable /\ stop.continue_allowed
             /\ stop.checkpoint_kind = "retry_review" THEN "retry"
     ELSE IF status = "waiting_human"
          THEN IF handoff.status = "knowledge_policy_review" THEN "review" ELSE "run"
     ELSE IF handoff.status = "review_completed_run" THEN "review"
     ELSE IF handoff.status = "resume_from_failure" THEN "resume"
     ELSE IF status \in {"completed", "failed"} THEN "rerun"
     ELSE "inspect"]

classify_task_terminal_state(result, checks) ==
  IF is_knowledge_policy_review_required(result, checks)
  THEN [status |-> "waiting_human", lifecycle |-> "completed"]
  ELSE IF AllPassed(result, checks)
  THEN [status |-> "completed", lifecycle |-> "completed"]
  ELSE [status |-> "failed", lifecycle |-> "failed"]

manual_intervention_required(result) ==
  result.exhausted \/ result.kind = "budget_exhausted"

(* The status render_state carries and the status run_task_async saves. *)
FinalState(result, checks) ==
  IF manual_intervention_required(result)
  THEN [status |-> "waiting_human", lifecycle |-> "waiting_human"]
  ELSE classify_task_terminal_state(result, checks)

-----------------------------------------------------------------------------
(* Commands *)

is_acknowledged_dispatch_reentry ==
  /\ store.status = "running"
  /\ store.phase = "retrieval"
  /\ store.dispatch = "acknowledged"

load_checkpoint_snapshot ==
  IF files.snapshot.attempt > 0 THEN files.snapshot
  ELSE evaluate_checkpoint_snapshot(0, store.status, files.handoff,
                                    files.retry, files.stop)

retry_allowed == /\ files.retry.retryable
                 /\ files.stop.checkpoint_kind = "retry_review"

resume_allowed == /\ load_checkpoint_snapshot.resume_ready
                  /\ load_checkpoint_snapshot.path = "resume"

Quiet == \A r \in Runners : pc[r] = "idle"
MayIssue == SerialOperator => Quiet

NoResult == [status |-> "pending", kind |-> "none", exhausted |-> FALSE]
NoChecks == [blocking |-> FALSE, knowledge |-> FALSE]

run_task_command(r, via, reset, skip) ==
  /\ pc[r] = "idle" /\ MayIssue
  /\ store.attempt < AttemptBound
  /\ pc' = [pc EXCEPT ![r] = "admitted"]
  /\ ctx' = [ctx EXCEPT ![r] =
       [via |-> via, reset |-> reset, skip |-> skip, multi |-> FALSE,
        reused |-> FALSE, items |-> NoRefs, result |-> NoResult,
        checks |-> NoChecks]]
  /\ UNCHANGED <<store, files, log, mem, crashes>>

Run(r) == run_task_command(r, "run", FALSE, "retrieval")

(* A retry after an acknowledged block keeps the grounding lock. *)
retry_task_command(r, skip) ==
  /\ is_acknowledged_dispatch_reentry \/ retry_allowed
  /\ run_task_command(r, "retry", ~is_acknowledged_dispatch_reentry, skip)

resume_task_command(r) ==
  /\ is_acknowledged_dispatch_reentry \/ resume_allowed
  /\ run_task_command(r, "resume", FALSE, "retrieval")

rerun_task_command(r, skip) == run_task_command(r, "rerun", TRUE, skip)

(* Faults: the dispatch verdict is written over the status; a task in any  *)
(* status may be acknowledged.                                             *)
acknowledge_task_status ==
  /\ MayIssue
  /\ store.status = "dispatch_blocked"
  /\ store' = [store EXCEPT !.status = "acknowledged", !.phase = "retrieval"]
  /\ log' = Append(log, [type |-> "task.dispatch_acknowledged",
                         attempt |-> store.attempt])
  /\ UNCHANGED <<files, pc, mem, ctx, crashes>>

acknowledge_task_unguarded ==
  /\ MayIssue
  /\ store.status # "created"
  /\ store' = [store EXCEPT !.status = "running", !.phase = "retrieval",
                            !.dispatch = "acknowledged"]
  /\ log' = Append(log, [type |-> "task.dispatch_acknowledged",
                         attempt |-> store.attempt])
  /\ UNCHANGED <<files, pc, mem, ctx, crashes>>

acknowledge_task ==
  /\ MayIssue
  /\ store.status = "dispatch_blocked"
  /\ store' = [store EXCEPT !.status = "running", !.phase = "retrieval",
                            !.lifecycle = "prepared",
                            !.executor_status = "pending",
                            !.dispatch = "acknowledged"]
  /\ log' = Append(log, [type |-> "task.dispatch_acknowledged",
                         attempt |-> store.attempt])
  /\ UNCHANGED <<files, pc, mem, ctx, crashes>>

-----------------------------------------------------------------------------
(* The steps of run_task_async *)

save_state(r, state) ==
  /\ mem' = [mem EXCEPT ![r] = state]
  /\ store' = state

goto(r, here, next) ==
  /\ pc[r] = here
  /\ pc' = [pc EXCEPT ![r] = next]

load_state(r) ==
  /\ goto(r, "admitted", "loaded")
  /\ mem' = [mem EXCEPT ![r] =
       IF ctx[r].reset
       THEN [store EXCEPT !.grounding_refs = NoRefs, !.grounding_locked = FALSE]
       ELSE store]
  /\ UNCHANGED <<store, files, log, ctx, crashes>>

(* Fault: a run that follows an acknowledged block continues its attempt. *)
begin_execution_attempt_continued(r) ==
  /\ goto(r, "loaded", "begun")
  /\ save_state(r, [mem[r] EXCEPT !.attempt = IF mem[r].dispatch = "acknowledged"
                                              THEN @ ELSE @ + 1,
                                  !.dispatch = "planned",
                                  !.executor_status = "running",
                                  !.status = "running", !.phase = "intake",
                                  !.execution_phase = "pending"])
  /\ UNCHANGED <<files, log, ctx, crashes>>

(* Route selection and _begin_execution_attempt, up to the first save. *)
begin_execution_attempt(r) ==
  /\ goto(r, "loaded", "begun")
  /\ save_state(r, [mem[r] EXCEPT !.attempt = @ + 1, !.lifecycle = "prepared",
                                  !.dispatch = "planned",
                                  !.executor_status = "running",
                                  !.status = "running", !.phase = "intake",
                                  !.execution_phase = "pending"])
  /\ UNCHANGED <<files, log, ctx, crashes>>

append_event(r, type) ==
  log' = Append(log, [type |-> type, attempt |-> mem[r].attempt])

RunStarted(r) ==
  /\ goto(r, "begun", "started")
  /\ append_event(r, "task.run_started")
  /\ UNCHANGED <<store, files, mem, ctx, crashes>>

(* Fault: the verdict is recorded, the status is not moved. *)
apply_blocked_dispatch_verdict_silent(r) ==
  /\ goto(r, "started", "blocked")
  /\ save_state(r, [mem[r] EXCEPT !.dispatch = "blocked", !.lifecycle = "blocked"])
  /\ UNCHANGED <<files, log, ctx, crashes>>

(* _evaluate_dispatch_for_run says "blocked". *)
apply_blocked_dispatch_verdict(r) ==
  /\ goto(r, "started", "blocked")
  /\ save_state(r, [mem[r] EXCEPT !.dispatch = "blocked", !.lifecycle = "blocked",
                                  !.executor_status = "blocked",
                                  !.status = "dispatch_blocked",
                                  !.phase = "dispatch"])
  /\ UNCHANGED <<files, log, ctx, crashes>>

DispatchBlockedEvent(r) ==
  /\ goto(r, "blocked", "idle")
  /\ append_event(r, "task.dispatch_blocked")
  /\ UNCHANGED <<store, files, mem, ctx, crashes>>

(* The verdict lets the run through; plan() yields one card or several. *)
EnterRetrieval(r) ==
  /\ goto(r, "started", "retrieval")
  /\ save_state(r, [mem[r] EXCEPT !.phase = "retrieval"])
  /\ \E multi \in BOOLEAN : ctx' = [ctx EXCEPT ![r].multi = multi]
  /\ UNCHANGED <<files, log, crashes>>

run_retrieval(r) ==
  /\ goto(r, "retrieval", "grounding")
  /\ IF ctx[r].skip \in {"execution", "analysis"} /\ files.retrieval # NoRefs
     THEN /\ ctx' = [ctx EXCEPT ![r].items = files.retrieval]
          /\ UNCHANGED files
     ELSE \E items \in Refs :
            /\ ctx' = [ctx EXCEPT ![r].items = items]
            /\ files' = [files EXCEPT !.retrieval = items]
  /\ UNCHANGED <<store, log, mem, crashes>>

(* Fault: the grounding is rebuilt whether it is locked or not. *)
resolve_grounding_state_unlocked(r) ==
  /\ goto(r, "grounding", "dispatch")
  /\ save_state(r, [mem[r] EXCEPT !.grounding_refs = ctx[r].items,
                                  !.grounding_locked = TRUE,
                                  !.execution_phase = "retrieval_done"])
  /\ UNCHANGED <<files, log, ctx, crashes>>

(* A locked grounding is taken from the evidence artifact, if there is one; *)
(* otherwise it is rebuilt from the items of this retrieval.                *)
resolve_grounding_state(r) ==
  /\ goto(r, "grounding", "dispatch")
  /\ LET refs == IF mem[r].grounding_locked /\ files.evidence # NoRefs
                 THEN files.evidence ELSE ctx[r].items
     IN save_state(r, [mem[r] EXCEPT !.grounding_refs = refs,
                                     !.grounding_locked = TRUE,
                                     !.execution_phase = "retrieval_done"])
  /\ UNCHANGED <<files, log, ctx, crashes>>

ReusesExecution(r) ==
  ctx[r].skip = "analysis" /\ ~ctx[r].multi /\ files.output

(* The status of a reused result is read from the state in memory, where   *)
(* begin_execution_attempt has set it; only the kind comes from the        *)
(* handoff of the earlier attempt.                                         *)
load_previous_executor_result(r) ==
  [status    |-> IF mem[r].executor_status # "pending"
                 THEN mem[r].executor_status ELSE files.handoff.executor_status,
   kind      |-> files.handoff.kind,
   exhausted |-> FALSE]

ReuseExecution(r) ==
  /\ ReusesExecution(r)
  /\ goto(r, "dispatch", "executed")
  /\ LET result == load_previous_executor_result(r)
     IN /\ ctx' = [ctx EXCEPT ![r].result = result, ![r].reused = TRUE]
        /\ save_state(r, [mem[r] EXCEPT !.lifecycle = "reused",
                                        !.executor_status = result.status,
                                        !.phase = "executing",
                                        !.execution_phase = "execution_done"])
  /\ UNCHANGED <<files, log, crashes>>

DispatchExecution(r) ==
  /\ ~ReusesExecution(r)
  /\ goto(r, "dispatch", "executing")
  /\ save_state(r, [mem[r] EXCEPT !.dispatch = "dispatched",
                                  !.lifecycle = "dispatched",
                                  !.phase = "executing"])
  /\ UNCHANGED <<files, log, ctx, crashes>>

(* The budget guard stops the run before any executor is called. *)
StopOnBudget(r) ==
  /\ goto(r, "executing", "executed")
  /\ LET result == [status |-> "failed", kind |-> "budget_exhausted", exhausted |-> FALSE]
     IN /\ ctx' = [ctx EXCEPT ![r].result = result]
        /\ save_state(r, [mem[r] EXCEPT !.executor_status = result.status,
                                        !.execution_phase = "execution_done"])
  /\ UNCHANGED <<files, log, crashes>>

(* run_execution writes the artifacts of an executor call while the debate *)
(* loop is still going on.                                                 *)
WriteExecutorOutput(r) ==
  /\ goto(r, "executing", "output")
  /\ files' = [files EXCEPT !.output = TRUE]
  /\ UNCHANGED <<store, log, mem, ctx, crashes>>

Execute(r) ==
  /\ goto(r, "output", "executed")
  /\ \E result \in Outcomes :
       /\ ctx' = [ctx EXCEPT ![r].result = result]
       /\ save_state(r, [mem[r] EXCEPT !.executor_status = result.status,
                                       !.execution_phase = "execution_done"])
  /\ UNCHANGED <<files, log, crashes>>

Summarize(r) ==
  /\ goto(r, "executed", "evidence")
  /\ save_state(r, [mem[r] EXCEPT !.phase = "summarize",
                                  !.execution_phase = "analysis_done"])
  /\ UNCHANGED <<files, log, ctx, crashes>>

(* write_task_artifacts, in the order of its writes. *)
WriteGroundingEvidence(r) ==
  /\ goto(r, "evidence", "retry_policy")
  /\ files' = [files EXCEPT !.evidence = mem[r].grounding_refs]
  /\ UNCHANGED <<store, log, mem, ctx, crashes>>

(* The checks; execution fit fails a run without a dispatch record. *)
write_retry_policy_artifacts(r) ==
  /\ goto(r, "retry_policy", "stop_policy")
  /\ \E checks \in Checks :
       /\ mem[r].dispatch # "dispatched" => checks.blocking
       /\ ctx' = [ctx EXCEPT ![r].checks = checks]
       /\ files' = [files EXCEPT !.retry =
            evaluate_retry_policy(mem[r].attempt, ctx[r].result, checks)]
  /\ UNCHANGED <<store, log, mem, crashes>>

write_stop_policy_artifacts(r) ==
  /\ goto(r, "stop_policy", "handoff")
  /\ files' = [files EXCEPT !.stop =
       evaluate_stop_policy(mem[r].attempt, ctx[r].result,
         evaluate_retry_policy(mem[r].attempt, ctx[r].result, ctx[r].checks))]
  /\ UNCHANGED <<store, log, mem, ctx, crashes>>

(* Fault: a run that passed leaves no handoff. *)
save_handoff_on_failure(r) ==
  /\ goto(r, "handoff", "snapshot")
  /\ files' = IF AllPassed(ctx[r].result, ctx[r].checks) THEN files
              ELSE [files EXCEPT !.handoff =
                build_handoff_record(mem[r].attempt, ctx[r].result, ctx[r].checks)]
  /\ UNCHANGED <<store, log, mem, ctx, crashes>>

save_handoff(r) ==
  /\ goto(r, "handoff", "snapshot")
  /\ files' = [files EXCEPT !.handoff =
       build_handoff_record(mem[r].attempt, ctx[r].result, ctx[r].checks)]
  /\ UNCHANGED <<store, log, mem, ctx, crashes>>

(* Fault: the snapshot is taken of the state as saved, which is running. *)
write_checkpoint_snapshot_of_saved_state(r) ==
  /\ goto(r, "snapshot", "finish")
  /\ files' = [files EXCEPT !.snapshot =
       evaluate_checkpoint_snapshot(mem[r].attempt, mem[r].status,
         files.handoff, files.retry, files.stop)]
  /\ UNCHANGED <<store, log, mem, ctx, crashes>>

write_checkpoint_snapshot_artifacts(r) ==
  /\ goto(r, "snapshot", "finish")
  /\ LET retry == evaluate_retry_policy(mem[r].attempt, ctx[r].result, ctx[r].checks)
     IN files' = [files EXCEPT !.snapshot =
          evaluate_checkpoint_snapshot(
            mem[r].attempt, FinalState(ctx[r].result, ctx[r].checks).status,
            build_handoff_record(mem[r].attempt, ctx[r].result, ctx[r].checks),
            retry, evaluate_stop_policy(mem[r].attempt, ctx[r].result, retry))]
  /\ UNCHANGED <<store, log, mem, ctx, crashes>>

(* Only a manual stop moves the phase; a knowledge policy review keeps it. *)
SaveFinalState(r) ==
  /\ goto(r, "finish", "finished")
  /\ LET final == FinalState(ctx[r].result, ctx[r].checks)
     IN save_state(r, [mem[r] EXCEPT
          !.status = final.status, !.lifecycle = final.lifecycle,
          !.phase = IF manual_intervention_required(ctx[r].result)
                    THEN "waiting_human" ELSE @])
  /\ UNCHANGED <<files, log, ctx, crashes>>

(* Fault: the event follows the executor's status, not the task's. *)
ClosingEventOfExecutor(r) ==
  IF ctx[r].result.status = "completed" THEN "task.completed" ELSE "task.failed"

ClosingEvent(r) ==
  IF manual_intervention_required(ctx[r].result) THEN "task.waiting_human"
  ELSE IF mem[r].status = "completed" THEN "task.completed" ELSE "task.failed"

FinalEvent(r) ==
  /\ goto(r, "finished", "idle")
  /\ append_event(r, ClosingEvent(r))
  /\ UNCHANGED <<store, files, mem, ctx, crashes>>

(* The process dies, or an exception leaves run_task_async: what was saved *)
(* stays, what was in memory is gone.                                      *)
Crash(r) ==
  /\ pc[r] # "idle"
  /\ crashes < CrashBound
  /\ crashes' = crashes + 1
  /\ pc' = [pc EXCEPT ![r] = "idle"]
  /\ UNCHANGED <<store, files, log, mem, ctx>>

-----------------------------------------------------------------------------
create_task ==
  [status |-> "created", phase |-> "intake", lifecycle |-> "idle",
   executor_status |-> "pending", execution_phase |-> "pending",
   dispatch |-> "not_requested", attempt |-> 0,
   grounding_locked |-> FALSE, grounding_refs |-> NoRefs]

NoFiles ==
  [retrieval |-> NoRefs, evidence |-> NoRefs, output |-> FALSE,
   retry |-> [attempt |-> 0, retryable |-> FALSE],
   stop |-> [attempt |-> 0, continue_allowed |-> FALSE, checkpoint_kind |-> "pending"],
   handoff |-> [attempt |-> 0, status |-> "pending",
                executor_status |-> "completed", kind |-> "none"],
   snapshot |-> [attempt |-> 0, resume_ready |-> FALSE, path |-> "run"]]

Init == /\ store = create_task
        /\ files = NoFiles
        /\ log = <<>>
        /\ pc = [r \in Runners |-> "idle"]
        /\ mem = [r \in Runners |-> create_task]
        /\ ctx = [r \in Runners |->
             [via |-> "none", reset |-> FALSE, skip |-> "retrieval",
              multi |-> FALSE, reused |-> FALSE, items |-> NoRefs,
              result |-> NoResult, checks |-> NoChecks]]
        /\ crashes = 0

Command(r) == \/ Run(r)
              \/ \E skip \in SkipPhases : retry_task_command(r, skip)
              \/ resume_task_command(r)
              \/ \E skip \in SkipPhases : rerun_task_command(r, skip)

(* One step of the command a runner is executing. *)
Step(r) == \/ load_state(r)
           \/ begin_execution_attempt(r)
           \/ RunStarted(r)
           \/ apply_blocked_dispatch_verdict(r)
           \/ DispatchBlockedEvent(r)
           \/ EnterRetrieval(r)
           \/ run_retrieval(r)
           \/ resolve_grounding_state(r)
           \/ ReuseExecution(r)
           \/ DispatchExecution(r)
           \/ StopOnBudget(r)
           \/ WriteExecutorOutput(r)
           \/ Execute(r)
           \/ Summarize(r)
           \/ WriteGroundingEvidence(r)
           \/ write_retry_policy_artifacts(r)
           \/ write_stop_policy_artifacts(r)
           \/ save_handoff(r)
           \/ write_checkpoint_snapshot_artifacts(r)
           \/ SaveFinalState(r)
           \/ FinalEvent(r)

Next == \/ acknowledge_task
        \/ \E r \in Runners : Command(r) \/ Step(r) \/ Crash(r)

Spec == Init /\ [][Next]_vars

(* A started command is executed to its end: run_task_async has no wait    *)
(* without a timeout.  Nothing obliges the operator to issue a command.    *)
FairSpec == Spec /\ \A r \in Runners : WF_vars(Step(r))

-----------------------------------------------------------------------------
(* Properties *)

(* An attempt number names one run: no two task.run_started events carry   *)
(* the same attempt, although the counter is read and written back by      *)
(* whichever process runs the command (run_attempt_count, load_state then  *)
(* save_state).                                                            *)
AttemptIdentifiesRun ==
  \A i, j \in DOMAIN log :
    /\ i # j
    /\ log[i].type = "task.run_started" /\ log[j].type = "task.run_started"
    => log[i].attempt # log[j].attempt

(* When the status says the task is settled, every policy record that the  *)
(* next command will read was written by the attempt that settled it, even *)
(* if earlier attempts crashed half way through write_task_artifacts.      *)
SettledRecordsAreCurrent ==
  store.status \in Terminal =>
    /\ files.retry.attempt = store.attempt
    /\ files.stop.attempt = store.attempt
    /\ files.handoff.attempt = store.attempt
    /\ files.snapshot.attempt = store.attempt

(* On a settled task the gates of retry and resume, which look only at the *)
(* files, agree with the status: resume is open exactly after a failure,   *)
(* retry only after a failure that leaves attempts.                        *)
GatesAgreeWithStatus ==
  store.status \in Terminal =>
    /\ resume_allowed <=> store.status = "failed"
    /\ retry_allowed => /\ store.status = "failed"
                        /\ store.attempt < BASELINE_MAX_ATTEMPTS

(* A run that does not reset the grounding keeps the citations a previous  *)
(* run locked (_resolve_grounding_state), if no run was cut off between    *)
(* the lock and the evidence.                                              *)
GroundingStable ==
  [][\A r \in Runners :
       /\ pc[r] = "grounding" /\ pc'[r] = "dispatch"
       /\ ~ctx[r].reset /\ store.grounding_locked /\ crashes = 0
       => store'.grounding_refs = store.grounding_refs]_vars

(* Between commands, none of which was cut off, the event log closes the   *)
(* last attempt the way the status does: the task is completed exactly     *)
(* when the last of the attempt's events is task.completed.                *)
CompletionLogged ==
  Quiet /\ crashes = 0 /\ log # <<>> =>
    (store.status = "completed" <=> log[Len(log)].type = "task.completed")

(* Every attempt that begins is settled or blocked, unless its process     *)
(* dies; only an acknowledged task waits in "running" for a command.       *)
EveryAttemptSettles ==
  (store.status = "running" /\ store.dispatch # "acknowledged")
    ~> (store.status # "running" \/ crashes > 0)

(* The persisted status and attempt move as TaskTruth promises. *)
Truth == INSTANCE TaskTruth WITH status <- store.status, attempt <- store.attempt
RefinesTaskTruth == Truth!Spec

(* A run from the analysis phase works on the previous executor result:    *)
(* the status it hands to the policies is the one that result had          *)
(* (_load_previous_executor_result).                                       *)
ReuseKeepsResult ==
  \A r \in Runners :
    /\ pc[r] = "executed" /\ ctx[r].reused /\ files.handoff.attempt > 0
    => ctx[r].result.status = files.handoff.executor_status

=============================================================================
