----------------------------- MODULE TaskTruth -----------------------------
(***************************************************************************)
(* What the task record promises its readers: a task has one status and    *)
(* one attempt counter, every run opens a new attempt, and an attempt is   *)
(* closed once, from "running".  TaskRun implements this specification     *)
(* when the commands of one task are issued one at a time.                 *)
(***************************************************************************)
EXTENDS Naturals

VARIABLES status,    \* state.status of the persisted task
          attempt    \* state.run_attempt_count of the persisted task

Terminal == {"completed", "failed", "waiting_human"}
Statuses == Terminal \cup {"created", "running", "dispatch_blocked"}

Init == status = "created" /\ attempt = 0

(* A run may start from any status: run and rerun check none. *)
Begin == /\ status' = "running"
         /\ attempt' = attempt + 1

Block == /\ status = "running"
         /\ status' = "dispatch_blocked"
         /\ UNCHANGED attempt

Acknowledge == /\ status = "dispatch_blocked"
               /\ status' = "running"
               /\ UNCHANGED attempt

Settle == /\ status = "running"
          /\ status' \in Terminal
          /\ UNCHANGED attempt

Next == Begin \/ Block \/ Acknowledge \/ Settle

Spec == Init /\ [][Next]_<<status, attempt>>
=============================================================================
