----------------------------- MODULE MCTaskRun -----------------------------
(* TaskRun on small instances: see the cfg files for the constants. *)
EXTENDS TaskRun
=============================================================================
