-------------------------- MODULE MCKnowledgeJobs --------------------------
(* A wiki job, an audited run, and an operator who tries two synthesis     *)
(* configurations that share a participant and one the policy refuses.     *)
EXTENDS KnowledgeJobs

Config(id, participants, rounds, hint) ==
  [id |-> id, participants |-> participants, rounds |-> rounds, arbiter |-> "judge",
   hint |-> hint]

MCConfigs ==
  {Config("s1", <<"p", "q">>, 2, [p |-> "none", q |-> "http", judge |-> "none"]),
   Config("s2", <<"p", "q">>, 1, [p |-> "http", q |-> "cli", judge |-> "none"]),
   Config("s3", <<"p">>, 3, [p |-> "none", judge |-> "none"])}

MCPolicy == [enabled |-> TRUE, on_degraded |-> TRUE, threshold |-> 2]
MCOutputs == {None, [degraded |-> FALSE, cost |-> 2], [degraded |-> FALSE, cost |-> 1]}
=============================================================================
