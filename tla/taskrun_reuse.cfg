\* A rerun from the analysis phase.
SPECIFICATION Spec
CONSTANTS
  Runners = {r1}
  Refs = {g1, g2}
  NoRefs = NoRefs
  AttemptBound = 2
  CrashBound = 0
  SerialOperator = TRUE
INVARIANT ReuseKeepsResult

\* a settled task may wait for a command for ever
CHECK_DEADLOCK FALSE
