\* Two commands on the task may overlap.
SPECIFICATION Spec
CONSTANTS
  Runners = {r1, r2}
  Refs = {g1, g2}
  NoRefs = NoRefs
  AttemptBound = 2
  CrashBound = 0
  SerialOperator = FALSE
INVARIANT AttemptIdentifiesRun

\* a settled task may wait for a command for ever
CHECK_DEADLOCK FALSE
