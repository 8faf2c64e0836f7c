\* One command at a time, a crash at any point.
SPECIFICATION FairSpec
CONSTANTS
  Runners = {r1}
  Refs = {g1, g2}
  NoRefs = NoRefs
  AttemptBound = 3
  CrashBound = 1
  SerialOperator = TRUE
INVARIANTS TypeOK AttemptIdentifiesRun SettledRecordsAreCurrent GatesAgreeWithStatus
  CompletionLogged
PROPERTIES RefinesTaskTruth GroundingStable EveryAttemptSettles
\* a settled task may wait for a command for ever
CHECK_DEADLOCK FALSE
