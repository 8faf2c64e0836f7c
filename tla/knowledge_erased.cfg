SPECIFICATION Spec
CONSTANTS
  None = None
  Artifacts = {"a", "b", "gone"}
  Present = {"a", "b"}
  Sources = {"s"}
  Words = {"u", "v"}
  Procs = {"cli", "runner"}
  Offered <- MCOfferedAlone
  Created <- MCCreated
  Requests <- MCRequests
  LegacyRequest <- MCLegacyRequest
  StagedText <- MCStagedText
  Judgments <- MCJudgments
  CommandBound = 3
  CrashBound = 0
  RoundBound = 2
PROPERTY CanonicalNeverErased
CHECK_DEADLOCK FALSE
