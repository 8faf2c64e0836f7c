SPECIFICATION Spec
CONSTANTS
  None = None
  Artifacts = {"a", "b", "gone"}
  Present = {"a", "b"}
  Sources = {"s"}
  Words = {"u", "v"}
  Procs = {"cli", "runner"}
  Offered <- MCOffered
  Created <- MCCreated
  Requests <- MCRequests
  LegacyRequest <- MCLegacyRequest
  StagedText <- MCStagedText
  Judgments <- MCJudgments
  CommandBound = 3
  CrashBound = 1
  RoundBound = 2
INVARIANTS TypeOK RecordHasDecision PromotionIsComplete IndexTellsView
PROPERTIES LibrarianKeepsActive MirrorsAreSecondary
CHECK_DEADLOCK FALSE
