SPECIFICATION FairSpec
CONSTANTS
  None = None
  Jobs = {"j"}
  Configs <- MCConfigs
  RoundLimit = 2
  ParticipantLimit = 4
  Audits = {"a"}
  Policy <- MCPolicy
  Outputs <- MCOutputs
  SynthesisBound = 4
  CrashBound = 1
INVARIANTS CandidatesTellTheirOrigin ArbitrationIsGrounded
PROPERTIES BackgroundWorkEnds
CHECK_DEADLOCK FALSE
