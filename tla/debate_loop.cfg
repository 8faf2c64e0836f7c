\* Majority, veto and no reviewers, with and without a token budget.
SPECIFICATION FairSpec
CONSTANTS
  http = http
  cli = cli
  summary = summary
  detached = detached
  note = note
  remote = remote
  ping = ping
  pong = pong
  NoRoute = NoRoute
  Routes <- SmallRoutes
  FallbackOf <- SmallFallbackOf
  ExecutorOf <- SmallExecutorOf
  DetachedRoutes <- SmallDetached
  ChainEnabled <- SmallChainEnabled
  StartRoutes <- SmallStartRoutes
  TaskCards <- SmallCards
  MaxCost = 2
  MaxPrior = 5
INVARIANTS AcceptedMeansApproved ExhaustedAfterAllRounds FeedbackIsCurrent
INVARIANTS OverrunBounded
PROPERTY Returns
\* the loop returns once
CHECK_DEADLOCK FALSE
