\* Every dependency graph of three cards, with reviewers and a budget.
CONSTANTS
  unknown = unknown
  UnknownCard = unknown
  CardCount = 3
  Graphs <- SmallGraphs
  workers = 2
  HasReviewers = TRUE
  token_cost_limit = 1
  MaxPrior = 1
  MaxCost = 0
SPECIFICATION FairSpec
INVARIANTS LogTellsOutcome
INVARIANTS ExhaustedCardsUsedAllRounds RefusesExactlyBadPlans DependenciesFirst
PROPERTIES OnlyRejectedAreRetried Ends
\* the fan-out returns or raises once
CHECK_DEADLOCK FALSE
