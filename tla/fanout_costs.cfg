\* Are the costs of the cards part of the task's budget?
CONSTANTS
  unknown = unknown
  UnknownCard = unknown
  CardCount = 2
  Graphs <- ParallelGraphs
  workers = 2
  HasReviewers = FALSE
  token_cost_limit = 1
  MaxPrior = 0
  MaxCost = 1
SPECIFICATION Spec
INVARIANT CostsAreCounted
CHECK_DEADLOCK FALSE
