SPECIFICATION FairSpec
CONSTANTS
  None = None
  Requests = {1, 2}
  Workers = {1, 2}
  MaxRetry = 1
  Atomic = TRUE
  Budgets <- BudgetsPass
INVARIANTS TypeOK OnlyCleanIsProcessed SessionPlays
PROPERTIES InfectedIsFinal UploadSettles
CHECK_DEADLOCK FALSE
