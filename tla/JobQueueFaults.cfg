SPECIFICATION FairSpec
CONSTANTS
  None = None
  j1 = j1
  w1 = w1
  w2 = w2
  p1 = p1
  p2 = p2
  Jobs = {j1}
  Workers = {w1, w2}
  Publishers = {p1, p2}
  MaxRetry = 2
  Budgets <- BudgetsFaults
INVARIANTS TypeOK ExclusiveDelivery FailedStaysInQueue
PROPERTIES KeepsContract EveryJobSettles
CHECK_DEADLOCK FALSE
