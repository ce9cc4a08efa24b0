SPECIFICATION Spec
CONSTANTS
  None = None
  Requests = {q1, q2, q3}
  Bodies = {b1, b2}
  Budgets <- BudgetsPass
INVARIANTS TypeOK OnceAndForAll
PROPERTIES EveryKeyComesBack
CHECK_DEADLOCK FALSE
