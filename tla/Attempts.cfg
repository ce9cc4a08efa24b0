SPECIFICATION FairSpec
CONSTANTS
  None = None
  a1 = a1
  a2 = a2
  r1 = r1
  r2 = r2
  q1 = q1
  q2 = q2
  o1 = o1
  o2 = o2
  o3 = o3
  Attempts = {a1, a2}
  Requests = {r1, r2}
  Questions = {q1, q2}
  Options = {o1, o2, o3}
  Bodies <- BodiesMC
  Parts = 6
  Quizzes <- QuizzesMC
  Budgets <- BudgetsPass
INVARIANTS TypeOK OneInProgress GradingIsFair
PROPERTIES ResultIsFinal SubmitCloses PassReachesLearning
CHECK_DEADLOCK FALSE
