SPECIFICATION Spec
CONSTANTS
  None = None
  AnyTag = AnyTag
  q1 = q1
  q2 = q2
  m1 = m1
  u1 = u1
  u2 = u2
  x1 = x1
  x2 = x2
  t1 = t1
  k1 = k1
  Requests = {q1, q2}
  MaxVersion = 3
  ModuleIds = {m1}
  UnitIds = {u1, u2}
  ResourceIds = {x1, x2}
  Inputs <- InputsMC
  Texts = {t1}
  Links = {k1}
  Quizzes = {z1, z2}
  Allowed = {}
  Budgets <- BudgetsPass
INVARIANTS TypeOK OneDraft CourseFollowsItsVersion
PROPERTIES PublishedIsValidated LateWriteIsRefused CloneInheritsAll KeepsContract
SYMMETRY Symmetry
CHECK_DEADLOCK FALSE
