SPECIFICATION Spec
CONSTANTS
  None = None
  a = a
  b = b
  q1 = q1
  q2 = q2
  s1 = s1
  s2 = s2
  Requests = {q1, q2}
  Users = {a, b}
  Subjects = {a, b}
  Sessions = {s1, s2}
  Limit = 1
  Changes <- ChangesMC
  Change <- ChangeMC
  Starts <- StartsPass
INVARIANTS TypeOK AdminRemains
PROPERTIES RevocationCuts ClosedStaysClosed SuspensionCuts LimiterLetsGo
CHECK_DEADLOCK FALSE
