SPECIFICATION FairSpec
CONSTANTS
  None = None
  doc = doc
  quiz = quiz
  video = video
  v1 = v1
  v2 = v2
  q1 = q1
  q2 = q2
  Requests = {q1, q2}
  Resources = {doc, quiz, video}
  Quizzes = {quiz}
  Media = {video}
  Needed <- NeededMC
  Seen <- LengthMC
  Length <- LengthMC
  Positions = {1, 2}
  Pace = 10
  Slack = 1
  Versions = {v1, v2}
  Contents <- RequiredMC
  Required <- RequiredMC
  Criterion <- CriterionMC
  MinScore <- MinScoreMC
  Budgets <- BudgetsPass
INVARIANTS TypeOK ApprovalIsEarned ApprovalHasItsJob BadgeIsEarned DwellIsReal
PROPERTIES BadgeIsIssuedOnce ApprovalGetsItsBadge
CHECK_DEADLOCK FALSE
