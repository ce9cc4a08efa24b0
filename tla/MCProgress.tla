----------------------------- MODULE MCProgress -----------------------------
(* Instances of Progress for TLC. *)
EXTENDS ProgressProps, TLC

CONSTANTS q1, q2, doc, quiz, video, v1, v2

\* One tick completes the document and the video, whose end a position of 2 s past it
\* may claim. Positions are in units of 2 s: a tick of 10 s allows 10 at twice the speed.
NeededMC == [r \in Resources |-> IF r = quiz THEN 0 ELSE 1]
LengthMC == [r \in Resources |-> IF r = video THEN 1 ELSE 0]
\* The second version swaps the document for the video and asks for less.
RequiredMC  == (v1 :> {doc, quiz}) @@ (v2 :> {video, quiz})
CriterionMC == (v1 :> 100) @@ (v2 :> 50)
MinScoreMC  == (v1 :> TRUE) @@ (v2 :> FALSE)

Never == [k \in Kinds |-> 0]
Student == [Never EXCEPT !["enroll"] = 1, !["evidence"] = 2, !["quiz"] = 1, !["tick"] = 1]
\* The student withdraws and comes back; the course changes; things fail; a pause is
\* longer than what it may count for.
BudgetsPass ==
    { [Student EXCEPT !["withdraw"] = 1, !["enroll"] = 2],
      [Student EXCEPT !["publish"] = 1],
      [Student EXCEPT !["lost"] = 1],
      [Student EXCEPT !["crash"] = 1, !["revoke"] = 1],
      [Never EXCEPT !["enroll"] = 1, !["evidence"] = 2, !["tick"] = 3] }
\* Nothing fails and the course does not change.
BudgetsHistoric == { [Student EXCEPT !["withdraw"] = 1] }
=============================================================================
