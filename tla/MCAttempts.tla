----------------------------- MODULE MCAttempts -----------------------------
(* Instances of Attempts for TLC. *)
EXTENDS AttemptsProps, TLC

CONSTANTS a1, a2, r1, r2, q1, q2, o1, o2, o3

\* Two questions: partial credit where two options are right; all or nothing, timed; and
\* points that make grades below 0 and above 100.
Partial  == [key |-> q1 :> {o1, o2} @@ q2 :> {o1}, points |-> q1 :> 2 @@ q2 :> 1,
             single |-> {q2}, partial |-> TRUE, pass |-> 5000, max |-> 2, timed |-> FALSE,
             feedback |-> "full"]
Single   == [key |-> q1 :> {o1} @@ q2 :> {o2}, points |-> q1 :> 2 @@ q2 :> 1,
             single |-> {q1, q2}, partial |-> TRUE, pass |-> 5000, max |-> 0, timed |-> TRUE,
             feedback |-> "correctness"]
Negative == [Single EXCEPT !.points = q1 :> 2 @@ q2 :> -1, !.timed = FALSE]
QuizzesMC == {Partial, Single, Negative}

\* Some of a question's options, right and wrong, or an answer to both.
BodiesMC == {q1 :> {o1}, q1 :> {o1, o3}, q1 :> {o1, o2, o3}, q2 :> {o2},
             q1 :> {o1, o2} @@ q2 :> {o1}}

Never == [k \in Kinds |-> 0]
\* Two attempts; a second version; a withdrawal; and requests that die.
BudgetsPass ==
    { [Never EXCEPT !["start"] = 2, !["save"] = 1, !["submit"] = 2],
      [Never EXCEPT !["start"] = 1, !["save"] = 2, !["submit"] = 2, !["edit"] = 1],
      [Never EXCEPT !["start"] = 2, !["save"] = 1, !["submit"] = 1, !["enrollment"] = 1],
      [Never EXCEPT !["start"] = 2, !["save"] = 1, !["submit"] = 2, !["crash"] = 1] }
\* One attempt of the two there are, from its start to its result.
BudgetsOne == { [Never EXCEPT !["start"] = 2, !["save"] = 1, !["submit"] = 2] }
=============================================================================
