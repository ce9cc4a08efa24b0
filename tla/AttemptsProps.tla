--------------------------- MODULE AttemptsProps ---------------------------
(* What the attempts at a quiz are checked for. *)
EXTENDS Attempts

\* "Un solo intento en curso por quiz y estudiante": two Starts that both saw
\* none leave one.
OneInProgress ==
    \A a, b \in Attempts :
        att[a].status = "in_progress" /\ att[b].status = "in_progress" => a = b

\* The result of an attempt is decided once, by whichever Submit comes first.
ResultIsFinal ==
    [][\A a \in Attempts : att[a].status \in Finished
         => att'[a].status = att[a].status /\ att'[a].score = att[a].score]_vars

\* "Solo `full` revela la clave [...] y solo si ya no quedan intentos
\* disponibles" (ADR-0013), of a quiz that is not edited in between.
KeyIsKeptBack == shown # {} => ~Remains(quiz, Cardinality(Existing))

NobodyDies == [](left["crash"] = 0)

\* A Submit closes its attempt, also one that is late.
SubmitCloses ==
    NobodyDies => \A r \in Requests, a \in Attempts :
        req[r].op = "submit" /\ req[r].att = a ~> att[a].status \in Finished

\* A result that passes reaches learning (MarcarRecursoAprobado).
PassReachesLearning ==
    NobodyDies => \A a \in Attempts :
        att[a].status \in Finished /\ (\A z \in Quizzes : att[a].score >= z.pass) ~> marked

\* What the contract of PUT quiz asks of the points (openapi.yaml, minimum: 0) and the
\* handler of the keys. The handler does not ask the first.
WellFormed(z) == \A q \in Questions : z.points[q] > 0 /\ z.key[q] # {}

\* The hundredth nearest to the percentage of the points that s earns.
NearestHundredth(z, s) ==
    LET whole == Parts * SumFunction(z.points)
        twice == 2 * (10000 * SumFunction(Earned(z, s)) - Grade(z, s) * whole)
    IN  /\ SumFunction(z.points) > 0 => -whole <= twice /\ twice <= whole
        /\ SumFunction(z.points) < 0 => whole <= twice /\ twice <= -whole

\* Full marks are for exactly the right options; or what is missing is lost in the
\* rounding: a question not answered exactly misses at least its points over the number
\* of its right options, and that is at most half a hundredth of a percent of all.
FullMarks(z, s) ==
    \A q \in Questions :
        s[q] # z.key[q]
          => 20000 * z.points[q] <= Cardinality(z.key[q]) * SumFunction(z.points)

\* Calificar against what a grade means, of the answers that are stored. Whatever the
\* points, it is the nearest hundredth. If they are positive it is between 0 and 100,
\* exactly the right options get 100, 100 means full marks, and one more wrong option
\* never raises it.
FairGrade(z, s) ==
    /\ NearestHundredth(z, s)
    /\ WellFormed(z) =>
         /\ Grade(z, s) \in 0..10000
         /\ (\A q \in Questions : s[q] = z.key[q]) => Grade(z, s) = 10000
         /\ Grade(z, s) = 10000 => FullMarks(z, s)
         /\ \A q \in Questions, o \in Options : o \notin z.key[q]
              => Grade(z, [s EXCEPT ![q] = @ \union {o}]) <= Grade(z, s)

GradingIsFair == \A a \in Existing : FairGrade(quiz, att[a].answers)
=============================================================================
