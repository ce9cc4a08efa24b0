------------------------------ MODULE Attempts ------------------------------
(***************************************************************************)
(* The attempts of one student at one quiz (modules/assessment/service.go, *)
(* domain.go and adapters/postgres/assessment.go). Every request reads,    *)
(* decides and writes in separate statements, without a lock; what the     *)
(* database holds against them is the partial unique index on attempts in  *)
(* progress and the condition of FinishAttempt's UPDATE.                   *)
(*                                                                         *)
(* Points are integers: any unit will do, for only their ratio counts. The  *)
(* code takes whatever number it is sent, negative ones too, and turns 0    *)
(* into 1. Scores and the pass mark are hundredths of a percentage point.   *)
(***************************************************************************)
EXTENDS Integers, FiniteSets, Functions

CONSTANTS
    Attempts,   \* attempt ids
    Requests,   \* concurrent requests of the student
    Questions, Options,
    Quizzes,    \* what the quiz may say: see Quiz
    Bodies,     \* the answers that one request may save
    Parts,      \* the parts into which a question's points are divided
    Budgets,    \* alternatives for how often each outside event may happen
    None

Kinds == {"start", "save", "submit", "edit", "enrollment",
          "crash"}  \* a request's process dies, or one of its statements fails

Policies == {"none", "score_only", "correctness", "full"}

\* The quiz of one version of the course. max = 0 is without limit.
Quiz == [key : [Questions -> SUBSET Options], points : [Questions -> Int \ {0}],
         single : SUBSET Questions, partial : BOOLEAN, pass : Int,
         max : Nat, timed : BOOLEAN, feedback : Policies]

ASSUME AttemptsAssumption ==
    /\ IsFiniteSet(Questions) /\ Questions # {} /\ IsFiniteSet(Options)
    /\ Quizzes \subseteq Quiz
    /\ \A b \in Bodies : DOMAIN b \subseteq Questions /\ DOMAIN b # {}
                       /\ \A q \in DOMAIN b : b[q] \subseteq Options
    /\ Parts \in Nat \ {0}
    /\ \A n \in 1..Cardinality(Options) : \E m \in 1..Parts : Parts = n * m
    /\ Budgets \subseteq [Kinds -> Nat]
    /\ None \notin Attempts /\ None \notin Int

VARIABLES
    quiz,     \* the quiz in the course's current version
    enrolled, \* the enrollment is active
    att,      \* rows of assessment.quiz_attempts and their answers
    late,     \* attempts whose expires_at has passed
    req,      \* what each request is doing
    marked,   \* MarcarRecursoAprobado has been called for this quiz
    shown,    \* attempts whose result was answered with the right options
    left      \* the budget that remains

vars == <<quiz, enrolled, att, late, req, marked, shown, left>>

Answers  == [Questions -> SUBSET Options]
Finished == {"submitted", "expired_submitted"}

Attempt == [status : {"absent", "in_progress"} \union Finished, number : Nat, timed : BOOLEAN,
            answers : Answers, score : Int \union {None}]
Request == [op : {"none", "start", "save", "submit", "mark"}, att : Attempts \union {None},
            used : Nat, timed : BOOLEAN, given : Answers, todo : SUBSET Questions,
            score : Int, status : {"none"} \union Finished, passes : BOOLEAN,
            feedback : Policies]

Blank  == [q \in Questions |-> {}]
Absent == [status |-> "absent", number |-> 0, timed |-> FALSE, answers |-> Blank, score |-> None]
Idle   == [op |-> "none", att |-> None, used |-> 0, timed |-> FALSE, given |-> Blank,
           todo |-> {}, score |-> 0, status |-> "none", passes |-> FALSE,
           feedback |-> "none"]

TypeOK ==
    /\ quiz \in Quizzes /\ enrolled \in BOOLEAN
    /\ att \in [Attempts -> Attempt] /\ late \subseteq Attempts
    /\ req \in [Requests -> Request]
    /\ marked \in BOOLEAN /\ shown \subseteq Attempts
    /\ left \in [Kinds -> Nat]

Init ==
    /\ quiz \in Quizzes /\ enrolled = TRUE
    /\ att = [a \in Attempts |-> Absent] /\ late = {}
    /\ req = [q \in Requests |-> Idle]
    /\ marked = FALSE /\ shown = {}
    /\ left \in Budgets

Spend(k) ==
    /\ left[k] > 0
    /\ left' = [left EXCEPT ![k] = @ - 1]

-----------------------------------------------------------------------------
(* Grading.                                                                *)

\* Faulty variant: the wrong options that were chosen are not counted.
ErrorsIgnored(key, chosen) == 0

\* contarRespuestas: chosen options that are right and that are wrong.
Hits(key, chosen)   == Cardinality(chosen \intersect key)
Errors(key, chosen) == Cardinality(chosen \ key)

\* puntosDePregunta, in parts of the question's points.
Credit(z, q, chosen) ==
    LET key == z.key[q]
        exact == key # {} /\ chosen = key
        hits == Hits(key, chosen)
        errors == Errors(key, chosen)
    IN  IF q \in z.single \/ ~z.partial THEN (IF exact THEN Parts ELSE 0)
        ELSE IF key = {} \/ hits <= errors THEN 0
        ELSE (hits - errors) * (Parts \div Cardinality(key))

\* The points that answers earn at each question, in parts.
Earned(z, answers) == [q \in Questions |-> Credit(z, q, answers[q]) * z.points[q]]

\* math.Round of a / b: a half goes away from zero.
Rounded(a, b) ==
    LET n == IF a < 0 THEN -a ELSE a
        d == IF b < 0 THEN -b ELSE b
        near == (2 * n + d) \div (2 * d)
    IN  IF (a < 0) = (b < 0) THEN near ELSE -near

\* Calificar: the percentage of the possible points, to two decimals.
Grade(z, answers) ==
    LET possible == SumFunction(z.points)
    IN  IF possible = 0 THEN 0
        ELSE Rounded(10000 * SumFunction(Earned(z, answers)), Parts * possible)

-----------------------------------------------------------------------------
(* Start: reads the previous attempts, then inserts.                       *)

Existing == {a \in Attempts : att[a].status # "absent"}

\* IntentosRestantes: whether there is one left.
Remains(z, used) == z.max = 0 \/ used < z.max

\* Refused while an attempt is in progress and in time.
StartRead(r) ==
    /\ req[r] = Idle
    /\ enrolled
    /\ \A a \in Existing : att[a].status = "in_progress" => a \in late
    /\ Remains(quiz, Cardinality(Existing))
    /\ Spend("start")
    /\ req' = [req EXCEPT ![r] = [Idle EXCEPT !.op = "start", !.used = Cardinality(Existing),
                                              !.timed = quiz.timed]]
    /\ UNCHANGED <<quiz, enrolled, att, late, marked, shown>>

\* Faulty variant: an index that looks only at attempts in time.
IndexAllowsExpired == \A a \in Attempts : att[a].status = "in_progress" => a \in late

\* The index admits one attempt in progress: the insert fails otherwise, also
\* when that attempt has expired.
IndexAllows == \A a \in Attempts : att[a].status # "in_progress"

StartInsert(r, a) ==
    /\ req[r].op = "start"
    /\ att[a].status = "absent"
    /\ att' = IF IndexAllows
              THEN [att EXCEPT ![a] = [Absent EXCEPT !.status = "in_progress",
                                       !.number = req[r].used + 1, !.timed = req[r].timed]]
              ELSE att
    /\ req' = [req EXCEPT ![r] = Idle]
    /\ UNCHANGED <<quiz, enrolled, late, marked, shown, left>>

-----------------------------------------------------------------------------
(* SaveAnswers: checks the attempt, then one upsert per question.          *)

SaveRead(r, a, body) ==
    /\ req[r] = Idle
    /\ att[a].status = "in_progress" /\ a \notin late
    /\ Spend("save")
    /\ req' = [req EXCEPT ![r] =
           [Idle EXCEPT !.op = "save", !.att = a, !.todo = DOMAIN body,
                        !.given = [q \in Questions |-> IF q \in DOMAIN body THEN body[q] ELSE {}]]]
    /\ UNCHANGED <<quiz, enrolled, att, late, marked, shown>>

\* Neither the attempt's status nor its time is looked at again.
SaveWrite(r, q) ==
    /\ req[r].op = "save" /\ q \in req[r].todo
    /\ att' = [att EXCEPT ![req[r].att].answers[q] = req[r].given[q]]
    /\ req' = [req EXCEPT ![r] = IF @.todo = {q} THEN Idle ELSE [req[r] EXCEPT !.todo = @ \ {q}]]
    /\ UNCHANGED <<quiz, enrolled, late, marked, shown, left>>

-----------------------------------------------------------------------------
(* Submit: reads and grades, finishes the attempt, tells learning.         *)

\* The status a Submit gives; as a faulty variant, the one that the table also allows.
ClosingExpired(a) == IF a \in late THEN "expired" ELSE "submitted"
Closing(a)        == IF a \in late THEN "expired_submitted" ELSE "submitted"

\* Graded with the current version's quiz, on the answers stored so far. A Submit of an
\* attempt that is closed answers its result, and does nothing else.
SubmitRead(r, a) ==
    /\ req[r] = Idle
    /\ att[a].status = "in_progress"
    /\ Spend("submit")
    /\ LET score == Grade(quiz, att[a].answers)
       IN  req' = [req EXCEPT ![r] =
               [Idle EXCEPT !.op = "submit", !.att = a, !.score = score,
                            !.status = Closing(a),
                            !.passes = score >= quiz.pass, !.feedback = quiz.feedback]]
    /\ UNCHANGED <<quiz, enrolled, att, late, marked, shown>>

\* FiltrarRetroalimentacion: 'full' shows the right options, and is degraded to
\* 'correctness' while attempts remain.
Reveals(policy, remaining) == policy = "full" /\ remaining = 0

\* vistaResultado, which submit and result call with 0 remaining attempts.
Answered(a, policy) == shown' = IF Reveals(policy, 0) THEN shown \union {a} ELSE shown

\* The condition of FinishAttempt's UPDATE, WHERE status = 'in_progress'; as faulty
\* variants, none, and one on the time as well.
ClosableAlways(a) == TRUE
ClosableInTime(a) == att[a].status = "in_progress" /\ a \notin late
Closable(a)       == att[a].status = "in_progress"

\* Whether a Submit tells learning; as a faulty variant, only one that was in time.
TellsInTime(t) == t.passes /\ t.status = "submitted"
Tells(t)       == t.passes

\* FinishAttempt. Nobody looks at how many rows it changed.
SubmitFinish(r) ==
    /\ req[r].op = "submit"
    /\ LET a == req[r].att IN
       /\ att' = IF Closable(a)
                 THEN [att EXCEPT ![a].status = req[r].status, ![a].score = req[r].score]
                 ELSE att
       /\ IF Tells(req[r])
          THEN req' = [req EXCEPT ![r].op = "mark"] /\ UNCHANGED shown
          ELSE req' = [req EXCEPT ![r] = Idle] /\ Answered(a, req[r].feedback)
    /\ UNCHANGED <<quiz, enrolled, late, marked, left>>

SubmitMark(r) ==
    /\ req[r].op = "mark"
    /\ marked' = TRUE
    /\ req' = [req EXCEPT ![r] = Idle]
    /\ Answered(req[r].att, req[r].feedback)
    /\ UNCHANGED <<quiz, enrolled, att, late, left>>

\* GET of the result of a closed attempt, with the current version's policy.
Result(a) ==
    /\ att[a].status \in Finished
    /\ Answered(a, quiz.feedback)
    /\ UNCHANGED <<quiz, enrolled, att, late, req, marked, left>>

-----------------------------------------------------------------------------
(* The process, the clock, and what other modules change.                  *)

RequestFails(r) ==
    /\ req[r] # Idle
    /\ Spend("crash")
    /\ req' = [req EXCEPT ![r] = Idle]
    /\ UNCHANGED <<quiz, enrolled, att, late, marked, shown>>

TimeRunsOut(a) ==
    /\ att[a].status = "in_progress" /\ att[a].timed
    /\ late' = late \union {a}
    /\ a \notin late
    /\ UNCHANGED <<quiz, enrolled, att, req, marked, shown, left>>

\* A version with another quiz under the same stable id is published.
VersionChanges(z) ==
    /\ Spend("edit")
    /\ quiz' = z
    /\ UNCHANGED <<enrolled, att, late, req, marked, shown>>

\* The student withdraws or enrolls again.
EnrollmentChanges ==
    /\ Spend("enrollment")
    /\ enrolled' = ~enrolled
    /\ UNCHANGED <<quiz, att, late, req, marked, shown>>

Advance(r) ==
    \/ \E a \in Attempts : StartInsert(r, a)
    \/ \E q \in Questions : SaveWrite(r, q)
    \/ SubmitFinish(r)
    \/ SubmitMark(r)

Next ==
    \/ \E r \in Requests :
         \/ StartRead(r)
         \/ \E a \in Attempts :
              \/ \E body \in Bodies : SaveRead(r, a, body)
              \/ SubmitRead(r, a)
         \/ Advance(r)
         \/ RequestFails(r)
    \/ \E a \in Attempts : TimeRunsOut(a) \/ Result(a)
    \/ \E z \in Quizzes : VersionChanges(z)
    \/ EnrollmentChanges

Spec == Init /\ [][Next]_vars

\* A request that was admitted runs to its end, unless its process dies.
Fairness == \A r \in Requests : WF_vars(Advance(r))

FairSpec == Spec /\ Fairness
=============================================================================
