------------------------------ MODULE Progress ------------------------------
(***************************************************************************)
(* One enrollment of a student in a course: the evidence its resources     *)
(* receive, the state that is recomputed from it, and the badge it earns   *)
(* (modules/learning, modules/badges and their stores).                    *)
(*                                                                         *)
(* A request reads the enrollment and the resource's row first, and writes *)
(* both whole in a transaction later. PostgreSQL runs the transactions at  *)
(* READ COMMITTED: what one has not committed, another does not see.       *)
(*                                                                         *)
(* Time is counted in ticks of CadenciaMinima (10 s); positions in a media *)
(* resource have a unit of their own.                                      *)
(***************************************************************************)
EXTENDS Naturals, FiniteSets

CONSTANTS
    Requests,   \* concurrent requests about this enrollment
    Resources,  \* stable ids of the course's resources
    Quizzes,    \* those that are quizzes
    Media,      \* those that are video or audio
    Needed,     \* dwell that completes a resource
    Seen,       \* position that completes a media resource
    Length,     \* duration of a media resource
    Positions,  \* positions in a media resource that a client may report
    Pace,       \* positions a tick allows: FactorAvanceMaximo
    Slack,      \* positions allowed beyond the end, or beyond the pace: 2 s
    Versions,   \* versions of the course
    Contents,   \* visible resources of each version
    Required,   \* required and visible resources of each version
    Criterion,  \* required_completion_pct of each version
    MinScore,   \* whether the version asks for a min_quiz_score
    Budgets,    \* alternatives for how often each outside event may happen
    None

Kinds == {"enroll", "withdraw", "evidence", "quiz", "publish", "revoke",
          "crash",   \* a request's process dies, or its transaction fails
          "tick",    \* the clock moves
          "lost"}    \* Submit does not get to call MarcarRecursoAprobado

ASSUME ProgressAssumption ==
    /\ Quizzes \subseteq Resources /\ Media \subseteq Resources
    /\ Quizzes \intersect Media = {}
    /\ Needed \in [Resources -> Nat] /\ Seen \in [Resources -> Nat]
    /\ Length \in [Resources -> Nat] /\ Positions \subseteq Nat /\ Pace \in Nat /\ Slack \in Nat
    /\ Contents \in [Versions -> SUBSET Resources]
    /\ Required \in [Versions -> SUBSET Resources]
    /\ \A v \in Versions : IsFiniteSet(Required[v])
    /\ Criterion \in [Versions -> 0..100]
    /\ MinScore \in [Versions -> BOOLEAN]
    /\ Budgets \subseteq [Kinds -> Nat]
    /\ None \notin Versions /\ None \notin Resources /\ None \notin Nat

VARIABLES
    enr,        \* the row of progress.enrollments
    prog,       \* progress.resource_progress, "not_started" without a row
    req,        \* what each request is doing
    current,    \* courses.current_version_id
    published,  \* whether that version is published
    scored,     \* required quizzes with a submitted attempt of the minimum score
    calls,      \* passed quizzes whose Submit has not called learning yet
    job,        \* the badge.issue job of this enrollment
    issuer,     \* the worker that runs it
    badge,      \* the row of badges.badges
    now,        \* the server's clock
    left        \* the budget that remains

course == <<current, published>>
badges == <<job, issuer, badge>>
vars == <<enr, prog, req, course, scored, calls, badges, now, left>>

States == {"in_progress", "completed", "approved"}

Enrollment == [status : {"none", "active", "withdrawn"}, state : States, pct : 0..100,
               version : Versions \union {None}, completedAt : BOOLEAN, approvedAt : BOOLEAN]
Row == [state : {"not_started", "in_progress", "completed"}, dwell : Nat,
        last : Nat, max : Nat, opened : BOOLEAN, done : BOOLEAN, updated : Nat]
Request == [pc : {"idle", "withdraw", "tx", "commit"}, e : Enrollment,
            version : Versions \union {None}, res : Resources \union {None}, row : Row,
            approves : BOOLEAN]

NotEnrolled == [status |-> "none", state |-> "in_progress", pct |-> 0,
                version |-> None, completedAt |-> FALSE, approvedAt |-> FALSE]
NotStarted  == [state |-> "not_started", dwell |-> 0, last |-> 0, max |-> 0,
                opened |-> FALSE, done |-> FALSE, updated |-> 0]
Idle        == [pc |-> "idle", e |-> NotEnrolled, version |-> None, res |-> None,
                row |-> NotStarted, approves |-> FALSE]

TypeOK ==
    /\ enr \in Enrollment
    /\ prog \in [Resources -> Row]
    /\ req \in [Requests -> Request]
    /\ current \in Versions /\ published \in BOOLEAN
    /\ scored \subseteq Quizzes /\ calls \subseteq Quizzes
    /\ job \in {"none", "recorded", "done"}
    /\ issuer \in [pc : {"idle", "insert", "image"}, version : Versions \union {None}]
    /\ badge \in [version : Versions \union {None}, image : BOOLEAN, revoked : BOOLEAN]
    /\ now \in Nat
    /\ left \in [Kinds -> Nat]

Init ==
    /\ enr = NotEnrolled
    /\ prog = [r \in Resources |-> NotStarted]
    /\ req = [q \in Requests |-> Idle]
    /\ current \in Versions /\ published = TRUE
    /\ scored = {} /\ calls = {}
    /\ job = "none"
    /\ issuer = [pc |-> "idle", version |-> None]
    /\ badge = [version |-> None, image |-> FALSE, revoked |-> FALSE]
    /\ now = 0
    /\ left \in Budgets

Spend(k) ==
    /\ left[k] > 0
    /\ left' = [left EXCEPT ![k] = @ - 1]

-----------------------------------------------------------------------------
(* Enrolling and withdrawing.                                              *)

\* Inserts the row, or reactivates the one there is: progress is kept.
Enroll ==
    /\ published
    /\ enr.status # "active"
    /\ Spend("enroll")
    /\ enr' = [enr EXCEPT !.status = "active"]
    /\ UNCHANGED <<prog, req, course, scored, calls, badges, now>>

WithdrawRead(q) ==
    /\ req[q] = Idle
    /\ enr.status = "active"
    /\ Spend("withdraw")
    /\ req' = [req EXCEPT ![q] = [Idle EXCEPT !.pc = "withdraw", !.e = enr]]
    /\ UNCHANGED <<enr, prog, course, scored, calls, badges, now>>

\* UpdateEnrollment writes every column of the row that was read.
WithdrawCommit(q) ==
    /\ req[q].pc = "withdraw"
    /\ enr' = [req[q].e EXCEPT !.status = "withdrawn"]
    /\ req' = [req EXCEPT ![q] = Idle]
    /\ UNCHANGED <<prog, course, scored, calls, badges, now, left>>

-----------------------------------------------------------------------------
(* Evidence: ValidarEvidencia, aplicarEvidencia and CriterioCompletado.    *)

Previous(r) ==
    IF prog[r].state = "not_started" THEN [prog[r] EXCEPT !.updated = now] ELSE prog[r]

\* An "open" is always accepted, with whatever position it carries. p is the
\* resource's row as it was read and pos may be None.
Accepted(kind, pos, p, r) ==
    \/ kind = "open"
    \/ /\ p.opened
       /\ kind = "heartbeat" => now - p.updated >= 1
       /\ pos # None => /\ pos <= Length[r] + Slack
                        /\ pos <= p.last + Pace * (now - p.updated) + Slack

\* Faulty variant: every heartbeat is worth a fixed dwell.
DwellPerHeartbeat(kind, p) == IF kind = "open" THEN 0 ELSE 2

Dwell(kind, p) ==
    IF kind = "open" THEN 0 ELSE IF now - p.updated > 2 THEN 2 ELSE now - p.updated

CriterionMet(p, r) ==
    /\ r \notin Quizzes
    /\ p.opened \/ r \in Media
    /\ p.dwell >= Needed[r]
    /\ r \in Media => p.max >= Seen[r]

Applied(kind, pos, p, r) ==
    LET n == [p EXCEPT !.updated = now,
                       !.opened = @ \/ kind = "open",
                       !.state = IF @ = "not_started" THEN "in_progress" ELSE @,
                       !.dwell = @ + Dwell(kind, p),
                       !.last = IF pos = None THEN @ ELSE pos,
                       !.max = IF pos # None /\ pos > @ THEN pos ELSE @]
    IN  IF CriterionMet(n, r) THEN [n EXCEPT !.state = "completed", !.done = TRUE] ELSE n

\* What the transaction is given: the enrollment and the version as they were
\* read, and the resource's new row.
Transaction(r, row) ==
    [pc |-> "tx", e |-> enr, version |-> current, res |-> r, row |-> row, approves |-> FALSE]

\* A rejected evidence is only written to the log of events.
ReportEvidence(q, r, kind, pos) ==
    /\ req[q] = Idle
    /\ enr.status = "active"
    /\ published /\ r \in Contents[current]
    /\ Accepted(kind, pos, Previous(r), r)
    /\ Spend("evidence")
    /\ req' = [req EXCEPT ![q] = Transaction(r, Applied(kind, pos, Previous(r), r))]
    /\ UNCHANGED <<enr, prog, course, scored, calls, badges, now>>

-----------------------------------------------------------------------------
(* Quizzes: what assessment's Submit does here. External to this module.   *)

QuizPassed(r) ==
    /\ enr.status # "none"
    /\ r \in Contents[current]
    /\ Spend("quiz")
    /\ calls' = calls \union {r}
    /\ \/ scored' = scored \union {r}
       \/ UNCHANGED scored
    /\ UNCHANGED <<enr, prog, req, course, badges, now>>

\* MarcarRecursoAprobado does not look at the enrollment's status.
MarkRead(q, r) ==
    /\ req[q] = Idle
    /\ r \in calls
    /\ published
    /\ calls' = calls \ {r}
    /\ req' = [req EXCEPT ![q] =
           Transaction(r, [prog[r] EXCEPT !.state = "completed", !.updated = now,
                                          !.opened = TRUE, !.done = TRUE])]
    /\ UNCHANGED <<enr, prog, course, scored, badges, now, left>>

\* Submit logs the error of the call, for instance because the course has no
\* published version, or its process dies before making it.
MarkLost(r) ==
    /\ r \in calls
    /\ IF published THEN Spend("lost") ELSE UNCHANGED left
    /\ calls' = calls \ {r}
    /\ UNCHANGED <<enr, prog, req, course, scored, badges, now>>

-----------------------------------------------------------------------------
(* The transaction: UpsertProgress and recalcular.                         *)

\* Faulty variant: the division is lost.
PercentUndivided(n, m) == IF m = 0 THEN 0 ELSE n * 100

Percent(n, m) == IF m = 0 THEN 0 ELSE (n * 100) \div m

\* MinQuizScoreCumplida: every required quiz has a result of the minimum score.
Scored(v) == MinScore[v] => Required[v] \intersect Quizzes \subseteq scored

\* Faulty variant: the minimum score is not asked for.
EvaluatedUnscored(state, pct, v) ==
    IF state = "approved" \/ pct >= Criterion[v]
    THEN "approved" ELSE IF pct >= 100 THEN "completed" ELSE "in_progress"

\* Faulty variant: the score alone approves.
EvaluatedByScore(state, pct, v) ==
    IF state = "approved" \/ Scored(v)
    THEN "approved" ELSE IF pct >= 100 THEN "completed" ELSE "in_progress"

\* EvaluarEstado.
Evaluated(state, pct, v) ==
    IF state = "approved" THEN "approved"
    ELSE IF pct >= Criterion[v] /\ Scored(v)
    THEN "approved"
    ELSE IF pct >= 100 THEN "completed" ELSE "in_progress"

\* recalcular and marcarFechas on the enrollment e that the request read.
Recalculated(e, pct, v) ==
    LET s == Evaluated(e.state, pct, v)
        first == s = "approved" /\ ~e.approvedAt
    IN  [e EXCEPT !.state = s, !.pct = pct,
                  !.completedAt = @ \/ s = "completed" \/ first,
                  !.approvedAt = @ \/ first,
                  !.version = IF first THEN v ELSE @]

\* ON CONFLICT: everything is overwritten but the dates, which coalesce.
Upserted(r, row) ==
    [row EXCEPT !.opened = @ \/ prog[r].opened, !.done = @ \/ prog[r].done]

\* ProgressOf inside the transaction: its own row, and the others' committed.
CompletedIn(v, r, row) ==
    {x \in Required[v] : (IF x = r THEN row.state ELSE prog[x].state) = "completed"}

\* The upsert holds the lock of its row until the commit.
Recalculate(q) ==
    /\ req[q].pc = "tx"
    /\ \A o \in Requests : req[o].pc = "commit" => req[o].res # req[q].res
    /\ LET r   == req[q].res
           v   == req[q].version
           row == Upserted(r, req[q].row)
           pct == Percent(Cardinality(CompletedIn(v, r, row)), Cardinality(Required[v]))
           e   == Recalculated(req[q].e, pct, v)
       IN  req' = [req EXCEPT ![q] =
               [@ EXCEPT !.pc = "commit", !.row = row, !.e = e,
                         !.approves = e.state = "approved" /\ req[q].e.state # "approved"]]
    /\ UNCHANGED <<enr, prog, course, scored, calls, badges, now, left>>

\* Faulty variant: no badge job for a student who withdrew.
CommitIfActive(q) ==
    /\ req[q].pc = "commit"
    /\ prog' = [prog EXCEPT ![req[q].res] = req[q].row]
    /\ enr' = req[q].e
    /\ job' = IF req[q].approves /\ job = "none" /\ req[q].e.status = "active"
              THEN "recorded" ELSE job
    /\ req' = [req EXCEPT ![q] = Idle]
    /\ UNCHANGED <<course, scored, calls, issuer, badge, now, left>>

\* UpdateEnrollment, the badge job of an approval that is new to the request
\* (Record leaves a job it already has alone), and the commit.
Commit(q) ==
    /\ req[q].pc = "commit"
    /\ prog' = [prog EXCEPT ![req[q].res] = req[q].row]
    /\ enr' = req[q].e
    /\ job' = IF req[q].approves /\ job = "none" THEN "recorded" ELSE job
    /\ req' = [req EXCEPT ![q] = Idle]
    /\ UNCHANGED <<course, scored, calls, issuer, badge, now, left>>

RequestFails(q) ==
    /\ req[q] # Idle
    /\ Spend("crash")
    /\ req' = [req EXCEPT ![q] = Idle]
    /\ UNCHANGED <<enr, prog, course, scored, calls, badges, now>>

-----------------------------------------------------------------------------
(* badge.issue: Handle reads the enrollment, inserts the badge once and    *)
(* uploads its image. The queue runs it until it succeeds (JobQueue).      *)

\* Faulty variant: the handler asks whether the enrollment is still approved.
IssueReadApproved ==
    /\ job = "recorded" /\ enr.state = "approved"
    /\ issuer.pc = "idle"
    /\ issuer' = [pc |-> "insert", version |-> enr.version]
    /\ UNCHANGED <<enr, prog, req, course, scored, calls, job, badge, now, left>>

IssueRead ==
    /\ job = "recorded"
    /\ issuer.pc = "idle"
    /\ issuer' = [pc |-> "insert", version |-> IF enr.version # None THEN enr.version ELSE current]
    /\ UNCHANGED <<enr, prog, req, course, scored, calls, job, badge, now, left>>

\* Faulty variant: ON CONFLICT DO UPDATE.
IssueOverwrites ==
    /\ issuer.pc = "insert"
    /\ badge' = [version |-> issuer.version, image |-> FALSE, revoked |-> FALSE]
    /\ issuer' = [issuer EXCEPT !.pc = "image"]
    /\ UNCHANGED <<enr, prog, req, course, scored, calls, job, now, left>>

\* ON CONFLICT (enrollment_id) DO NOTHING.
IssueInsert ==
    /\ issuer.pc = "insert"
    /\ badge' = IF badge.version = None THEN [badge EXCEPT !.version = issuer.version] ELSE badge
    /\ issuer' = [issuer EXCEPT !.pc = "image"]
    /\ UNCHANGED <<enr, prog, req, course, scored, calls, job, now, left>>

IssueImage ==
    /\ issuer.pc = "image"
    /\ badge' = [badge EXCEPT !.image = TRUE]
    /\ issuer' = [pc |-> "idle", version |-> None]
    /\ job' = "done"
    /\ UNCHANGED <<enr, prog, req, course, scored, calls, now, left>>

IssueFails ==
    /\ issuer.pc # "idle"
    /\ Spend("crash")
    /\ issuer' = [pc |-> "idle", version |-> None]
    /\ UNCHANGED <<enr, prog, req, course, scored, calls, job, badge, now>>

Revoke ==
    /\ badge.version # None
    /\ Spend("revoke")
    /\ badge' = [badge EXCEPT !.revoked = TRUE]
    /\ UNCHANGED <<enr, prog, req, course, scored, calls, job, issuer, now>>

-----------------------------------------------------------------------------
(* The course, which authoring publishes and withdraws, and the clock.     *)

Publish(v) ==
    /\ Spend("publish")
    /\ current' = v /\ published' = TRUE
    /\ UNCHANGED <<enr, prog, req, scored, calls, badges, now>>

Unpublish ==
    /\ published
    /\ Spend("publish")
    /\ published' = FALSE
    /\ UNCHANGED <<enr, prog, req, current, scored, calls, badges, now>>

Tick ==
    /\ Spend("tick")
    /\ now' = now + 1
    /\ UNCHANGED <<enr, prog, req, course, scored, calls, badges>>

Evidence(q) ==
    \E r \in Resources, kind \in {"open", "heartbeat", "close"} :
        \E pos \in {None} \union (IF r \in Media THEN Positions ELSE {}) : ReportEvidence(q, r, kind, pos)

Issue == IssueRead \/ IssueInsert \/ IssueImage

Next ==
    \/ Enroll
    \/ \E q \in Requests :
         \/ WithdrawRead(q) \/ WithdrawCommit(q)
         \/ Evidence(q)
         \/ \E r \in Quizzes : MarkRead(q, r)
         \/ Recalculate(q) \/ Commit(q) \/ RequestFails(q)
    \/ \E r \in Quizzes : QuizPassed(r) \/ MarkLost(r)
    \/ Issue \/ IssueFails \/ Revoke
    \/ \E v \in Versions : Publish(v)
    \/ Unpublish
    \/ Tick

Spec == Init /\ [][Next]_vars

\* Requests that were admitted run to their end and the job queue delivers
\* the badge job until it succeeds. Nothing obliges the student.
Fairness ==
    /\ \A q \in Requests : WF_vars(WithdrawCommit(q) \/ Recalculate(q) \/ Commit(q))
    /\ \A r \in Quizzes : WF_vars(\E q \in Requests : MarkRead(q, r))
    /\ WF_vars(Issue)

FairSpec == Spec /\ Fairness
=============================================================================
