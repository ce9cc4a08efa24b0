# Verification of Plataforma MOOC

TLA+ models of the backend in `src/backend`, model-checked with TLC on small
instances and proved, as far as safety goes, with TLAPS. Paths below are relative to
`src/`; `…/` stands for `backend/internal/`.

## The system

A Go modular monolith. API processes serve HTTP and write to PostgreSQL; worker
processes run asynchronous jobs delivered by asynq (Redis). Both are replicated.
PostgreSQL runs at READ COMMITTED and holds the truth; Redis holds the queue,
sessions and rate limits; media lives in an object store.

| Component | State | Operations | What is hard | What makes it correct |
| --- | --- | --- | --- | --- |
| Job registry and queue (`…/platform/jobs`, `…/adapters/queue`, `cmd/worker`) | `platform.job_runs`; asynq tasks | Record, Publish/Republicar, TryClaim, Heartbeat, Succeed, Fail, Kill, reaper, requeue | crashes, Redis loss, duplicate publication, stalls, shutdown, retries | one execution at a time; a finished job is not redone; every job settles |
| Learning (`…/modules/learning`) | `progress.enrollments`, `resource_progress` | Enroll, Withdraw, ReportEvidence, MarcarRecursoAprobado, recalcular | requests overlap and write back what they read; the course changes | approval is earned, recorded once, not undone |
| Badges (`…/modules/badges`) | `badges.badges`, image | badge.issue, Revoke | the job repeats after a crash | one badge per enrollment, for an earned approval |
| Assessment (`…/modules/assessment`) | `quiz_attempts`, `attempt_answers` | Start, SaveAnswers, Submit, the result, Calificar, the feedback policy | two tabs, expiry, changed quiz, the key of the quiz | one attempt in progress; one result; fair grading; the key kept back |
| Media (`…/modules/media`) | `media.assets`, uploads, derivatives | Iniciar, Completar, Abortar, Verificar, Escanear, Transcodificar, downloads | repeated and late jobs, abort racing completion, crashes around the store | only clean and complete media is served; every upload gets its verdict |
| Playback sessions (`…/modules/media/sesion.go`) | Redis keys | AbrirSesion, MasterDeSesion | expiry, an asset that changes under an open session | what a session names is there |
| Authoring (`…/modules/authoring`, PutQuiz of assessment, migration 0002) | courses, versions, modules, units, resources, quizzes | CreateCourse, UpdateCourse, Publish, Unpublish, NewVersion, the writes of the tree | validation and cloning in several statements, ETags, the trigger | one draft; what is published was validated and is frozen; clones lose nothing |
| Identity (`…/modules/identity`) | users, one-time tokens, `identity.sessions` | Register, VerifyEmail, Login, Logout, the check of every request | suspension racing login, Redis and PostgreSQL failing apart | a suspension cuts access at once |
| Sessions in Redis (`…/adapters/sessions`) | a hash per session, a set per user | Create, Lookup, Delete, DeleteAllForUser | commands of several clients between each other | what ended stays so; a revocation cuts what it found |
| Admin (`…/modules/admin`) | users, sessions, jobs | CrearUsuario, ActualizarUsuario, RevocarSesiones, Reencolar | two demotions at once | one administrator remains |
| Rate limiting (`…/platform/ratelimit`) | counters in Redis | Permitir | counter and expiry in one step; fails open | nobody is refused for ever |
| Idempotency keys (`…/platform/idempotency`) | `platform.idempotency_keys` | Requerida, Podar | crash between claim and answer; registry down | one execution and one answer per key |
| Pruning (`…/adapters/postgres/poda.go`) | old rows | by age | what is pruned is still wanted | nothing in use goes |
| Audit, adapters of external programs, HTTP layer, commands, configuration, frontend | none that another part reads | | best effort; pure I/O | see *Not modelled* |

How they interact: learning and the other domains record a job inside their own
transaction and publish it after the commit. The reaper republishes what got
lost. Submit in assessment calls learning after its own write. Learning's
approval records `badge.issue`, whose handler reads the enrollment again.
Authoring decides which version learning and assessment see as current, and
publishes only what refers to assets that media has finished. Every request
carries a session that identity looks up in Redis; admin changes users and
sessions under it. Logins pass the rate limiter, and some writes an idempotency key.

## The modules

| Module | Role |
| --- | --- |
| `JobQueue` | The rows of `job_runs`, the asynq tasks, the worker goroutines, the publishers. |
| `JobContract` | What the registry promises: the state diagram of `disenos/trabajos-asincronos.md` with executions counted. |
| `Progress` | One enrollment, its requests and its badge. |
| `Attempts` | One student's attempts at one quiz. |
| `Media` | One asset from its upload to its playback. |
| `Authoring` | One course, its versions and their trees, and the requests of its authors. |
| `CourseContract` | What authoring promises the other modules: how versions and stable ids come to be. |
| `RateLimit`, `Accounts` | The counter of a subject; users, their sessions and the administrator's changes, behind that counter. |
| `Idempotency` | One key and the requests that send it. |
| `…Props` | The properties of each, with the refinement mappings to the contracts (`JobQueueProps`, `AuthoringProps`). |
| `…Proofs` | The theorems about each. |
| `SumProofs` | Lemmas about sums over a finite set, for the proofs about grades. |
| `MC…` | Instances for TLC: model values and budgets. |

Everything that can go wrong and every request from outside spends one unit of
a *budget*, `left[kind]`, chosen initially from the constant `Budgets` (with the
seeded administrators in `Starts`, for `Accounts`). A configuration so fixes which
faults a run has and how many; the theorems hold for every budget they do not
exclude. Operators commented as *faulty variants* are code with a plausible bug;
no specification uses them. They show that the property beside them in
`PROJECT.json` would notice.

### JobQueue

`row[j]` and `fresh[j]` are the row's status and whether its heartbeat is within
`LatidoVencido`. `task[j]` is the task whose TaskID is the key: its state, its
retry count and whether its payload has the identifiers that a handler needs (a
requeue publishes without them). `slot[w]` is a worker goroutine: `h` is where
the handler is in `Runner.Wrap`, `a` where asynq is with that delivery, `lease`
whether asynq still renews it, `cut` whether its context has ended. The two are
apart because asynq stops waiting for a cancelled handler, which goes on alone.
`pub[p]` is a caller of `Publish`: the API after its commit, the reaper between
its SELECT and its UPDATE, or an administrator between the read and the update.
asynq itself is external: `Dequeue`, `Ack`, `Settle`, `Recover`, `RetryDue`.
`Inspect` does GetTaskInfo and what follows in one step. `Prune` deletes a row
only when nothing remains of its job, because it is seven days old; what would happen
if it were pruned earlier no property says, because `JobContract` lets a key without a row
be accepted anew. The reaper takes the 100 oldest of the stuck rows (`reaper.go:66-67`);
the model takes any, as the code does while there are no more than those.

### Progress

A request reads the enrollment and the resource's row, decides, and in a transaction
upserts the row (`Recalculate`, which sees other requests' committed rows only) and
writes the enrollment back (`Commit`). The reads of one request are one step. Row locks:
the upsert of one resource waits for the transaction that holds it. `done` stands for
`completed_at`, which is coalesced and so never lost. The clock ticks in
`CadenciaMinima`, of which one evidence counts two at most (`Dwell`); positions are in a
unit of their own, `Pace` units a tick and `Slack` for the 2 s that the code allows on
top. Quizzes come from outside: `QuizPassed` is Submit having stored a passing score,
`scored` what `MinQuizScoreCumplida` would find. A version that is unpublished, edited
and published again counts as another member of `Versions`. The log of events,
`withdrawn_at` and the audit records are left out.

### Attempts

Start, SaveAnswers and Submit each read in one step and write in another; what stands
between them is the partial unique index (`IndexAllows`) and the condition of
`FinishAttempt`'s UPDATE. `late` is the set of attempts whose `expires_at` has passed.
Points are integers other than 0, which the handler turns into 1: only their ratio
counts, so any fraction is an integer in a smaller unit, and negative ones are among
them because nothing in the code refuses them (`assessment/http.go:152-155`, no CHECK in
migration 0002). A question's points are divided into `Parts`, a multiple of every
possible number of right options, so that partial credit is exact, and the grade is the
quotient in hundredths of a percentage point, rounded as `math.Round` does (`Rounded`).
The code computes in float64, whose own error is not modelled: it may round a quotient
that lies within it of a half to the other side. Points are summed with the community
modules' fold. A quiz has a question, which `validarQuiz` asks of the visible ones
before the publication. The snapshot's order is left out; grading uses the quiz of the
current version, as the code does. The quiz's feedback policy decides what an answer
shows: `shown` is the set of attempts whose right options were sent (`vistaResultado`).
The course stays published.

### Media

`asset` is the row, of which the status, the scan's result and whether the kind
is streamed matter; `upload` is its row of `media.uploads`. `parts`, `object`,
`content` and `segments` are what the store holds; `content` is what the probe,
the antivirus and ffmpeg will find there. `worker[w].pc` and `.row` say how far a
handler is and which row it read, because every handler reads once, works, and
writes all columns back (`Write`); `req[q]` does the same for Completar and
Abortar. The queue is reduced to what `JobQueue` shows of it: a job is recorded
once by its key, one worker at a time executes it (`DeliveryIsExclusive`), a death
has it delivered again, and its retries end in the dead letter. Moving to
quarantine may fail and is only logged. A store that completes in one step is S3
(`Atomic`); the adapter of GCS composes first and removes the parts later. What is
declared, detected and measured is one of five `Contents`; variants, posters,
signatures and URLs are left out, and so is the right to open a session. Part
numbers, the state of an upload and renewed parts change nothing here. `session` is
a credential that has not expired, be it a playback session or a signed URL;
`served` is what the API has let anybody read, looked at only when the credential
was given.

### Authoring

A request `req[r]` reads, decides and writes in statements of their own, `at` says
how far it is, `row`, `seen`, `copy` what it has read or inserted meanwhile.
Publish reads course, version, modules, units and resources in five statements and
validates before its transaction; the commit is one step, in which two rows change.
NewVersion reads the drafts outside its transaction; inside it, the unique version
number lets one clone at a time go on, and three INSERT … SELECT copy modules, units
and resources, each seeing what others have committed by then. A write looks at the
version (`Guard`), then the trigger of migration 0002 does (`Trigger`), then it
commits; a row updated in between is held. PutQuiz meets no trigger. Nodes of a
tree never disappear, because no code deletes them. `late` is a history variable: the
writes whose statement is still to start on a published version. Titles,
positions, slugs, revisions of content, approval criteria and permissions are left
out. `CourseContract` has only the statuses, the stable ids of each version and what the
course shows; it is what `Progress` assumes of `Versions`.

### Accounts and RateLimit

A user stands for an e-mail and has the row of `identity.users` with its verification
token. `cache[s]` is the hash of a session in Redis and `index[u]` the user's set; both
change command by command, because other clients' commands come in between. `rows[s]` is
the history in PostgreSQL, which no check reads. A hash that expired or was deleted, and
that a late `HSET last_seen_at` creates again, is `touched`. `raced` is history: the
login of such a session had read its user as active, who no longer was when it began.
ActualizarUsuario locks the other administrators one by one (`held`), counts, updates,
and only then deletes the sessions; a cycle of waits has a victim. A request asks for
one of `Changes`, which may set the role, the status or both. Redis and PostgreSQL fail
separately, at any command. Login passes `Permitir` first, or nothing when Redis does
not answer. The counter by IP address is the same code with another key. Names, mail and
audit events are left out.

### Idempotency

One row, and `req[r].at` from the claim over the handler to the stored answer. An
answer is the body it was for, which is all that a replay can get wrong. `effects`
counts the executions that succeeded since the row was pruned, `clean` says that no
request had to run without the row. A handler's error has no effect, because its
transaction is rolled back. The route's path parameters are not in the key, so one
model is about all targets of a route. No request lasts 24 h (`Ages`).

## The runs

| Run | Result | Shows |
| --- | --- | --- |
| `job_faults` | pass | `ExclusiveDelivery`, `FailedStaysInQueue`, refinement of `JobContract`, `EveryJobSettles`, with crashes, failed statements and lost publications. |
| `job_all_faults` | pass | With Redis loss, stalls, cuts and requeues too, a queued or running row still moves on: what the reaper alone guarantees. |
| `job_redis` | violation | A row that is `failed` when Redis loses its data is never republished. |
| `progress` | pass | Approval, its job and its badge are earned (completion and minimum score), once, and arrive; dwell never exceeds the clock. |
| `progress_historic` | violation | A withdrawal undoes an approval that committed after its read. |
| `attempts` | pass | One attempt in progress, final results, grades to the nearest hundredth and fair where points are positive, passes reported. |
| `attempts_key` | violation | A student with attempts left is sent the key of a quiz of policy `full`. |
| `media` | pass | Nothing refused is served or transcoded, what is served can be played, an infection is final, every upload settles. |
| `authoring` | pass | One draft, publications that validate all there was when they were asked for (`PublishedIsValidated`), a course that follows its versions, late writes refused, clones that lose nothing, refinement of `CourseContract`. |
| `authoring_frozen` | violation | A write whose trigger ran before a publication, or a quiz, changes the published version. |
| `accounts` | pass | An administrator remains, revocations cut what they found, closed sessions stay closed, a suspension ends the sessions there are without their expiry (`SuspensionCuts`), the limiter lets go. |
| `idempotency` | pass | One execution and its own answer per key, and no key out of use for ever. |

Bounds. *Jobs*: one job is enough because keys do not interact; two workers and two
publishers give every pair of overlapping deliveries and publications; two retries, in
`job_faults`, have a first, a middle and a last one. Recording twice is a domain
transaction repeated. *Progress*: two requests, three resources (a document, a video, a
quiz) and two versions with different requirements, criteria and quiz rules; one tick is
what completes a document or a video, and the same interval reported twice already
exceeds it; a last budget of three ticks has a pause longer than the two that one
evidence may count. The video's end is one unit, and a position one past it is allowed
only by `Slack`. *Attempts*: two attempts, two requests, two questions with three
options, in three quizzes: partial credit where two options are right, all or nothing
with a time limit, and points 2 and −1. *Media*: two requests, so that two completions,
or a completion and an abort, overlap; two workers, so that a late job overlaps the next
one; every content, streamed or not; one retry, so that a second failure is the last;
one session, open over everything else. *Authoring*: two requests, because what goes
wrong is between a reader and a writer or two writers; three versions, so that a clone
is cloned and a withdrawn version has a later one; one module, two units and two
resources, so that a unit or a resource can come between the queries of a reader; five
budgets, each for one conflict, where the additions are made once or twice. *Accounts*:
two users who change each other or one the other, two requests, two sessions, so that
one is revoked while the other begins; five changes: promotion, demotion, suspension,
reactivation, and an expulsion that sets role and status at once; a limit of one, at
which the second login is refused; eight `Starts`. *Idempotency*: up to five requests in
three places, so that a third claims what the first forgot while the second reads; two
bodies. Faults come one at a time, in the combinations that each `Budgets…` operator
names.

Fairness. Processes run on, and handlers, requests and statements that were admitted
end, or fail within their budget: weak fairness. The reaper's SELECT reads the rows
every 30 s, the 100 oldest first, and asynq serves a queue in order, so although
publishers and slots are shared neither passes over one job for ever: strong fairness,
for each job. (It would, if 100 older rows stayed stuck for ever: those that the runs
have are settled, so the assumption is that of a reaper that keeps up.) Nothing obliges
students, professors or administrators. `SubmitCloses` and `PassReachesLearning` assume
that no request dies, as in the code nobody repeats its work. In `Media` requests and
handlers go on and each open job is delivered in the end, which is what
`EveryJobSettles` says of the queue. In `Accounts` the window of a counter ends
(`NextWindow`), and what a request began it goes on with, unless it fails within the
budget; sessions may expire but nothing makes them, so that `SuspensionCuts` is not met
by waiting; in `Idempotency` handlers answer, a day passes and the worker prunes.
`Authoring` has safety only: nothing in it must happen. Deadlock is not checked: all
systems stop when their budgets are spent.

## The proofs

`JobQueueProofs`, for all jobs, workers, publishers, retry limits and budgets:

- `TypeCorrect`: `Spec => []TypeOK`.
- `DeliveryIsExclusive`: with no Redis loss and no cut, `ExclusiveDelivery`.
  The rows do not help (a delivery may be about to be discarded), so the
  invariant `Leased` is about Redis: a busy goroutine holds the lease of a task
  that is active, only a pending task is delivered, and only its holder or the
  recoverer, which waits for the lease to end, moves a task out of active.
- `SucceededIsNotReopened`: without Redis loss, cuts and requeues, and with any number
  of crashes or up to `MaxRetry` failed statements (`Undisturbed`, which allows every
  budget of `job_faults`), a job that succeeded stays so until it is pruned, although
  Succeed, Fail and Kill write without looking. `Owned` says why for the outcomes: a
  goroutine inside a handler knows its row to be running or, after an old SELECT of
  the reaper, queued, and by exclusive delivery nobody else can have changed it. Kill is
  different, because a claim that fails leads to it without anybody owning the row.
  `Spared` counts: a finished job that is published again starts with no retry spent,
  a live delivery is always somebody's, and each one that ends in an error has used up
  a failed statement, so that they run out before the retries do. The bound is exact:
  with `MaxRetry` + 1 failed statements TLC finds the finished job marked dead.
- `FailuresStayQueued`: while Redis keeps its data and no handler is cut,
  `FailedStaysInQueue`. `Awaited` adds that a goroutine past its claim, or one that
  found nothing to claim, has a row that is not `failed`; so whoever lets a task go
  does not let go of one that is waited for.
- `ContractKept`: under the assumptions of `SucceededIsNotReopened`, `JobQueue`
  implements `JobContract`. By exclusive delivery an execution is one goroutine
  between its claim and its outcome, by `Owned` its row is open till then, and by `Spared`
  Kill meets no finished row, so each step moves one job in the contract (`Move`) or none.

`ProgressProofs`, for every course (versions, resources, criteria), any number of
overlapping requests and every budget:

- `TypeCorrect`, and `TimeIsReal`: `DwellIsReal`. Dwell is a natural number only
  because `now` never lies before `updated`, so types and clock are one invariant,
  `Clocked`: the time a row has collected was over when it was last updated.
- `ApprovalsAreEarned`, `ApprovalsHaveTheirJob`, `BadgesAreEarned`: the invariants
  of those properties' names. A state may be written back from an old read, so the
  states alone support no invariant; `done` may not, because the upsert coalesces
  it under the row's lock (`RowsAreLocked`). What was earned stays earned, and
  `Merit` says what each request knows on the way: the enrollment it holds was in
  the table, a transaction's approval is earned with its own row, and one that it
  does not see as new has its job already.
- `BadgesAreFinal`: `BadgeIsIssuedOnce`, from the types alone: only the insert without
  conflict, the image and the revocation write a badge.
- `AloneApprovalIsHistoric`: if requests about an enrollment come one at a time,
  `ApprovalIsHistoric`, which `progress_historic` refutes with two: overlap alone takes
  back an approval. `UpToDate` says that the row a lone request read is still the row.

`AttemptsProofs`, for every quiz and any number of attempts, requests and options:

- `TypeCorrect`, and `GradesAreFair`: `GradingIsFair`. Grades are quotients of sums over
  the questions, rounded: `RoundedIsNearest` says what rounding does, whatever the
  signs, and `GradeIsNearest` that a grade is the hundredth nearest to the exact
  percentage. The rest assumes positive points and a right option in every question
  (`WellFormed`), as the API's contract has it. 100 does not need exact answers: a
  question missed by at most half a hundredth of a percent of the total is lost in the
  rounding, and `FullMarks` says that nothing else is. The fold that adds them up is a
  CHOOSE of a recursive function, of which `SumProofs` shows first that it exists: a
  least size of set without one would have one from the size before (`SumUpTo`). Then a
  sum of integers is an integer, and a sum of naturals is below the sum of greater terms
  by no less than each term is (`SumIsMonotone`), which is what a percentage, full marks
  and a wrong option come to. Requests carry scores that they computed earlier, so the
  invariant `Inv` types rows and requests together; there may be infinitely many
  attempts, but those that were started are a finite set.
- `OneAttemptInProgress`: `OneInProgress`. The unique index alone keeps it; the reads
  that Start does before its insert are not used.
- `ResultsAreFinal`: `ResultIsFinal`, because every step is a `RowStep`, in which
  status and score of a closed attempt stay, whatever requests overlap.
- `KeyNeedsClosedAttempt`: right options are shown of closed attempts only, and learning
  is told of the quiz only when one is closed, even by the loser of two overlapping
  Submits. It is what remains of the promise that `attempts_key` refutes. `SubmitsClose`
  says that past FinishAttempt the attempt is closed, by whomever.

`MediaProofs`, for any requests, workers, retries and failures:

- `TypeCorrect`; `OnlyCleanIsServed` (`OnlyCleanIsProcessed`) and `SessionsPlay`
  (`SessionPlays`). Every row that anybody holds, however old, is written back in full,
  so the invariant is that all of them tell the truth about the content (`Told`,
  `Knows`), which is chosen once. `Exclusive` has one worker per job, `OneKind` keeps
  the kind of the asset, `Played` orders segments, derivatives and status.
- `InfectionIsFinal`: with a store that completes an upload in one step (`Atomic`),
  `InfectedIsFinal`. `Ordered` adds that there is one completion, before any job, and
  that scans come after the verification. Without `Atomic` it is false.

`AuthoringProofs`, for any requests, versions and nodes:

- `TypeCorrect`, `OneDraftAtATime`, `PublicationsAreValidated`, `CourseFollows`,
  `LateWritesAreRefused`, `ClonesInherit`, and `ContractKept`: `Authoring` implements
  `CourseContract`. One invariant, `IInv`, serves all: versions are numbered without
  gaps (`Chain`), trees are whole, so that clones in three statements leave no unit
  without its module (`Whole`, of `TypeOK`), and for each request `Fits`: what it read
  still holds or can only have grown (`Dated`, `Hangs`), and a clone has copied what it
  saw when it began as far as it has got (`Copied`). `OneCloner` says that the number of
  a version is one clone's.
- `DroppedIdsStayDropped`: a stable id in two versions is in all those between, so
  progress is never matched over a gap. It follows from the contract alone, by the
  refinement step.

`AccountsProofs`, for any users, sessions and requests:

- `TypeCorrect`; `EndedSessionsStayEnded` (`ClosedStaysClosed`), because every step only
  lets hashes fade (`Fading`).
- `RevocationsCut` (`RevocationCuts`): `Indexed` has every live session in its user's
  index or among the `orphaned`; `Found` has what a revocation saw at its start, as far
  as it is still live, in the list it is about to delete or among the `orphaned`.
- `AnAdminRemains`: if every change that is asked for lowers its user, be it in role, in
  status or both (nobody is promoted or reactivated), `AdminRemains`. `Watched`:
  a request that has counted another administrator holds that row's lock until it
  commits. The assumption is needed: see the observations.
- `NoCounterWithoutExpiry`: a counter of the limiter that counts anything has an expiry:
  the safety that `LimiterLetsGo` needs besides fairness.

`IdempotencyProofs`, for any requests, bodies and failures: `TypeCorrect`, and
`KeyIsUsedOnce` (`OnceAndForAll`). `OneHolder`: while `clean` holds, one request at
most is past its claim, and the row is its own and says how far it is.

Assumptions are those named in the modules (`JobQueueAssumption`,
`ProgressAssumption`, `AttemptsAssumption`, `MediaAssumption`, `AuthoringAssumption`,
`RateLimitAssumption`, `AccountsAssumption`, `IdempotencyAssumption`), which TLC
evaluates in every run. Every safety property of a passing run is stated by a theorem.
Only model-checked: liveness (`EveryJobSettles`, `OpenRowMovesOn` and the like), which is
out of the prover's reach.

## Observations without a run

What the models show of the code beyond the runs. Jobs:

- A requeue decides on a status read before: one that saw `failed` re-opens a job
  whose retry has succeeded.
- Succeed, Fail and Kill write without looking. A handler cut off on its last retry
  writes `failed` over `dead` (`platform/jobs/jobs.go:141`); claims that fail until the
  last redelivery mark dead a job that had succeeded (`adapters/queue/runner.go:134`); a
  crash between Fail and Kill leaves `failed` and archived, without an alert
  (`runner.go:147`).
- A stale reaper SELECT together with Redis loss lets two handlers run at once.

Learning and assessment:

- Submit's call to learning is never repeated when it is lost
  (`assessment/service.go:254`): the passed quiz is not counted.
- Overlapping evidence on the last two required resources leaves a complete
  student unapproved until more evidence arrives (`learning/service.go:363`).
- An `open` event is accepted with any position (`learning/domain.go:121`), and the
  badge job reads the enrollment late, possibly after it was withdrawn.
- Two overlapping Submits answer different scores for one attempt; one is kept. The
  other still tells learning if its own is a pass, so a quiz may count as passed that no
  stored attempt has passed (`assessment/service.go:247-262`).
- Not only a withdrawal takes back an approval: so does overlapping evidence on a
  resource that is complete already, as it writes back the enrollment it read.
- No worker closes expired attempts, although ADR-0013:65-66 describes one; such
  an attempt blocks the next Start through the unique index until it is submitted.
- Answers are stored after expiry or submission by a save that had been checked, and
  a Start that overlaps a Submit may exceed the number of attempts
  (`assessment/service.go:167`).
- The handler takes any points, negative ones too (`assessment/http.go:152-155`),
  against `minimum: 0` of `backend/openapi/openapi.yaml:3067`. With points 2 and −1, the
  first answered alone is graded 200, the second alone −100, against the scale 0–100 of
  ADR-0013:77. The quiz `Negative` of `attempts` has them; of what a fair grade is only
  `NearestHundredth` is asked of it.
- A grade of 99.995 or more rounds to 100 without exact answers (`domain.go:186-187`).
- Grading uses the current version's quiz, not the attempt's snapshot (ADR-0013:44-45).

Media:

- On GCS, two completions with different idempotency keys can both compose; the
  later commit puts an asset back to `uploaded` whose verification is over, and
  nothing takes it further (`Media` with `Atomic` = FALSE violates `InfectedIsFinal`).
- A verification that repeats after `failed` sends the asset back to `scanning`.
- Abort looks at no status: it rejects a ready asset, whose sessions still play,
  and a handler that had read before it writes its own status over the rejection.
- A worker that dies between the move to quarantine and its commit leaves an asset
  in `uploaded` or `scanning` whose job can only fail, requeued or not. A completion
  that fails after composing leaves an upload that can only be aborted.

Authoring:

- Publishing version 2 does not archive version 1, as `maquinas-de-estado.md:22` has
  it, and withdrawing an old version makes it the course's current one
  (`authoring/service.go:215-246`).
- What is published is what was validated only if nothing was written in between. A
  write, a change of the metadata or of an asset that commits after the validation is
  published unseen, and so is a resource added between the queries that read the tree.
  Updating the only visible resource to be hidden publishes a version that shows
  nothing, against the rule of `authoring/domain.go:301-304` and ADR-0007:60-66.
  `PublishedIsValidated` asks only of rows that have not been written since.
- A clone has no quizzes, so it cannot be published before they are written again.
- The ETag is compared before the write and outside its transaction: of two saves
  that read the same text one is lost; an update of the resource writes the old text
  back too (`service.go:408-479`).

Accounts:

- A promotion or reactivation breaks `AdminRemains`: ActualizarUsuario decides from
  the user as it was read before the transaction (`admin/service.go:147-155`), so one
  that has become the last administrator since is demoted without a count. The run
  leaves it out, as the theorem does.
- An invited administrator counts as active although nobody has the password yet.
- `admin/service.go:164-165` says that suspending or deleting a user must cut the access
  now and not when the session expires. Two things break it: when Redis fails after the
  commit the error is only logged (`service.go:181-186`), and a login that races a
  suspension or a revocation leaves a live session. If it came between SMEMBERS and DEL
  it is not in the index, so a later revocation does not find it either, and it lasts
  until its expiry (`sessions/redis.go:111-123`), while its row says revoked.
- The role of a session is that of its login (`identity/http.go:216-219`).
- `redis.go:82` says that activity prolongs a session up to an absolute limit. It does
  not: `Lookup` writes `last_seen_at` and leaves the expiry as `Create` set it.
- A hash that `HSET last_seen_at` creates again has no expiry (`redis.go:82-85`).

Idempotency:

- When A's error deletes the row between B's conflict and B's SELECT, B runs without
  the row while C claims it (`idempotency.go:145-207`): two effects.
- When the registry does not answer the request runs unprotected; an answer that is
  too large is not kept and runs again; two targets of one route share a key
  (`idempotency.go:92-94`).

## Not modelled

- *Audit log*: append only and best effort; no state depends on it.
- *Antivirus, ffmpeg, mail*: pure I/O; their answers, errors included, are choices in
  `Media`, and the mail is a job like any other.
- *Object storage adapters*: an external service. `Media` has what completion, abort,
  reading and moving do to one asset's objects; listing, part numbers and the levels
  of a composition are left out.
- *HTTP decoding and encoding, configuration, logging, metrics, cursors, markdown,
  passwords*: stateless. The decisions of the handlers are part of the actions.
- *Commands*: wiring and one-shot tools; migrations are serialised by an advisory lock.
- *Pruning* of tokens, expired sessions and events: deleted by age, after they have
  stopped meaning anything. Job rows and idempotency keys are pruned in their models.
- *Frontend, Terraform, k6*: no core logic.

## Plan

Done: all modules above. Left, in this order:

1. Composition of `Attempts` with `Progress`: `marked` as the cause of `QuizPassed`,
   with the lost call between them.
2. The badge job of `Progress` as a job of `JobQueue`, instead of an action that is
   in the end taken.
3. Withdrawal of the course under an attempt, and the revisions of content in
   `Authoring`.
