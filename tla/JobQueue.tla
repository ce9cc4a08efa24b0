------------------------------ MODULE JobQueue ------------------------------
(***************************************************************************)
(* The asynchronous job queue: the rows of platform.job_runs in PostgreSQL *)
(* (jobs.go), the asynq tasks in Redis (queue.go), the worker that runs    *)
(* them (runner.go), the reaper (reaper.go), the administrative requeue    *)
(* (modules/admin/service.go) and the pruning of finished rows (poda.go).  *)
(*                                                                         *)
(* asynq is external: what the code relies on is modelled by the actions   *)
(* Dequeue, Ack, Settle, Recover and RetryDue.                             *)
(*                                                                         *)
(* Everything that can go wrong, and every request from outside, spends    *)
(* one unit of a named budget, so a configuration chooses which faults a   *)
(* run has and how many.                                                   *)
(***************************************************************************)
EXTENDS Naturals, FiniteSets

CONSTANTS
    Jobs,        \* job keys
    Workers,     \* goroutines of the worker processes (Concurrency slots)
    Publishers,  \* concurrent callers of Publish: API, reaper, administrator
    MaxRetry,    \* jobs.MaxRetry, 3 in the code
    Budgets,     \* alternatives for how often each outside event may happen
    None

Kinds == {"record",   \* a domain transaction records the job and publishes it
          "requeue",  \* an administrator requeues it
          "crash",    \* a worker process disappears
          "redis",    \* Redis loses its data
          "cut",      \* a shutdown or the 30 min timeout cancels a handler
          "stall",    \* a handler outlives its heartbeat or the retry delay
          "db",       \* a statement on job_runs fails
          "publish"}  \* a publication fails, or its process dies before it

ASSUME JobQueueAssumption ==
    /\ MaxRetry \in Nat
    /\ Budgets \subseteq [Kinds -> Nat]
    /\ None \notin Jobs

VARIABLES
    row,    \* job_runs.status, "absent" when there is no row
    fresh,  \* status is running and heartbeat_at is within LatidoVencido
    task,   \* the asynq task whose TaskID is the job key
    slot,   \* what each worker goroutine is doing
    pub,    \* what each publisher is doing
    left    \* the budget that remains

vars == <<row, fresh, task, slot, pub, left>>

Statuses   == {"absent", "queued", "running", "succeeded", "failed", "dead"}
TaskStates == {"none", "pending", "active", "retry", "archived"}
\* The handler goroutine: before TryClaim, inside the module's handler, about
\* to write its outcome, and returned to asynq with or without an error.
HandlerPcs == {"none", "claiming", "handling", "succeeding", "failing", "ok", "error"}
\* asynq's side of the delivery: waiting for the handler, having called the
\* ErrorHandler, and having given its verdict.
AsynqPcs   == {"none", "waiting", "settling", "done"}
PubPcs     == {"idle", "picked", "read", "enqueue", "inspect"}

NoTask == [state |-> "none", retried |-> 0, data |-> FALSE]
Free   == [job |-> None, h |-> "none", a |-> "none", retried |-> 0,
           data |-> FALSE, lease |-> FALSE, cut |-> FALSE]
Idle   == [pc |-> "idle", job |-> None, data |-> FALSE]

Task == [state : TaskStates, retried : 0..MaxRetry, data : BOOLEAN]
Slot == [job : Jobs \union {None}, h : HandlerPcs, a : AsynqPcs,
         retried : 0..MaxRetry, data : BOOLEAN, lease : BOOLEAN, cut : BOOLEAN]
Pub  == [pc : PubPcs, job : Jobs \union {None}, data : BOOLEAN]

TypeOK ==
    /\ row \in [Jobs -> Statuses]
    /\ fresh \in [Jobs -> BOOLEAN]
    /\ task \in [Jobs -> Task]
    /\ slot \in [Workers -> Slot]
    /\ pub \in [Publishers -> Pub]
    /\ left \in [Kinds -> Nat]

Init ==
    /\ row = [j \in Jobs |-> "absent"]
    /\ fresh = [j \in Jobs |-> FALSE]
    /\ task = [j \in Jobs |-> NoTask]
    /\ slot = [w \in Workers |-> Free]
    /\ pub = [p \in Publishers |-> Idle]
    /\ left \in Budgets

Spend(k) ==
    /\ left[k] > 0
    /\ left' = [left EXCEPT ![k] = @ - 1]

\* UPDATE platform.job_runs SET status = s WHERE job_key = j: no row, no effect.
SetStatus(j, s) ==
    IF row[j] = "absent"
    THEN UNCHANGED <<row, fresh>>
    ELSE /\ row' = [row EXCEPT ![j] = s]
         /\ fresh' = [fresh EXCEPT ![j] = s = "running"]

\* A goroutine that runs the module's code for the job, and so beats for it.
Running(w) == slot[w].h \in {"handling", "succeeding", "failing"}
RunningOn(w, j) == slot[w].job = j /\ Running(w)

-----------------------------------------------------------------------------
(* Publishing: Record, Publish / Republicar, the reaper and the requeue.   *)

\* The domain transaction commits with the row in it; Publish comes after. A
\* key that exists is left alone, and published all the same.
Record(p, j) ==
    /\ pub[p] = Idle
    /\ Spend("record")
    /\ IF row[j] = "absent"
       THEN row' = [row EXCEPT ![j] = "queued"]
       ELSE UNCHANGED row
    /\ pub' = [pub EXCEPT ![p] = [pc |-> "enqueue", job |-> j, data |-> TRUE]]
    /\ UNCHANGED <<fresh, task, slot>>

\* Faulty variants: a reaper that looks only at one of its two conditions.
ReaperPickRunningOnly(p, j) ==
    /\ pub[p] = Idle
    /\ row[j] = "running" /\ ~fresh[j]
    /\ pub' = [pub EXCEPT ![p] = [pc |-> "picked", job |-> j, data |-> TRUE]]
    /\ UNCHANGED <<row, fresh, task, slot, left>>
ReaperPickQueuedOnly(p, j) ==
    /\ pub[p] = Idle
    /\ row[j] = "queued"
    /\ pub' = [pub EXCEPT ![p] = [pc |-> "picked", job |-> j, data |-> TRUE]]
    /\ UNCHANGED <<row, fresh, task, slot, left>>

\* The reaper's SELECT: what it saw is acted on later, row by row.
ReaperPick(p, j) ==
    /\ pub[p] = Idle
    /\ row[j] = "queued" \/ (row[j] = "running" /\ ~fresh[j])
    /\ pub' = [pub EXCEPT ![p] = [pc |-> "picked", job |-> j, data |-> TRUE]]
    /\ UNCHANGED <<row, fresh, task, slot, left>>

\* UPDATE ... SET status='queued' WHERE status='running': the heartbeat that
\* made the SELECT choose the row is not looked at again.
ReaperReset(p) ==
    /\ pub[p].pc = "picked"
    /\ IF row[pub[p].job] = "running"
       THEN SetStatus(pub[p].job, "queued")
       ELSE UNCHANGED <<row, fresh>>
    /\ pub' = [pub EXCEPT ![p].pc = "enqueue"]
    /\ UNCHANGED <<task, slot, left>>

\* Reencolar reads the row and checks its status...
AdminRead(p, j) ==
    /\ pub[p] = Idle
    /\ row[j] \in {"dead", "failed"}
    /\ Spend("requeue")
    /\ pub' = [pub EXCEPT ![p] = [pc |-> "read", job |-> j, data |-> FALSE]]
    /\ UNCHANGED <<row, fresh, task, slot>>

\* ... and updates it by id alone, then publishes without the payload.
AdminRequeue(p) ==
    /\ pub[p].pc = "read"
    /\ SetStatus(pub[p].job, "queued")
    /\ pub' = [pub EXCEPT ![p] = IF row[pub[p].job] = "absent"
                                 THEN Idle ELSE [@ EXCEPT !.pc = "enqueue"]]
    /\ UNCHANGED <<task, slot, left>>

\* Faulty variant: Enqueue without a TaskID never conflicts.
EnqueueWithoutTaskID(p) ==
    /\ pub[p].pc = "enqueue"
    /\ task' = [task EXCEPT ![pub[p].job] = [state |-> "pending", retried |-> 0,
                                             data |-> pub[p].data]]
    /\ pub' = [pub EXCEPT ![p] = Idle]
    /\ UNCHANGED <<row, fresh, slot, left>>

\* Enqueue with TaskID = job key: refused while Redis knows the task.
Enqueue(p) ==
    /\ pub[p].pc = "enqueue"
    /\ LET j == pub[p].job IN
       IF task[j].state = "none"
       THEN /\ task' = [task EXCEPT ![j] = [state |-> "pending", retried |-> 0,
                                            data |-> pub[p].data]]
            /\ pub' = [pub EXCEPT ![p] = Idle]
       ELSE /\ pub' = [pub EXCEPT ![p].pc = "inspect"]
            /\ UNCHANGED task
    /\ UNCHANGED <<row, fresh, slot, left>>

\* After the conflict: gone in between, enqueue again; archived, RunTask keeps
\* its payload and its retry count; alive, leave it.
Inspect(p) ==
    /\ pub[p].pc = "inspect"
    /\ LET j == pub[p].job IN
       task' = [task EXCEPT ![j] =
           CASE @.state = "none" -> [state |-> "pending", retried |-> 0, data |-> pub[p].data]
             [] @.state = "archived" -> [@ EXCEPT !.state = "pending"]
             [] OTHER -> @]
    /\ pub' = [pub EXCEPT ![p] = Idle]
    /\ UNCHANGED <<row, fresh, slot, left>>

\* Redis does not answer, the statement fails, or the process dies: whoever
\* published logs it and goes on.
PublishFails(p) ==
    /\ pub[p] # Idle
    /\ Spend("publish")
    /\ pub' = [pub EXCEPT ![p] = Idle]
    /\ UNCHANGED <<row, fresh, task, slot>>

-----------------------------------------------------------------------------
(* The worker: asynq's delivery and Runner.Wrap.                           *)

Dequeue(w, j) ==
    /\ slot[w] = Free
    /\ task[j].state = "pending"
    /\ task' = [task EXCEPT ![j].state = "active"]
    /\ slot' = [slot EXCEPT ![w] =
           [job |-> j, h |-> "claiming", a |-> "waiting", retried |-> task[j].retried,
            data |-> task[j].data, lease |-> TRUE, cut |-> FALSE]]
    /\ UNCHANGED <<row, fresh, pub, left>>

\* Faulty variant: the claim forgets that a finished job is not to be run.
ClaimableUnlessRunning(j) == row[j] # "running" \/ ~fresh[j]

Claimable(j) ==
    \/ row[j] \in {"queued", "failed"}
    \/ row[j] = "running" /\ ~fresh[j]

\* The handler's goroutine ends; if asynq gave its verdict before, the slot
\* of a handler that was only lingering is released.
Returns(w, h) ==
    slot' = [slot EXCEPT ![w] = IF @.a = "done" THEN Free ELSE [@ EXCEPT !.h = h]]

Claim(w) ==
    /\ slot[w].h = "claiming"
    /\ ~slot[w].cut
    /\ Claimable(slot[w].job)
    /\ SetStatus(slot[w].job, "running")
    /\ slot' = [slot EXCEPT ![w].h = "handling"]
    /\ UNCHANGED <<task, pub, left>>

DiscardDuplicate(w) ==
    /\ slot[w].h = "claiming"
    /\ ~slot[w].cut
    /\ ~Claimable(slot[w].job)
    /\ Returns(w, "ok")
    /\ UNCHANGED <<row, fresh, task, pub, left>>

\* The claim runs on the delivery's context, so a cancelled one fails too.
ClaimError(w) ==
    /\ slot[w].h = "claiming"
    /\ IF slot[w].cut THEN UNCHANGED left ELSE Spend("db")
    /\ Returns(w, "error")
    /\ UNCHANGED <<row, fresh, task, pub>>

\* Every handler refuses a payload without its identifiers.
HandlerReturns(w) ==
    /\ slot[w].h = "handling"
    /\ \E h \in {"succeeding", "failing"} :
         /\ h = "succeeding" => slot[w].data
         /\ slot' = [slot EXCEPT ![w].h = h]
    /\ UNCHANGED <<row, fresh, task, pub, left>>

Succeed(w) ==
    /\ slot[w].h = "succeeding"
    /\ SetStatus(slot[w].job, "succeeded")
    /\ Returns(w, "ok")
    /\ UNCHANGED <<task, pub, left>>

\* Faulty variant: the runner records the failure and returns nil to asynq.
FailSwallowed(w) ==
    /\ slot[w].h = "failing"
    /\ SetStatus(slot[w].job, "failed")
    /\ Returns(w, "ok")
    /\ UNCHANGED <<task, pub, left>>

Fail(w) ==
    /\ slot[w].h = "failing"
    /\ SetStatus(slot[w].job, "failed")
    /\ Returns(w, "error")
    /\ UNCHANGED <<task, pub, left>>

\* Neither write stops the delivery when it fails: it is logged or ignored.
OutcomeNotWritten(w) ==
    /\ slot[w].h \in {"succeeding", "failing"}
    /\ Spend("db")
    /\ Returns(w, IF slot[w].h = "succeeding" THEN "ok" ELSE "error")
    /\ UNCHANGED <<row, fresh, task, pub>>

\* The handler returned nil: asynq forgets the task, if the lease is still its.
Ack(w) ==
    /\ slot[w].a = "waiting"
    /\ slot[w].h = "ok"
    /\ task' = IF slot[w].lease THEN [task EXCEPT ![slot[w].job] = NoTask] ELSE task
    /\ slot' = [slot EXCEPT ![w] = Free]
    /\ UNCHANGED <<row, fresh, pub, left>>

\* The handler failed, or its context ended and asynq no longer waits for it:
\* the ErrorHandler runs before asynq decides between retry and archive. The
\* last retry kills the row, unless that statement fails, which is logged.
OnRetriesExhausted(w) ==
    /\ slot[w].a = "waiting"
    /\ slot[w].h = "error" \/ slot[w].cut
    /\ slot' = [slot EXCEPT ![w].a = "settling"]
    /\ \/ /\ slot[w].retried >= MaxRetry
          /\ SetStatus(slot[w].job, "dead")
          /\ UNCHANGED left
       \/ /\ slot[w].retried >= MaxRetry
          /\ Spend("db")
          /\ UNCHANGED <<row, fresh>>
       \/ /\ slot[w].retried < MaxRetry
          /\ UNCHANGED <<row, fresh, left>>
    /\ UNCHANGED <<task, pub>>

\* Faulty variant: retries without a limit.
RetryForEver(t) == [t EXCEPT !.state = "retry", !.retried = @ + 1]

\* asynq retries or archives a task that failed with this retry count.
AfterFailure(t) ==
    IF t.retried >= MaxRetry
    THEN [t EXCEPT !.state = "archived"]
    ELSE [t EXCEPT !.state = "retry", !.retried = @ + 1]

Settle(w) ==
    /\ slot[w].a = "settling"
    /\ task' = IF slot[w].lease
               THEN [task EXCEPT ![slot[w].job] = AfterFailure(@)] ELSE task
    /\ slot' = [slot EXCEPT ![w] = IF @.h \in {"ok", "error"}
                                   THEN Free
                                   ELSE [@ EXCEPT !.a = "done", !.lease = FALSE]]
    /\ UNCHANGED <<row, fresh, pub, left>>

\* cortarTrabajos near the end of a shutdown, or the task's Timeout.
ContextDone(w) ==
    /\ slot[w].a = "waiting"
    /\ slot[w].h \notin {"ok", "error"}
    /\ ~slot[w].cut
    /\ Spend("cut")
    /\ slot' = [slot EXCEPT ![w].cut = TRUE]
    /\ UNCHANGED <<row, fresh, task, pub>>

-----------------------------------------------------------------------------
(* Time, faults and housekeeping.                                          *)

\* The beat of a handler comes back after a stall: the row may by now be
\* somebody else's, and it is refreshed all the same.
Heartbeat(w) ==
    /\ Running(w) /\ ~slot[w].cut
    /\ row[slot[w].job] = "running" /\ ~fresh[slot[w].job]
    /\ fresh' = [fresh EXCEPT ![slot[w].job] = TRUE]
    /\ UNCHANGED <<row, task, slot, pub, left>>

\* 90 s without a beat. A running handler beats every 30 s: it must stall.
HeartbeatExpires(j) ==
    /\ row[j] = "running" /\ fresh[j]
    /\ IF \E w \in Workers : RunningOn(w, j) THEN Spend("stall") ELSE UNCHANGED left
    /\ fresh' = [fresh EXCEPT ![j] = FALSE]
    /\ UNCHANGED <<row, task, slot, pub>>

\* asynq's recoverer: an active task whose lease nobody extends.
Recover(j) ==
    /\ task[j].state = "active"
    /\ ~\E w \in Workers : slot[w].job = j /\ slot[w].lease
    /\ task' = [task EXCEPT ![j] = AfterFailure(@)]
    /\ UNCHANGED <<row, fresh, slot, pub, left>>

\* The backoff passes. It is longer than a cancelled handler takes to return,
\* unless that handler stalls.
RetryDue(j) ==
    /\ task[j].state = "retry"
    /\ IF \E w \in Workers : slot[w].job = j THEN Spend("stall") ELSE UNCHANGED left
    /\ task' = [task EXCEPT ![j].state = "pending"]
    /\ UNCHANGED <<row, fresh, slot, pub>>

Crash(w) ==
    /\ slot[w] # Free
    /\ Spend("crash")
    /\ slot' = [slot EXCEPT ![w] = Free]
    /\ UNCHANGED <<row, fresh, task, pub>>

RedisLoss ==
    /\ Spend("redis")
    /\ task' = [j \in Jobs |-> NoTask]
    /\ slot' = [w \in Workers |-> [slot[w] EXCEPT !.lease = FALSE]]
    /\ UNCHANGED <<row, fresh, pub>>

\* Podador.Run: rows that succeeded seven days ago, when nothing is left of
\* the job anywhere else.
Prune(j) ==
    /\ row[j] = "succeeded"
    /\ task[j].state = "none"
    /\ \A w \in Workers : slot[w].job # j
    /\ \A p \in Publishers : pub[p].job # j
    /\ row' = [row EXCEPT ![j] = "absent"]
    /\ UNCHANGED <<fresh, task, slot, pub, left>>

-----------------------------------------------------------------------------
Reap(p) == (\E j \in Jobs : ReaperPick(p, j)) \/ ReaperReset(p)

Publication(p) == Enqueue(p) \/ Inspect(p) \/ PublishFails(p)

Handler(w) ==
    \/ Claim(w) \/ DiscardDuplicate(w) \/ ClaimError(w) \/ HandlerReturns(w)
    \/ Succeed(w) \/ Fail(w) \/ OutcomeNotWritten(w)

Asynq(w) == Ack(w) \/ OnRetriesExhausted(w) \/ Settle(w)

Next ==
    \/ \E p \in Publishers :
         \/ \E j \in Jobs : Record(p, j) \/ AdminRead(p, j)
         \/ AdminRequeue(p)
         \/ Reap(p) \/ Publication(p)
    \/ \E w \in Workers :
         \/ \E j \in Jobs : Dequeue(w, j)
         \/ Handler(w) \/ Asynq(w)
         \/ ContextDone(w) \/ Heartbeat(w) \/ Crash(w)
    \/ \E j \in Jobs : HeartbeatExpires(j) \/ Recover(j) \/ RetryDue(j) \/ Prune(j)
    \/ RedisLoss

Spec == Init /\ [][Next]_vars

\* Processes keep running, handlers return, and time passes. The reaper's
\* SELECT runs every 30 s and takes the 100 oldest rows that are stuck, and asynq
\* serves a queue in order, so neither forgets a job for ever although publishers
\* and slots are shared, while no 100 older rows stay stuck: strong fairness, per job.
Fairness ==
    /\ \A p \in Publishers :
         /\ WF_vars(ReaperReset(p)) /\ WF_vars(AdminRequeue(p))
         /\ WF_vars(Enqueue(p)) /\ WF_vars(Inspect(p))
    /\ \A w \in Workers : WF_vars(Handler(w)) /\ WF_vars(Asynq(w))
    /\ \A j \in Jobs :
         /\ WF_vars(HeartbeatExpires(j) /\ UNCHANGED left)
         /\ WF_vars(RetryDue(j) /\ UNCHANGED left)
         /\ WF_vars(Recover(j))
         /\ SF_vars(\E p \in Publishers : ReaperPick(p, j))
         /\ SF_vars(\E w \in Workers : Dequeue(w, j))

FairSpec == Spec /\ Fairness
=============================================================================
