--------------------------- MODULE JobQueueProps ---------------------------
(***************************************************************************)
(* What the job queue is checked for. Which budgets a property holds under *)
(* is said beside it and fixed by the configuration of the run.            *)
(***************************************************************************)
EXTENDS JobQueue

Settled(j) ==
    \/ row[j] \in {"succeeded", "dead"}
    \/ row[j] = "failed" /\ task[j].state = "archived"

\* Two goroutines never hold a delivery of the same job: the TaskID keeps one
\* task per job in Redis (Republicar), and asynq hands it to one worker at a
\* time. Holds while Redis keeps its data and no handler is cut off.
ExclusiveDelivery ==
    \A v, w \in Workers : slot[v].job = slot[w].job /\ slot[v].job # None => v = w

\* The reaper does not look at 'failed' rows, so such a row is only ever run
\* again because its task is still in Redis: Fail leaves it to asynq.
FailedStaysInQueue ==
    \A j \in Jobs : row[j] = "failed" => task[j].state # "none"

\* A job that succeeded keeps that result until it is pruned.
SucceededIsFinal ==
    [][\A j \in Jobs : row[j] = "succeeded" => row'[j] \in {"succeeded", "absent"}]_vars

\* The registry keeps the promise of JobContract. A row in retry is an open
\* job, and an execution is a handler between its claim and its outcome.
Contract == INSTANCE JobContract WITH
    status <- [j \in Jobs |->
        CASE row[j] = "absent"    -> "absent"
          [] row[j] = "succeeded" -> "done"
          [] row[j] = "dead"      -> "dlq"
          [] OTHER                -> "open"],
    executing <- [j \in Jobs |-> Cardinality({w \in Workers : RunningOn(w, j)})]

KeepsContract == Contract!Spec

\* Every recorded job is eventually executed to success or ends where an
\* administrator finds it.
EveryJobSettles ==
    \A j \in Jobs : row[j] # "absent" ~> Settled(j)

\* What the reaper alone guarantees, whatever happens to Redis: a queued or
\* running row does not stay so.
OpenRowMovesOn ==
    \A j \in Jobs : row[j] \in {"queued", "running"} ~> row[j] \in {"succeeded", "failed", "dead"}
=============================================================================
