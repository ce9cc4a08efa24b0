--------------------------- MODULE JobQueueProofs ---------------------------
(***************************************************************************)
(* Theorems about JobQueue for every set of jobs, workers and publishers   *)
(* and every retry limit.                                                  *)
(***************************************************************************)
EXTENDS JobQueueProps, FiniteSetTheorems, TLAPS

USE JobQueueAssumption

\* A unit of budget is a natural number less one.
LEMMA SpendType ==
    ASSUME left \in [Kinds -> Nat], NEW k \in Kinds, Spend(k)
    PROVE  left' \in [Kinds -> Nat]
BY DEF Spend

\* A statement on job_runs leaves rows and heartbeats of their types.
LEMMA SetStatusType ==
    ASSUME row \in [Jobs -> Statuses], fresh \in [Jobs -> BOOLEAN],
           NEW j, NEW s \in Statuses, SetStatus(j, s)
    PROVE  row' \in [Jobs -> Statuses] /\ fresh' \in [Jobs -> BOOLEAN]
BY DEF SetStatus

\* What asynq does of a task that failed is again a task.
LEMMA AfterFailureType ==
    ASSUME NEW t \in Task PROVE AfterFailure(t) \in Task
<1>1. CASE t.retried >= MaxRetry
  BY <1>1 DEF AfterFailure, Task, TaskStates
<1>2. CASE ~(t.retried >= MaxRetry)
  <2>1. t.retried \in 0..MaxRetry
    BY DEF Task
  <2>2. t.retried + 1 \in 0..MaxRetry
    BY <1>2, <2>1
  <2>3. \A s \in TaskStates, n \in 0..MaxRetry :
          [t EXCEPT !.state = s, !.retried = n] \in Task
    BY DEF Task
  <2>4. "retry" \in TaskStates
    BY DEF TaskStates
  <2> QED BY <1>2, <2>2, <2>3, <2>4 DEF AfterFailure
<1> QED BY <1>1, <1>2

\* The records that stand for nothing have the types of their variables.
LEMMA RecordTypes ==
    /\ NoTask \in Task
    /\ Free \in Slot
    /\ Idle \in Pub
BY DEF NoTask, Task, TaskStates, Free, Slot, HandlerPcs, AsynqPcs, Idle, Pub, PubPcs

\* A task that asynq moves or redelivers is again a task.
LEMMA TaskUpdates ==
    ASSUME NEW t \in Task, NEW s \in TaskStates
    PROVE  [t EXCEPT !.state = s] \in Task
BY DEF Task

\* A goroutine that takes one step is again a goroutine.
LEMMA SlotUpdates ==
    ASSUME NEW t \in Slot
    PROVE  /\ \A h \in HandlerPcs : [t EXCEPT !.h = h] \in Slot
           /\ \A a \in AsynqPcs : [t EXCEPT !.a = a] \in Slot
           /\ [t EXCEPT !.cut = TRUE] \in Slot
           /\ [t EXCEPT !.lease = FALSE] \in Slot
           /\ [t EXCEPT !.a = "done", !.lease = FALSE] \in Slot
BY DEF Slot, AsynqPcs

\* A publisher that takes one step is again a publisher.
LEMMA PubUpdates ==
    ASSUME NEW t \in Pub, NEW pc \in PubPcs
    PROVE  [t EXCEPT !.pc = pc] \in Pub
BY DEF Pub

\* A handler that returns leaves its goroutine's record of its type.
LEMMA ReturnsType ==
    ASSUME slot \in [Workers -> Slot], NEW w \in Workers, NEW h \in HandlerPcs, Returns(w, h)
    PROVE  slot' \in [Workers -> Slot]
BY RecordTypes, SlotUpdates DEF Returns

\* Every variable keeps its type.
THEOREM TypeCorrect == Spec => []TypeOK
<1>1. Init => TypeOK
  BY RecordTypes DEF Init, TypeOK, Statuses
<1>2. TypeOK /\ [Next]_vars => TypeOK'
  <2> SUFFICES ASSUME TypeOK, [Next]_vars PROVE TypeOK'
    OBVIOUS
  <2> USE DEF TypeOK
  <2>1. ASSUME NEW p \in Publishers, NEW j \in Jobs, Record(p, j) PROVE TypeOK'
    BY <2>1, SpendType DEF Record, Kinds, Statuses, Pub, PubPcs
  <2>2. ASSUME NEW p \in Publishers, NEW j \in Jobs, ReaperPick(p, j) PROVE TypeOK'
    BY <2>2 DEF ReaperPick, Pub, PubPcs
  <2>3. ASSUME NEW p \in Publishers, ReaperReset(p) PROVE TypeOK'
    <3>1. row' \in [Jobs -> Statuses] /\ fresh' \in [Jobs -> BOOLEAN]
      BY <2>3, SetStatusType DEF ReaperReset, Statuses
    <3> QED BY <2>3, <3>1, PubUpdates DEF ReaperReset, PubPcs
  <2>4. ASSUME NEW p \in Publishers, NEW j \in Jobs, AdminRead(p, j) PROVE TypeOK'
    BY <2>4, SpendType DEF AdminRead, Kinds, Pub, PubPcs
  <2>5. ASSUME NEW p \in Publishers, AdminRequeue(p) PROVE TypeOK'
    <3>1. row' \in [Jobs -> Statuses] /\ fresh' \in [Jobs -> BOOLEAN]
      BY <2>5, SetStatusType DEF AdminRequeue, Statuses
    <3> QED BY <2>5, <3>1, PubUpdates, RecordTypes DEF AdminRequeue, PubPcs
  <2>6. ASSUME NEW p \in Publishers, Enqueue(p) PROVE TypeOK'
    <3>1. [state |-> "pending", retried |-> 0, data |-> pub[p].data] \in Task
      BY DEF Task, TaskStates, Pub
    <3>2. task' \in [Jobs -> Task]
      BY <2>6, <3>1 DEF Enqueue
    <3>3. pub' \in [Publishers -> Pub]
      <4>1. [pub[p] EXCEPT !.pc = "inspect"] \in Pub
        BY PubUpdates DEF PubPcs
      <4> QED BY <2>6, <4>1, RecordTypes DEF Enqueue
    <3> QED BY <2>6, <3>2, <3>3 DEF Enqueue
  <2>7. ASSUME NEW p \in Publishers, Inspect(p) PROVE TypeOK'
    <3>1. [state |-> "pending", retried |-> 0, data |-> pub[p].data] \in Task
      BY DEF Task, TaskStates, Pub
    <3>2. task' \in [Jobs -> Task]
      <4> DEFINE j == pub[p].job
                 Chosen == CASE task[j].state = "none" ->
                                  [state |-> "pending", retried |-> 0, data |-> pub[p].data]
                             [] task[j].state = "archived" -> [task[j] EXCEPT !.state = "pending"]
                             [] OTHER -> task[j]
      <4>1. j \in Jobs => Chosen \in Task
        BY <3>1, TaskUpdates DEF TaskStates
      <4>2. task' = [task EXCEPT ![j] = Chosen]
        BY <2>7 DEF Inspect
      <4> HIDE DEF Chosen, j
      <4> QED BY <4>1, <4>2
    <3> QED BY <2>7, <3>2, RecordTypes DEF Inspect
  <2>8. ASSUME NEW p \in Publishers, PublishFails(p) PROVE TypeOK'
    BY <2>8, SpendType, RecordTypes DEF PublishFails, Kinds
  <2>9. ASSUME NEW w \in Workers, NEW j \in Jobs, Dequeue(w, j) PROVE TypeOK'
    <3>1. [job |-> j, h |-> "claiming", a |-> "waiting", retried |-> task[j].retried,
           data |-> task[j].data, lease |-> TRUE, cut |-> FALSE] \in Slot
      BY DEF Slot, Task, HandlerPcs, AsynqPcs
    <3> QED BY <2>9, <3>1, TaskUpdates DEF Dequeue, TaskStates
  <2>10. ASSUME NEW w \in Workers, Handler(w) PROVE TypeOK'
    <3>1. slot' \in [Workers -> Slot]
      <4>1. CASE Claim(w) \/ HandlerReturns(w)
        <5>1. PICK h \in HandlerPcs : slot' = [slot EXCEPT ![w] = [slot[w] EXCEPT !.h = h]]
          BY <4>1 DEF Claim, HandlerReturns, HandlerPcs
        <5>2. [slot[w] EXCEPT !.h = h] \in Slot
          BY SlotUpdates
        <5> QED BY <5>1, <5>2
      <4>2. CASE DiscardDuplicate(w) \/ ClaimError(w) \/ Succeed(w) \/ Fail(w) \/ OutcomeNotWritten(w)
        BY <4>2, ReturnsType DEF DiscardDuplicate, ClaimError, Succeed, Fail, OutcomeNotWritten,
           HandlerPcs
      <4> QED BY <2>10, <4>1, <4>2 DEF Handler
    <3>2. row' \in [Jobs -> Statuses] /\ fresh' \in [Jobs -> BOOLEAN]
      BY <2>10, SetStatusType DEF Handler, Claim, DiscardDuplicate, ClaimError, HandlerReturns,
         Succeed, Fail, OutcomeNotWritten, Statuses
    <3>3. left' \in [Kinds -> Nat]
      BY <2>10, SpendType DEF Handler, Claim, DiscardDuplicate, ClaimError, HandlerReturns,
         Succeed, Fail, OutcomeNotWritten, Kinds
    <3>4. UNCHANGED <<task, pub>>
      BY <2>10 DEF Handler, Claim, DiscardDuplicate, ClaimError, HandlerReturns,
         Succeed, Fail, OutcomeNotWritten
    <3> QED BY <3>1, <3>2, <3>3, <3>4
  <2>11. ASSUME NEW w \in Workers, Ack(w) PROVE TypeOK'
    BY <2>11, RecordTypes DEF Ack
  <2>12. ASSUME NEW w \in Workers, OnRetriesExhausted(w) PROVE TypeOK'
    <3>1. row' \in [Jobs -> Statuses] /\ fresh' \in [Jobs -> BOOLEAN]
      BY <2>12, SetStatusType DEF OnRetriesExhausted, Statuses
    <3>2. left' \in [Kinds -> Nat]
      BY <2>12, SpendType DEF OnRetriesExhausted, Kinds
    <3>3. slot' \in [Workers -> Slot]
      BY <2>12, SlotUpdates DEF OnRetriesExhausted, AsynqPcs
    <3> QED BY <2>12, <3>1, <3>2, <3>3 DEF OnRetriesExhausted
  <2>13. ASSUME NEW w \in Workers, Settle(w) PROVE TypeOK'
    <3>1. task' \in [Jobs -> Task]
      BY <2>13, AfterFailureType DEF Settle
    <3>2. slot' \in [Workers -> Slot]
      <4>1. CASE slot[w].h \in {"ok", "error"}
        BY <2>13, <4>1, RecordTypes DEF Settle
      <4>2. CASE slot[w].h \notin {"ok", "error"}
        <5>1. [slot[w] EXCEPT !.a = "done", !.lease = FALSE] \in Slot
          BY SlotUpdates
        <5>2. slot' = [slot EXCEPT ![w] = [slot[w] EXCEPT !.a = "done", !.lease = FALSE]]
          BY <2>13, <4>2 DEF Settle
        <5> QED BY <5>1, <5>2
      <4> QED BY <4>1, <4>2
    <3> QED BY <2>13, <3>1, <3>2 DEF Settle
  <2>14. ASSUME NEW w \in Workers, ContextDone(w) PROVE TypeOK'
    BY <2>14, SpendType, SlotUpdates DEF ContextDone, Kinds
  <2>15. ASSUME NEW w \in Workers, Heartbeat(w) PROVE TypeOK'
    BY <2>15 DEF Heartbeat
  <2>16. ASSUME NEW w \in Workers, Crash(w) PROVE TypeOK'
    BY <2>16, SpendType, RecordTypes DEF Crash, Kinds
  <2>17. ASSUME NEW j \in Jobs, HeartbeatExpires(j) PROVE TypeOK'
    BY <2>17, SpendType DEF HeartbeatExpires, Kinds
  <2>18. ASSUME NEW j \in Jobs, Recover(j) PROVE TypeOK'
    BY <2>18, AfterFailureType DEF Recover
  <2>19. ASSUME NEW j \in Jobs, RetryDue(j) PROVE TypeOK'
    BY <2>19, SpendType, TaskUpdates DEF RetryDue, Kinds, TaskStates
  <2>20. ASSUME NEW j \in Jobs, Prune(j) PROVE TypeOK'
    BY <2>20 DEF Prune, Statuses
  <2>21. CASE RedisLoss
    BY <2>21, SpendType, SlotUpdates, RecordTypes DEF RedisLoss, Kinds
  <2>22. CASE UNCHANGED vars
    BY <2>22 DEF vars
  <2> QED
    BY <2>1, <2>2, <2>3, <2>4, <2>5, <2>6, <2>7, <2>8, <2>9, <2>10, <2>11, <2>12, <2>13,
       <2>14, <2>15, <2>16, <2>17, <2>18, <2>19, <2>20, <2>21, <2>22
       DEF Next, Reap, Publication, Asynq
<1> QED BY <1>1, <1>2, PTL DEF Spec

-----------------------------------------------------------------------------
(* One delivery at a time, for every number of jobs, workers and publishers, *)
(* however often workers crash, statements and publications fail, rows are   *)
(* requeued and the reaper republishes: the argument is the task's state in  *)
(* Redis alone. A goroutine that works on a job holds the lease of an active *)
(* task, and only a pending task is delivered.                               *)

RedisKept == \A b \in Budgets : b["redis"] = 0 /\ b["cut"] = 0

\* The inductive invariant. It needs the lease and the task's state: the rows
\* of job_runs say nothing about deliveries that are being discarded.
Leased ==
    /\ left["redis"] = 0
    /\ left["cut"] = 0
    /\ \A w \in Workers :
         \/ slot[w] = Free
         \/ /\ slot[w].job \in Jobs
            /\ slot[w].a = "waiting" \/ (slot[w].a = "settling" /\ slot[w].h = "error")
            /\ slot[w].lease
            /\ ~slot[w].cut
            /\ task[slot[w].job].state = "active"
    /\ ExclusiveDelivery

\* What one delivery's goroutine does to its own slot, short of releasing it,
\* leaves the invariant alone.
LEMMA LeasedSlotStep ==
    ASSUME TypeOK, Leased, NEW w \in Workers, NEW h \in HandlerPcs, NEW a \in {"waiting", "settling"},
           slot[w] # Free, UNCHANGED task, left'["redis"] = 0, left'["cut"] = 0,
           a = "settling" => h = "error",
           slot' = [slot EXCEPT ![w] = [slot[w] EXCEPT !.h = h, !.a = a]]
    PROVE  Leased'
<1>1. slot[w] \in Slot /\ slot[w].job \in Jobs /\ slot[w].lease /\ ~slot[w].cut
      /\ task[slot[w].job].state = "active"
  BY DEF TypeOK, Leased
<1> DEFINE s == [slot[w] EXCEPT !.h = h, !.a = a]
<1>2. s.job = slot[w].job /\ s.lease = slot[w].lease /\ s.cut = slot[w].cut /\ s.a = a /\ s.h = h
  BY <1>1 DEF Slot
<1> HIDE DEF s
<1>3. slot' = [slot EXCEPT ![w] = s] /\ slot \in [Workers -> Slot]
  BY DEF s, TypeOK
<1>4. \A v \in Workers : slot'[v].job = slot[v].job
  BY <1>2, <1>3
<1>5. ExclusiveDelivery'
  BY <1>4 DEF Leased, ExclusiveDelivery
<1>6. ASSUME NEW v \in Workers
      PROVE \/ slot'[v] = Free
            \/ /\ slot'[v].job \in Jobs
               /\ slot'[v].a = "waiting" \/ (slot'[v].a = "settling" /\ slot'[v].h = "error")
               /\ slot'[v].lease
               /\ ~slot'[v].cut
               /\ task'[slot'[v].job].state = "active"
  <2>1. CASE v = w
    BY <1>1, <1>2, <1>3, <2>1
  <2>2. CASE v # w
    BY <1>3, <2>2 DEF Leased
  <2> QED BY <2>1, <2>2
<1> QED BY <1>5, <1>6 DEF Leased

\* Releasing a slot, whatever becomes of its own task.
LEMMA LeasedRelease ==
    ASSUME TypeOK, Leased, NEW w \in Workers, NEW t,
           task' = task \/ (slot[w] # Free /\ task' = [task EXCEPT ![slot[w].job] = t]),
           slot' = [slot EXCEPT ![w] = Free],
           left'["redis"] = 0, left'["cut"] = 0
    PROVE  Leased'
<1>1. slot'[w] = Free /\ \A v \in Workers : v # w => slot'[v] = slot[v]
  BY DEF TypeOK
<1>2. ASSUME NEW v \in Workers, v # w, slot[v] # Free
      PROVE task'[slot[v].job] = task[slot[v].job]
  <2>1. slot[v].job \in Jobs /\ (slot[w] # Free => slot[w].job # slot[v].job)
    BY <1>2, JobQueueAssumption DEF Leased, ExclusiveDelivery
  <2> QED BY <2>1 DEF TypeOK
<1>3. ExclusiveDelivery'
  BY <1>1 DEF Leased, ExclusiveDelivery, Free
<1> QED BY <1>1, <1>2, <1>3 DEF Leased

\* A step that leaves the slots alone and no active task changed by others.
LEMMA LeasedTaskStep ==
    ASSUME TypeOK, Leased, UNCHANGED slot,
           \A w \in Workers : slot[w] # Free => task'[slot[w].job].state = "active",
           left'["redis"] = 0, left'["cut"] = 0
    PROVE  Leased'
BY DEF Leased, ExclusiveDelivery

\* A budget that is spent allows no more of its kind.
LEMMA BudgetStaysSpent ==
    ASSUME TypeOK, [Next]_vars, NEW k \in Kinds, left[k] = 0
    PROVE  left'[k] = 0
<1>1. \A i \in Kinds : Spend(i) => left'[k] = 0
  BY DEF Spend, TypeOK
<1>2. (\E i \in Kinds : Spend(i)) \/ UNCHANGED left
  BY DEF Next, vars, Record, ReaperPick, ReaperReset, AdminRead, AdminRequeue, Enqueue, Inspect,
     PublishFails, Dequeue, Claim, DiscardDuplicate, ClaimError, HandlerReturns, Succeed, Fail,
     OutcomeNotWritten, Ack, OnRetriesExhausted, Settle, ContextDone, Heartbeat, HeartbeatExpires,
     Recover, RetryDue, Crash, RedisLoss, Prune, Reap, Publication, Handler, Asynq, Kinds
<1> QED BY <1>1, <1>2

\* LeasedSlotStep for the steps that change one program counter.
LEMMA LeasedPcStep ==
    ASSUME TypeOK, Leased, NEW w \in Workers, slot[w] # Free, UNCHANGED task,
           left'["redis"] = 0, left'["cut"] = 0,
           \/ /\ slot[w].h # "error"
              /\ \E h \in HandlerPcs : slot' = [slot EXCEPT ![w] = [slot[w] EXCEPT !.h = h]]
           \/ /\ slot[w].h = "error"
              /\ slot' = [slot EXCEPT ![w] = [slot[w] EXCEPT !.a = "settling"]]
    PROVE  Leased'
<1>1. slot[w] \in Slot /\ slot[w].a \in {"waiting", "settling"} /\ slot[w].h \in HandlerPcs
  BY DEF TypeOK, Leased, Slot
<1>2. CASE /\ slot[w].h # "error"
           /\ \E h \in HandlerPcs : slot' = [slot EXCEPT ![w] = [slot[w] EXCEPT !.h = h]]
  <2>1. PICK h \in HandlerPcs : slot' = [slot EXCEPT ![w] = [slot[w] EXCEPT !.h = h]]
    BY <1>2
  <2>2. [slot[w] EXCEPT !.h = h] = [slot[w] EXCEPT !.h = h, !.a = slot[w].a]
    BY <1>1 DEF Slot
  <2>3. slot[w].a = "waiting"
    BY <1>2 DEF Leased
  <2> QED BY <1>1, <2>1, <2>2, <2>3, LeasedSlotStep
<1>3. CASE /\ slot[w].h = "error"
           /\ slot' = [slot EXCEPT ![w] = [slot[w] EXCEPT !.a = "settling"]]
  <2>1. [slot[w] EXCEPT !.a = "settling"] = [slot[w] EXCEPT !.h = slot[w].h, !.a = "settling"]
    BY <1>1 DEF Slot
  <2> QED BY <1>1, <1>3, <2>1, LeasedSlotStep
<1> QED BY <1>2, <1>3

\* Every step keeps the leases exclusive, while there is neither Redis loss nor a cut.
LEMMA LeasedInductive ==
    ASSUME TypeOK, Leased, [Next]_vars PROVE Leased'
<1>1. left'["redis"] = 0 /\ left'["cut"] = 0
  BY BudgetStaysSpent DEF Leased, Kinds
<1>2. CASE UNCHANGED <<task, slot>>
  BY <1>1, <1>2, LeasedTaskStep DEF Leased
<1>3. ASSUME NEW p \in Publishers, Enqueue(p) \/ Inspect(p) PROVE Leased'
  <2>1. \A j \in Jobs : task[j].state = "active" => task'[j].state = "active"
    BY <1>3 DEF Enqueue, Inspect, TypeOK, Task
  <2> QED BY <1>1, <1>3, <2>1, LeasedTaskStep DEF Enqueue, Inspect, Leased
<1>4. ASSUME NEW w \in Workers, NEW j \in Jobs, Dequeue(w, j) PROVE Leased'
  <2>1. slot'[w].job = j /\ slot'[w].a = "waiting" /\ slot'[w].lease /\ ~slot'[w].cut
    BY <1>4 DEF Dequeue, TypeOK
  <2>2. task'[j].state = "active"
    BY <1>4 DEF Dequeue, TypeOK, Task
  <2>3. ASSUME NEW v \in Workers, v # w, slot[v] # Free
        PROVE slot'[v] = slot[v] /\ slot[v].job # j /\ task'[slot[v].job].state = "active"
    <3>1. slot[v].job # j /\ slot[v].job \in Jobs
      BY <1>4, <2>3 DEF Dequeue, Leased
    <3> QED BY <1>4, <2>3, <3>1 DEF Dequeue, TypeOK, Leased
  <2>4. \A v \in Workers : v # w /\ slot[v] = Free => slot'[v] = Free /\ slot'[v].job # j
    BY <1>4, JobQueueAssumption DEF Dequeue, TypeOK, Free
  <2>5. ExclusiveDelivery'
    <3>1. \A v \in Workers : v # w => slot'[v] = slot[v] /\ slot[v].job # j
      BY <2>3, <2>4
    <3>2. \A u, v \in Workers : u # w /\ v # w /\ slot[u].job = slot[v].job
                                /\ slot[u].job # None => u = v
      BY DEF Leased, ExclusiveDelivery
    <3> QED BY <2>1, <3>1, <3>2 DEF ExclusiveDelivery
  <2>6. ASSUME NEW v \in Workers
        PROVE \/ slot'[v] = Free
              \/ /\ slot'[v].job \in Jobs
                 /\ slot'[v].a = "waiting" \/ (slot'[v].a = "settling" /\ slot'[v].h = "error")
                 /\ slot'[v].lease
                 /\ ~slot'[v].cut
                 /\ task'[slot'[v].job].state = "active"
    <3>1. CASE v = w
      BY <2>1, <2>2, <3>1
    <3>2. CASE v # w /\ slot[v] = Free
      BY <2>4, <3>2
    <3>3. CASE v # w /\ slot[v] # Free
      BY <2>3, <3>3 DEF Leased
    <3> QED BY <3>1, <3>2, <3>3
  <2> QED BY <1>1, <2>5, <2>6 DEF Leased
<1>5. ASSUME NEW w \in Workers, Claim(w) \/ HandlerReturns(w) PROVE Leased'
  <2>1. slot[w] # Free /\ slot[w].h # "error"
    BY <1>5 DEF Claim, HandlerReturns, Free
  <2>2. \E h \in HandlerPcs : slot' = [slot EXCEPT ![w] = [slot[w] EXCEPT !.h = h]]
    BY <1>5 DEF Claim, HandlerReturns, HandlerPcs
  <2> QED BY <1>1, <1>5, <2>1, <2>2, LeasedPcStep DEF Claim, HandlerReturns
<1>6. ASSUME NEW w \in Workers, DiscardDuplicate(w) \/ ClaimError(w) \/ Succeed(w) \/ Fail(w)
                                 \/ OutcomeNotWritten(w)
      PROVE Leased'
  <2>1. slot[w] # Free /\ slot[w].h # "error"
    BY <1>6 DEF DiscardDuplicate, ClaimError, Succeed, Fail, OutcomeNotWritten, Free
  <2>2. UNCHANGED task /\ \E h \in HandlerPcs : Returns(w, h)
    BY <1>6 DEF DiscardDuplicate, ClaimError, Succeed, Fail, OutcomeNotWritten, HandlerPcs
  <2>3. slot[w].a # "done"
    BY <2>1 DEF Leased
  <2>4. \E h \in HandlerPcs : slot' = [slot EXCEPT ![w] = [slot[w] EXCEPT !.h = h]]
    BY <2>2, <2>3 DEF Returns
  <2> QED BY <1>1, <2>1, <2>2, <2>4, LeasedPcStep
<1>7. ASSUME NEW w \in Workers, OnRetriesExhausted(w) PROVE Leased'
  <2>1. slot[w] # Free /\ slot' = [slot EXCEPT ![w] = [slot[w] EXCEPT !.a = "settling"]]
    BY <1>7 DEF OnRetriesExhausted, Free
  <2>2. slot[w].h = "error"
    BY <1>7, <2>1 DEF OnRetriesExhausted, Leased
  <2> QED BY <1>1, <1>7, <2>1, <2>2, LeasedPcStep DEF OnRetriesExhausted
<1>8. ASSUME NEW w \in Workers, Ack(w) \/ Crash(w) PROVE Leased'
  BY <1>1, <1>8, LeasedRelease DEF Ack, Crash, Free
<1>9. ASSUME NEW w \in Workers, Settle(w) PROVE Leased'
  <2>1. slot[w] # Free /\ slot[w].lease /\ slot[w].h = "error"
    BY <1>9 DEF Settle, Leased, Free
  <2>2. task' = [task EXCEPT ![slot[w].job] = AfterFailure(task[slot[w].job])]
    BY <1>9, <2>1 DEF Settle
  <2>3. slot' = [slot EXCEPT ![w] = Free]
    BY <1>9, <2>1 DEF Settle
  <2> QED BY <1>1, <2>1, <2>2, <2>3, LeasedRelease
<1>10. ASSUME NEW j \in Jobs, Recover(j) PROVE Leased'
  <2>1. \A w \in Workers : slot[w] # Free => slot[w].job # j /\ slot[w].job \in Jobs
    BY <1>10 DEF Recover, Leased
  <2> QED BY <1>1, <1>10, <2>1, LeasedTaskStep DEF Recover, Leased, TypeOK
<1>11. ASSUME NEW j \in Jobs, RetryDue(j) PROVE Leased'
  <2>1. \A w \in Workers : slot[w] # Free => slot[w].job # j /\ slot[w].job \in Jobs
    BY <1>11 DEF RetryDue, Leased
  <2> QED BY <1>1, <1>11, <2>1, LeasedTaskStep DEF RetryDue, Leased, TypeOK
<1>12. ASSUME NEW w \in Workers PROVE ~ContextDone(w) /\ ~RedisLoss
  BY DEF ContextDone, RedisLoss, Spend, Leased
<1>13. ~RedisLoss
  BY DEF RedisLoss, Spend, Leased
<1> QED
  BY <1>2, <1>3, <1>4, <1>5, <1>6, <1>7, <1>8, <1>9, <1>10, <1>11, <1>12, <1>13
     DEF Next, vars, Record, ReaperPick, ReaperReset, AdminRead, AdminRequeue, PublishFails,
         Heartbeat, HeartbeatExpires, Prune, Reap, Publication, Handler, Asynq

\* Two goroutines never work on deliveries of the same job while Redis keeps
\* its data and no handler is cut off.
THEOREM DeliveryIsExclusive ==
    ASSUME RedisKept PROVE Spec => []ExclusiveDelivery
<1>1. Init /\ TypeOK => Leased
  BY DEF Init, Leased, ExclusiveDelivery, RedisKept, Free
<1>2. TypeOK /\ Leased /\ [Next]_vars => Leased'
  BY LeasedInductive
<1>3. Leased => ExclusiveDelivery
  BY DEF Leased
<1> QED BY <1>1, <1>2, <1>3, TypeCorrect, PTL DEF Spec

-----------------------------------------------------------------------------
(* A finished job is not opened again, although neither Succeed, Fail nor    *)
(* Kill looks at the status it overwrites: with one delivery at a time, the  *)
(* goroutine that writes an outcome is the one that claimed the row. The     *)
(* exception is the ErrorHandler's Kill after a claim that failed: it writes *)
(* over a row that nobody claimed, one that succeeded too. It gets there     *)
(* only by way of every retry, so the statements that fail are counted.      *)

Undisturbed ==
    \A b \in Budgets :
        /\ b["redis"] = 0 /\ b["cut"] = 0 /\ b["requeue"] = 0
        /\ b["db"] = 0 \/ (b["crash"] = 0 /\ b["db"] <= MaxRetry)

\* What a goroutine knows of its row: it is running while the handler runs,
\* or queued, when the reaper acted on an old SELECT.
OwnsRow(w) == Running(w) => row[slot[w].job] \in {"running", "queued"}

Owned ==
    /\ left["requeue"] = 0
    /\ \A p \in Publishers : pub[p].pc # "read"
    /\ \A w \in Workers : OwnsRow(w)

\* More deliveries remain, after n retries, than statements that may still fail: now,
\* and after the step.
Spares(n) == left["db"] = 0 \/ n + left["db"] <= MaxRetry
SparesNext(n) == left'["db"] = 0 \/ n + left'["db"] <= MaxRetry

\* A job that succeeded and is published once more starts with all its retries,
\* and each delivery that ends in an error has spent a failed statement.
Spared ==
    /\ left["db"] <= MaxRetry
    /\ left["db"] > 0 =>
         /\ left["crash"] = 0
         /\ \A j \in Jobs : task[j].state = "active" => \E w \in Workers : slot[w].job = j
    /\ \A j \in Jobs : row[j] = "succeeded" /\ task[j].state \in {"pending", "retry", "archived"}
         => Spares(task[j].retried)
    /\ \A w \in Workers : slot[w] # Free =>
         /\ task[slot[w].job].retried = slot[w].retried
         /\ row[slot[w].job] = "succeeded" =>
              /\ slot[w].h = "claiming" => Spares(slot[w].retried)
              /\ slot[w].h = "error" => slot[w].retried + 1 + left["db"] <= MaxRetry

SucceededStays == \A j \in Jobs : row[j] = "succeeded" => row'[j] \in {"succeeded", "absent"}

\* No step adds to a budget.
LEMMA BudgetShrinks ==
    ASSUME TypeOK, [Next]_vars, NEW k \in Kinds
    PROVE  left'[k] \in Nat /\ left'[k] <= left[k]
<1>1. left[k] \in Nat
  BY DEF TypeOK
<1>2. \A i \in Kinds : Spend(i) => left'[k] \in Nat /\ left'[k] <= left[k]
  BY DEF Spend, TypeOK
<1>3. (\E i \in Kinds : Spend(i)) \/ UNCHANGED left
  BY DEF Next, vars, Record, ReaperPick, ReaperReset, AdminRead, AdminRequeue, Enqueue, Inspect,
     PublishFails, Dequeue, Claim, DiscardDuplicate, ClaimError, HandlerReturns, Succeed, Fail,
     OutcomeNotWritten, Ack, OnRetriesExhausted, Settle, ContextDone, Heartbeat, HeartbeatExpires,
     Recover, RetryDue, Crash, RedisLoss, Prune, Reap, Publication, Handler, Asynq, Kinds
<1> QED BY <1>1, <1>2, <1>3

\* What asynq's ErrorHandler does to a row, and that a job that succeeded is spared.
LEMMA KillSpares ==
    ASSUME TypeOK, Leased, Spared, NEW w \in Workers, OnRetriesExhausted(w)
    PROVE  /\ slot[w] # Free /\ slot[w] \in Slot /\ slot[w].job \in Jobs
           /\ slot[w].h = "error"
           /\ slot' = [slot EXCEPT ![w] = [slot[w] EXCEPT !.a = "settling"]]
           /\ UNCHANGED task
           /\ \A i \in Jobs \ {slot[w].job} : row'[i] = row[i]
           /\ row'[slot[w].job] \in {row[slot[w].job], "dead"}
           /\ row[slot[w].job] \in {"absent", "succeeded"} => row'[slot[w].job] = row[slot[w].job]
<1>1. slot[w] # Free
  BY DEF OnRetriesExhausted, Free
<1>2. slot[w] \in Slot /\ slot[w].job \in Jobs /\ slot[w].h = "error"
  BY <1>1 DEF OnRetriesExhausted, Leased, TypeOK
<1>3. slot' = [slot EXCEPT ![w] = [slot[w] EXCEPT !.a = "settling"]] /\ UNCHANGED task
  BY DEF OnRetriesExhausted
<1>4. row[slot[w].job] = "succeeded" => row' = row
  <2> SUFFICES ASSUME row[slot[w].job] = "succeeded" PROVE row' = row
    OBVIOUS
  <2>1. slot[w].retried + 1 + left["db"] <= MaxRetry
    BY <1>1, <1>2 DEF Spared
  <2>2. slot[w].retried \in Nat /\ left["db"] \in Nat
    BY <1>2 DEF Slot, TypeOK, Kinds
  <2>3. ~(slot[w].retried >= MaxRetry)
    BY <2>1, <2>2
  <2> QED BY <2>3 DEF OnRetriesExhausted
<1>5. row' = row \/ (row[slot[w].job] # "absent" /\ row' = [row EXCEPT ![slot[w].job] = "dead"])
  BY DEF OnRetriesExhausted, SetStatus
<1>6. /\ \A i \in Jobs \ {slot[w].job} : row'[i] = row[i]
      /\ row'[slot[w].job] \in {row[slot[w].job], "dead"}
      /\ row[slot[w].job] = "absent" => row'[slot[w].job] = row[slot[w].job]
  BY <1>2, <1>5 DEF TypeOK
<1> QED BY <1>1, <1>2, <1>3, <1>4, <1>6

\* Every step keeps what goroutines know of their rows, and reopens nothing.
LEMMA OwnedInductive ==
    ASSUME TypeOK, Leased, Spared, Owned, [Next]_vars PROVE Owned' /\ SucceededStays
<1>1. left'["requeue"] = 0
  BY BudgetStaysSpent DEF Owned, Kinds
<1>2. \A p \in Publishers : ~AdminRequeue(p) /\ \A j \in Jobs : ~AdminRead(p, j)
  BY DEF AdminRequeue, AdminRead, Owned, Spend
<1>3. \A w \in Workers : ~ContextDone(w)
  BY DEF ContextDone, Leased, Spend
<1>4. ~RedisLoss
  BY DEF RedisLoss, Spend, Leased
<1>5. \A p \in Publishers : pub'[p].pc # "read"
  <2>1. CASE UNCHANGED pub
    BY <2>1 DEF Owned
  <2>2. ASSUME NEW q \in Publishers, \E j \in Jobs : Record(q, j) \/ ReaperPick(q, j)
        PROVE \A p \in Publishers : pub'[p].pc # "read"
    BY <2>2 DEF Record, ReaperPick, Owned, TypeOK
  <2>3. ASSUME NEW q \in Publishers, ReaperReset(q) \/ Enqueue(q) \/ Inspect(q) \/ PublishFails(q)
        PROVE \A p \in Publishers : pub'[p].pc # "read"
    BY <2>3 DEF ReaperReset, Enqueue, Inspect, PublishFails, Owned, TypeOK, Idle, Pub
  <2> QED
    BY <1>2, <1>3, <1>4, <2>1, <2>2, <2>3
       DEF Next, vars, Dequeue, Claim, DiscardDuplicate, ClaimError, HandlerReturns, Succeed, Fail,
           OutcomeNotWritten, Ack, OnRetriesExhausted, Settle, Heartbeat, HeartbeatExpires,
           Recover, RetryDue, Crash, Prune, Reap, Publication, Handler, Asynq
\* Steps that leave the slots alone.
<1>6. ASSUME UNCHANGED slot,
             \A j \in Jobs : row'[j] = row[j] \/ row[j] = "absent"
                           \/ (row[j] = "running" /\ row'[j] = "queued")
                           \/ (row[j] = "succeeded" /\ row'[j] = "absent")
      PROVE Owned' /\ SucceededStays
  <2>1. \A w \in Workers : OwnsRow(w)'
    <3> SUFFICES ASSUME NEW w \in Workers PROVE OwnsRow(w)'
      OBVIOUS
    <3>1. slot[w] # Free => slot[w].job \in Jobs
      BY DEF Leased
    <3> QED BY <1>6, <3>1 DEF OwnsRow, Owned, Running, Free
  <2> QED BY <1>1, <1>5, <1>6, <2>1 DEF Owned, SucceededStays
\* Steps of one goroutine: only its own row may change.
<1>7. ASSUME NEW w \in Workers, NEW s \in Slot, slot' = [slot EXCEPT ![w] = s],
             NEW j \in Jobs, \A i \in Jobs \ {j} : row'[i] = row[i],
             slot[w] = Free => row' = row,
             slot[w] # Free => slot[w].job = j,
             row[j] = "succeeded" => row'[j] \in {"succeeded", "absent"},
             s.h \in {"handling", "succeeding", "failing"} => s.job = j /\ row'[j] \in {"running", "queued"}
      PROVE Owned' /\ SucceededStays
  <2>1. \A v \in Workers : OwnsRow(v)'
    <3> SUFFICES ASSUME NEW v \in Workers PROVE OwnsRow(v)'
      OBVIOUS
    <3>1. CASE v = w
      BY <1>7, <3>1 DEF OwnsRow, Running, TypeOK
    <3>2. CASE v # w
      <4>1. slot'[v] = slot[v]
        BY <1>7, <3>2 DEF TypeOK
      <4>2. slot[v] # Free => slot[v].job \in Jobs /\ (slot[w] # Free => slot[v].job # j)
        BY <1>7, <3>2 DEF Leased, ExclusiveDelivery
      <4>3. slot[v] # Free => row'[slot[v].job] = row[slot[v].job]
        BY <1>7, <4>2
      <4> QED BY <4>1, <4>3 DEF OwnsRow, Owned, Running, Free
    <3> QED BY <3>1, <3>2
  <2> QED BY <1>1, <1>5, <1>7, <2>1 DEF Owned, SucceededStays
<1>8. ASSUME NEW p \in Publishers, ReaperReset(p) PROVE Owned' /\ SucceededStays
  <2>1. \A j \in Jobs : row'[j] = row[j] \/ (row[j] = "running" /\ row'[j] = "queued")
    BY <1>8 DEF ReaperReset, SetStatus, TypeOK
  <2> QED BY <1>6, <1>8, <2>1 DEF ReaperReset
<1>9. ASSUME NEW p \in Publishers, NEW j \in Jobs, Record(p, j) PROVE Owned' /\ SucceededStays
  BY <1>6, <1>9 DEF Record, TypeOK
<1>10. ASSUME NEW j \in Jobs, Prune(j) PROVE Owned' /\ SucceededStays
  BY <1>6, <1>10 DEF Prune, TypeOK
<1>11. CASE UNCHANGED <<row, slot>>
  BY <1>6, <1>11
<1>12. ASSUME NEW w \in Workers, NEW j \in Jobs, Dequeue(w, j) PROVE Owned' /\ SucceededStays
  <2> DEFINE s == [job |-> j, h |-> "claiming", a |-> "waiting", retried |-> task[j].retried,
                   data |-> task[j].data, lease |-> TRUE, cut |-> FALSE]
  <2>1. s \in Slot
    BY DEF Slot, Task, HandlerPcs, AsynqPcs, TypeOK
  <2>2. slot' = [slot EXCEPT ![w] = s] /\ row' = row /\ slot[w] = Free
    BY <1>12 DEF Dequeue
  <2>3. s.h = "claiming"
    OBVIOUS
  <2> HIDE DEF s
  <2> QED BY <1>7, <2>1, <2>2, <2>3
<1>13. ASSUME NEW w \in Workers, Ack(w) \/ Crash(w) \/ Settle(w) PROVE Owned' /\ SucceededStays
  <2>1. slot[w] # Free
    BY <1>13 DEF Ack, Crash, Settle, Free
  <2>2. slot[w].job \in Jobs /\ (slot[w].a = "settling" => slot[w].h = "error")
    BY <2>1 DEF Leased
  <2>3. slot' = [slot EXCEPT ![w] = Free] /\ row' = row
    BY <1>13, <2>2 DEF Ack, Crash, Settle
  <2>4. Free.h = "none" /\ Free \in Slot
    BY RecordTypes DEF Free
  <2> QED BY <1>7, <2>1, <2>2, <2>3, <2>4
<1>14. ASSUME NEW w \in Workers, slot[w] # Free, NEW h \in HandlerPcs,
              slot' = [slot EXCEPT ![w] = [slot[w] EXCEPT !.h = h]],
              \A i \in Jobs \ {slot[w].job} : row'[i] = row[i],
              row[slot[w].job] = "succeeded" => row'[slot[w].job] \in {"succeeded", "absent"},
              h \in {"handling", "succeeding", "failing"} => row'[slot[w].job] \in {"running", "queued"}
       PROVE Owned' /\ SucceededStays
  <2>1. slot[w] \in Slot /\ slot[w].job \in Jobs
    BY <1>14 DEF Leased, TypeOK
  <2> DEFINE s == [slot[w] EXCEPT !.h = h]
  <2>2. s \in Slot /\ s.h = h /\ s.job = slot[w].job
    BY <2>1 DEF Slot
  <2>3. slot' = [slot EXCEPT ![w] = s]
    BY <1>14
  <2> HIDE DEF s
  <2> QED BY <1>7, <1>14, <2>1, <2>2, <2>3
<1>15. ASSUME NEW w \in Workers, Claim(w) PROVE Owned' /\ SucceededStays
  <2>1. slot[w] # Free /\ slot[w].job \in Jobs
    BY <1>15 DEF Claim, Free, Leased
  <2>2. row' = [row EXCEPT ![slot[w].job] = "running"] /\ row[slot[w].job] # "succeeded"
    BY <1>15, <2>1 DEF Claim, Claimable, SetStatus
  <2>3. slot' = [slot EXCEPT ![w] = [slot[w] EXCEPT !.h = "handling"]]
    BY <1>15 DEF Claim
  <2>4. "handling" \in HandlerPcs
    BY DEF HandlerPcs
  <2>5. row'[slot[w].job] = "running" /\ \A i \in Jobs \ {slot[w].job} : row'[i] = row[i]
    BY <2>1, <2>2 DEF TypeOK
  <2> QED BY <1>14, <2>1, <2>2, <2>3, <2>4, <2>5
<1>16. ASSUME NEW w \in Workers, HandlerReturns(w) PROVE Owned' /\ SucceededStays
  <2>1. PICK h \in {"succeeding", "failing"} :
              slot' = [slot EXCEPT ![w] = [slot[w] EXCEPT !.h = h]]
    BY <1>16 DEF HandlerReturns
  <2>2. slot[w] # Free /\ h \in HandlerPcs /\ UNCHANGED row
    BY <1>16 DEF HandlerReturns, Free, HandlerPcs
  <2>3. row[slot[w].job] \in {"running", "queued"}
    BY <1>16 DEF HandlerReturns, Owned, OwnsRow, Running
  <2> QED BY <1>14, <2>1, <2>2, <2>3
<1>17. ASSUME NEW w \in Workers, DiscardDuplicate(w) \/ ClaimError(w) \/ Succeed(w)
                                 \/ OutcomeNotWritten(w)
       PROVE  Owned' /\ SucceededStays
  <2>1. slot[w] # Free /\ slot[w].job \in Jobs /\ slot[w].a # "done"
    BY <1>17 DEF DiscardDuplicate, ClaimError, Succeed, OutcomeNotWritten, Free, Leased
  <2>2. PICK h \in {"ok", "error"} : slot' = [slot EXCEPT ![w] = [slot[w] EXCEPT !.h = h]]
    BY <1>17, <2>1 DEF DiscardDuplicate, ClaimError, Succeed, OutcomeNotWritten, Returns
  <2>3. \/ row' = row
        \/ row' = [row EXCEPT ![slot[w].job] = "succeeded"]
    BY <1>17, <2>1 DEF DiscardDuplicate, ClaimError, Succeed, OutcomeNotWritten, SetStatus
  <2>4. h \in HandlerPcs /\ h \notin {"handling", "succeeding", "failing"}
    BY DEF HandlerPcs
  <2>5. /\ \A i \in Jobs \ {slot[w].job} : row'[i] = row[i]
        /\ row[slot[w].job] = "succeeded" => row'[slot[w].job] \in {"succeeded", "absent"}
    BY <2>1, <2>3 DEF TypeOK
  <2> QED BY <1>14, <2>1, <2>2, <2>4, <2>5
<1>18. ASSUME NEW w \in Workers, Fail(w) PROVE Owned' /\ SucceededStays
  <2>1. slot[w] # Free /\ slot[w].job \in Jobs /\ slot[w].a # "done"
    BY <1>18 DEF Fail, Free, Leased
  <2>2. row[slot[w].job] \in {"running", "queued"}
    BY <1>18 DEF Fail, Owned, OwnsRow, Running
  <2>3. row' = [row EXCEPT ![slot[w].job] = "failed"]
    BY <1>18, <2>2 DEF Fail, SetStatus
  <2>4. slot' = [slot EXCEPT ![w] = [slot[w] EXCEPT !.h = "error"]]
    BY <1>18, <2>1 DEF Fail, Returns
  <2>5. \A i \in Jobs \ {slot[w].job} : row'[i] = row[i]
    BY <2>1, <2>3 DEF TypeOK
  <2>6. "error" \in HandlerPcs
    BY DEF HandlerPcs
  <2> QED BY <1>14, <2>1, <2>2, <2>4, <2>5, <2>6
<1>19. ASSUME NEW w \in Workers, OnRetriesExhausted(w) PROVE Owned' /\ SucceededStays
  <2>1. /\ slot[w] # Free /\ slot[w] \in Slot /\ slot[w].job \in Jobs /\ slot[w].h = "error"
        /\ slot' = [slot EXCEPT ![w] = [slot[w] EXCEPT !.a = "settling"]]
        /\ \A i \in Jobs \ {slot[w].job} : row'[i] = row[i]
        /\ row[slot[w].job] = "succeeded" => row'[slot[w].job] = "succeeded"
    BY <1>19, KillSpares
  <2> DEFINE s == [slot[w] EXCEPT !.a = "settling"]
  <2>2. s \in Slot /\ s.h = "error" /\ s.job = slot[w].job
    BY <2>1 DEF Slot, AsynqPcs
  <2>3. slot' = [slot EXCEPT ![w] = s]
    BY <2>1
  <2> HIDE DEF s
  <2> QED BY <1>7, <2>1, <2>2, <2>3
<1> QED
  BY <1>2, <1>3, <1>4, <1>8, <1>9, <1>10, <1>11, <1>12, <1>13, <1>15, <1>16, <1>17, <1>18, <1>19
     DEF Next, vars, ReaperPick, Enqueue, Inspect, PublishFails, Heartbeat, HeartbeatExpires,
         Recover, RetryDue, Reap, Publication, Handler, Asynq

\* A step that leaves the slots alone, and of the tasks changes only those that nobody holds.
LEMMA SparedTaskStep ==
    ASSUME TypeOK, Leased, Spared, UNCHANGED slot,
           left'["db"] \in Nat, left'["db"] <= left["db"], left["crash"] = 0 => left'["crash"] = 0,
           \A j \in Jobs : row'[j] = "succeeded" => row[j] = "succeeded",
           \A j \in Jobs :
              \/ task'[j] = task[j]
              \/ /\ \A w \in Workers : slot[w] # Free => slot[w].job # j
                 /\ task'[j].state # "active"
                 /\ \/ left'["db"] = 0 \/ task'[j].retried = 0
                    \/ /\ task[j].state \in {"pending", "retry", "archived"}
                       /\ task'[j].retried = task[j].retried
    PROVE  Spared'
<1>1. left["db"] \in Nat /\ \A j \in Jobs : task[j].retried \in Nat
  BY DEF TypeOK, Kinds, Task
<1>2. \A n \in Nat : Spares(n) => SparesNext(n)
  BY <1>1 DEF Spares, SparesNext
<1>3. left'["db"] <= MaxRetry
  BY <1>1 DEF Spared
<1>4. ASSUME left'["db"] > 0
      PROVE  /\ left'["crash"] = 0
             /\ \A j \in Jobs : task'[j].state = "active" => \E w \in Workers : slot'[w].job = j
  BY <1>1, <1>4 DEF Spared
<1>5. ASSUME NEW j \in Jobs, row'[j] = "succeeded", task'[j].state \in {"pending", "retry", "archived"}
      PROVE  SparesNext(task'[j].retried)
  <2>1. CASE left'["db"] = 0
    BY <2>1 DEF Spares, SparesNext
  <2>2. CASE task'[j].retried = 0
    BY <1>3, <2>2 DEF Spares, SparesNext
  <2>3. CASE task[j].state \in {"pending", "retry", "archived"} /\ task'[j].retried = task[j].retried
    BY <1>1, <1>2, <1>5, <2>3 DEF Spared
  <2>4. CASE task'[j] = task[j]
    BY <1>5, <2>3, <2>4
  <2> QED BY <2>1, <2>2, <2>3, <2>4
<1>6. ASSUME NEW w \in Workers, slot'[w] # Free
      PROVE  /\ task'[slot'[w].job].retried = slot'[w].retried
             /\ row'[slot'[w].job] = "succeeded" =>
                  /\ slot'[w].h = "claiming" => SparesNext(slot'[w].retried)
                  /\ slot'[w].h = "error" => slot'[w].retried + 1 + left'["db"] <= MaxRetry
  <2>1. slot[w] # Free /\ slot[w].job \in Jobs /\ slot'[w] = slot[w] /\ slot[w].retried \in Nat
    BY <1>6 DEF Leased, TypeOK, Slot
  <2>2. task'[slot[w].job] = task[slot[w].job]
    BY <2>1
  <2> QED BY <1>1, <1>2, <2>1, <2>2 DEF Spared
<1> QED BY <1>3, <1>4, <1>5, <1>6 DEF Spared, Spares, SparesNext

\* A step of one goroutine, short of releasing its slot.
LEMMA SparedSlotStep ==
    ASSUME TypeOK, Leased, Spared, UNCHANGED task, NEW w \in Workers, slot[w] # Free,
           NEW s, slot' = [slot EXCEPT ![w] = s], s.job = slot[w].job, s.retried = slot[w].retried,
           left'["db"] \in Nat, left'["db"] <= left["db"], left["crash"] = 0 => left'["crash"] = 0,
           \A i \in Jobs \ {slot[w].job} : row'[i] = row[i],
           row'[slot[w].job] = "succeeded" =>
              /\ s.h # "claiming"
              /\ s.h = "error" => slot[w].retried + 1 + left'["db"] <= MaxRetry
    PROVE  Spared'
<1>1. /\ left["db"] \in Nat /\ slot[w].job \in Jobs /\ task[slot[w].job].state = "active"
      /\ \A j \in Jobs : task[j].retried \in Nat
  BY DEF TypeOK, Kinds, Leased, Task
<1>2. \A n \in Nat : Spares(n) => SparesNext(n)
  BY <1>1 DEF Spares, SparesNext
<1>3. slot'[w] = s /\ \A v \in Workers : v # w => slot'[v] = slot[v]
  BY DEF TypeOK
<1>4. \A v \in Workers : slot'[v].job = slot[v].job
  BY <1>3
<1>5. left'["db"] <= MaxRetry
  BY <1>1 DEF Spared
<1>6. ASSUME left'["db"] > 0
      PROVE  /\ left'["crash"] = 0
             /\ \A j \in Jobs : task'[j].state = "active" => \E v \in Workers : slot'[v].job = j
  <2>1. left["db"] > 0
    BY <1>1, <1>6
  <2> QED BY <1>4, <2>1 DEF Spared
<1>7. ASSUME NEW j \in Jobs, row'[j] = "succeeded", task'[j].state \in {"pending", "retry", "archived"}
      PROVE  SparesNext(task'[j].retried)
  <2>1. j # slot[w].job /\ task'[j] = task[j]
    BY <1>1, <1>7
  <2> QED BY <1>1, <1>2, <1>7, <2>1 DEF Spared
<1>8. ASSUME NEW v \in Workers, slot'[v] # Free
      PROVE  /\ task'[slot'[v].job].retried = slot'[v].retried
             /\ row'[slot'[v].job] = "succeeded" =>
                  /\ slot'[v].h = "claiming" => SparesNext(slot'[v].retried)
                  /\ slot'[v].h = "error" => slot'[v].retried + 1 + left'["db"] <= MaxRetry
  <2>1. CASE v = w
    BY <1>3, <2>1 DEF Spared
  <2>2. CASE v # w
    <3>1. /\ slot[v] # Free /\ slot[v].job \in Jobs /\ slot'[v] = slot[v] /\ slot[v].retried \in Nat
          /\ slot[v].job # slot[w].job
      BY <1>1, <1>3, <1>8, <2>2 DEF Leased, ExclusiveDelivery, TypeOK, Slot
    <3>2. row'[slot[v].job] = row[slot[v].job]
      BY <3>1
    <3> QED BY <1>1, <1>2, <3>1, <3>2 DEF Spared
  <2> QED BY <2>1, <2>2
<1> QED BY <1>5, <1>6, <1>7, <1>8 DEF Spared, Spares, SparesNext

\* A delivery that ends, with what asynq makes of its task; or its process that ends.
LEMMA SparedRelease ==
    ASSUME TypeOK, Leased, Spared, UNCHANGED row, NEW w \in Workers, slot[w] # Free,
           slot' = [slot EXCEPT ![w] = Free],
           left'["db"] \in Nat, left'["db"] <= left["db"], left["crash"] = 0 => left'["crash"] = 0,
           \/ task' = [task EXCEPT ![slot[w].job] = NoTask]
           \/ task' = [task EXCEPT ![slot[w].job] = AfterFailure(@)] /\ slot[w].h = "error"
           \/ task' = task /\ left["db"] = 0
    PROVE  Spared'
<1>1. /\ left["db"] \in Nat /\ slot[w].job \in Jobs /\ task[slot[w].job].state = "active"
      /\ \A j \in Jobs : task[j].retried \in Nat
  BY DEF TypeOK, Kinds, Leased, Task
<1>2. \A n \in Nat : Spares(n) => SparesNext(n)
  BY <1>1 DEF Spares, SparesNext
<1>3. slot'[w] = Free /\ \A v \in Workers : v # w => slot'[v] = slot[v]
  BY DEF TypeOK
<1>4. left'["db"] <= MaxRetry
  BY <1>1 DEF Spared
<1>5. \A j \in Jobs \ {slot[w].job} : task'[j] = task[j]
  BY DEF TypeOK
<1>6. \/ task'[slot[w].job] = NoTask
      \/ task'[slot[w].job] = AfterFailure(task[slot[w].job]) /\ slot[w].h = "error"
      \/ task' = task /\ left["db"] = 0
  BY <1>1 DEF TypeOK
<1>7. ASSUME left'["db"] > 0
      PROVE  /\ left'["crash"] = 0
             /\ \A j \in Jobs : task'[j].state = "active" => \E v \in Workers : slot'[v].job = j
  <2>1. left["db"] > 0
    BY <1>1, <1>7
  <2>2. left'["crash"] = 0
    BY <2>1 DEF Spared
  <2>3. AfterFailure(task[slot[w].job]).state # "active"
    BY <1>1 DEF AfterFailure, TypeOK, Task
  <2>4. task'[slot[w].job].state # "active"
    BY <1>6, <2>1, <2>3 DEF NoTask
  <2>5. ASSUME NEW j \in Jobs, task'[j].state = "active"
        PROVE  \E v \in Workers : slot'[v].job = j
    <3>1. j # slot[w].job /\ task[j].state = "active"
      BY <1>5, <2>4, <2>5
    <3>2. PICK v \in Workers : slot[v].job = j
      BY <2>1, <3>1 DEF Spared
    <3> QED BY <1>3, <3>1, <3>2
  <2> QED BY <2>2, <2>5
<1>8. ASSUME NEW j \in Jobs, row'[j] = "succeeded", task'[j].state \in {"pending", "retry", "archived"}
      PROVE  SparesNext(task'[j].retried)
  <2>1. CASE j # slot[w].job
    BY <1>1, <1>2, <1>5, <1>8, <2>1 DEF Spared
  <2>2. CASE j = slot[w].job
    <3>1. CASE task'[slot[w].job] = NoTask
      BY <1>8, <2>2, <3>1 DEF NoTask
    <3>2. CASE task' = task /\ left["db"] = 0
      BY <1>1, <3>2 DEF Spares, SparesNext
    <3>3. CASE task'[slot[w].job] = AfterFailure(task[slot[w].job]) /\ slot[w].h = "error"
      <4>1. task[slot[w].job].retried + 1 + left["db"] <= MaxRetry
        BY <1>8, <2>2, <3>3 DEF Spared
      <4>2. ~(task[slot[w].job].retried >= MaxRetry)
        BY <1>1, <4>1
      <4>3. task[slot[w].job] \in Task
        BY <1>1 DEF TypeOK
      <4>4. AfterFailure(task[slot[w].job]).retried = task[slot[w].job].retried + 1
        BY <4>2, <4>3 DEF AfterFailure, Task
      <4> QED BY <1>1, <2>2, <3>3, <4>1, <4>4 DEF Spares, SparesNext
    <3> QED BY <1>6, <3>1, <3>2, <3>3
  <2> QED BY <2>1, <2>2
<1>9. ASSUME NEW v \in Workers, slot'[v] # Free
      PROVE  /\ task'[slot'[v].job].retried = slot'[v].retried
             /\ row'[slot'[v].job] = "succeeded" =>
                  /\ slot'[v].h = "claiming" => SparesNext(slot'[v].retried)
                  /\ slot'[v].h = "error" => slot'[v].retried + 1 + left'["db"] <= MaxRetry
  <2>1. v # w /\ slot'[v] = slot[v] /\ slot[v] # Free
    BY <1>3, <1>9
  <2>2. slot[v].job \in Jobs /\ slot[v].retried \in Nat /\ slot[v].job # slot[w].job
    BY <1>1, <2>1 DEF Leased, ExclusiveDelivery, TypeOK, Slot
  <2>3. task'[slot[v].job] = task[slot[v].job]
    BY <1>5, <2>2
  <2> QED BY <1>1, <1>2, <2>1, <2>2, <2>3 DEF Spared
<1> QED BY <1>4, <1>7, <1>8, <1>9 DEF Spared, Spares, SparesNext

\* A delivery that begins: its goroutine takes over what the task can spare.
LEMMA SparedDequeue ==
    ASSUME TypeOK, Leased, Spared, NEW w \in Workers, NEW j \in Jobs, Dequeue(w, j)
    PROVE  Spared'
<1> DEFINE s == [job |-> j, h |-> "claiming", a |-> "waiting", retried |-> task[j].retried,
                 data |-> task[j].data, lease |-> TRUE, cut |-> FALSE]
<1>1. /\ slot[w] = Free /\ task[j].state = "pending" /\ UNCHANGED <<row, left>>
      /\ slot' = [slot EXCEPT ![w] = s] /\ task' = [task EXCEPT ![j].state = "active"]
  BY DEF Dequeue
<1>2. s.job = j /\ s.h = "claiming" /\ s.retried = task[j].retried
  OBVIOUS
<1> HIDE DEF s
<1>3. slot'[w] = s /\ \A v \in Workers : v # w => slot'[v] = slot[v]
  BY <1>1 DEF TypeOK
<1>4. /\ task'[j].state = "active" /\ task'[j].retried = task[j].retried
      /\ \A i \in Jobs : i # j => task'[i] = task[i]
  BY <1>1 DEF TypeOK, Task
<1>5. \A n : SparesNext(n) <=> Spares(n)
  BY <1>1 DEF Spares, SparesNext
<1>6. ASSUME left'["db"] > 0
      PROVE  /\ left'["crash"] = 0
             /\ \A i \in Jobs : task'[i].state = "active" => \E v \in Workers : slot'[v].job = i
  <2>1. ASSUME NEW i \in Jobs, task'[i].state = "active"
        PROVE  \E v \in Workers : slot'[v].job = i
    <3>1. CASE i = j
      BY <1>2, <1>3, <3>1
    <3>2. CASE i # j
      <4>1. PICK v \in Workers : slot[v].job = i
        BY <1>1, <1>4, <1>6, <2>1, <3>2 DEF Spared
      <4>2. v # w
        BY <1>1, <4>1, JobQueueAssumption DEF Free
      <4> QED BY <1>3, <4>1, <4>2
    <3> QED BY <3>1, <3>2
  <2> QED BY <1>1, <1>6, <2>1 DEF Spared
<1>7. ASSUME NEW i \in Jobs, row'[i] = "succeeded", task'[i].state \in {"pending", "retry", "archived"}
      PROVE  SparesNext(task'[i].retried)
  <2>1. i # j
    BY <1>4, <1>7
  <2> QED BY <1>1, <1>4, <1>5, <1>7, <2>1 DEF Spared
<1>8. ASSUME NEW v \in Workers, slot'[v] # Free
      PROVE  /\ task'[slot'[v].job].retried = slot'[v].retried
             /\ row'[slot'[v].job] = "succeeded" =>
                  /\ slot'[v].h = "claiming" => SparesNext(slot'[v].retried)
                  /\ slot'[v].h = "error" => slot'[v].retried + 1 + left'["db"] <= MaxRetry
  <2>1. CASE v = w
    BY <1>1, <1>2, <1>3, <1>4, <1>5, <2>1 DEF Spared
  <2>2. CASE v # w
    <3>1. slot'[v] = slot[v] /\ slot[v] # Free
      BY <1>3, <1>8, <2>2
    <3>2. slot[v].job \in Jobs /\ slot[v].job # j
      BY <1>1, <3>1 DEF Leased
    <3> QED BY <1>1, <1>4, <1>5, <3>1, <3>2 DEF Spared
  <2> QED BY <2>1, <2>2
<1>9. left'["db"] <= MaxRetry
  BY <1>1 DEF Spared
<1> QED BY <1>6, <1>7, <1>8, <1>9 DEF Spared, Spares, SparesNext

\* Every step leaves a job that succeeded enough retries.
LEMMA SparedInductive ==
    ASSUME TypeOK, Leased, Owned, Spared, [Next]_vars PROVE Spared'
<1>1. /\ left["db"] \in Nat /\ left'["db"] \in Nat /\ left'["db"] <= left["db"]
      /\ left["crash"] = 0 => left'["crash"] = 0
  BY BudgetShrinks, BudgetStaysSpent DEF TypeOK, Kinds
<1>2. ~RedisLoss /\ \A w \in Workers : ~ContextDone(w)
  BY DEF RedisLoss, ContextDone, Leased, Spend
<1>3. \A p \in Publishers : ~AdminRequeue(p) /\ \A j \in Jobs : ~AdminRead(p, j)
  BY DEF AdminRequeue, AdminRead, Owned, Spend
<1>4. CASE UNCHANGED <<task, slot>> /\ \A j \in Jobs : row'[j] = "succeeded" => row[j] = "succeeded"
  BY <1>1, <1>4, SparedTaskStep
<1>5. ASSUME NEW p \in Publishers, Reap(p) \/ PublishFails(p) \/ \E j \in Jobs : Record(p, j)
      PROVE  Spared'
  BY <1>4, <1>5 DEF Reap, ReaperPick, ReaperReset, PublishFails, Record, SetStatus, TypeOK
<1>6. ASSUME NEW p \in Publishers, Enqueue(p) \/ Inspect(p) PROVE Spared'
  <2> DEFINE new == [state |-> "pending", retried |-> 0, data |-> pub[p].data]
  <2>1. CASE UNCHANGED task
    BY <1>4, <1>6, <2>1 DEF Enqueue, Inspect
  <2>2. CASE task' # task
    <3>1. PICK j \in Jobs : j = pub[p].job
      BY <1>6, <2>2 DEF Enqueue, Inspect, TypeOK
    <3>2. \/ task[j].state = "none" /\ task' = [task EXCEPT ![j] = new]
          \/ task[j].state = "archived" /\ task' = [task EXCEPT ![j].state = "pending"]
          \/ task' = [task EXCEPT ![j] = @]
      BY <1>6, <2>2, <3>1 DEF Enqueue, Inspect
    <3>3. \A w \in Workers : slot[w] # Free => task[slot[w].job].state = "active"
      BY DEF Leased
    <3>4. \/ task'[j] = task[j]
          \/ /\ task[j].state # "active" /\ task'[j].state # "active"
             /\ \/ task'[j].retried = 0
                \/ task[j].state = "archived" /\ task'[j].retried = task[j].retried
      BY <3>2 DEF TypeOK, Task
    <3>5. \A i \in Jobs : i # j => task'[i] = task[i]
      BY <3>2 DEF TypeOK
    <3>6. UNCHANGED <<row, slot>>
      BY <1>6 DEF Enqueue, Inspect
    <3> QED BY <1>1, <3>3, <3>4, <3>5, <3>6, SparedTaskStep
  <2> QED BY <2>1, <2>2
<1>7. ASSUME NEW j \in Jobs, HeartbeatExpires(j) \/ Prune(j) PROVE Spared'
  BY <1>4, <1>7 DEF HeartbeatExpires, Prune, TypeOK
<1>8. ASSUME NEW j \in Jobs, Recover(j) PROVE Spared'
  <2>1. \A w \in Workers : slot[w] # Free => slot[w].job # j
    BY <1>8 DEF Recover, Leased
  <2>2. \A w \in Workers : slot[w].job # j
    BY <2>1, JobQueueAssumption DEF Free
  <2>3. left["db"] = 0
    BY <1>1, <1>8, <2>2 DEF Recover, Spared
  <2>4. UNCHANGED <<row, slot>> /\ \A i \in Jobs : i # j => task'[i] = task[i]
    BY <1>8 DEF Recover, TypeOK
  <2>5. task'[j].state # "active"
    BY <1>8 DEF Recover, AfterFailure, TypeOK, Task
  <2>6. left'["db"] = 0
    BY <1>1, <2>3
  <2> QED BY <1>1, <2>1, <2>4, <2>5, <2>6, SparedTaskStep
<1>9. ASSUME NEW j \in Jobs, RetryDue(j) PROVE Spared'
  <2>1. \A w \in Workers : slot[w] # Free => slot[w].job # j
    BY <1>9 DEF RetryDue, Leased
  <2>2. /\ UNCHANGED <<row, slot>> /\ task[j].state = "retry"
        /\ \A i \in Jobs : i # j => task'[i] = task[i]
        /\ task'[j].state = "pending" /\ task'[j].retried = task[j].retried
    BY <1>9 DEF RetryDue, TypeOK, Task
  <2> QED BY <1>1, <2>1, <2>2, SparedTaskStep
<1>10. ASSUME NEW w \in Workers, Heartbeat(w) PROVE Spared'
  BY <1>4, <1>10 DEF Heartbeat
\* A goroutine on its way to its outcome.
<1>11. ASSUME NEW w \in Workers, slot[w] # Free, UNCHANGED task, NEW h \in HandlerPcs, h # "claiming",
              slot' = [slot EXCEPT ![w] = [slot[w] EXCEPT !.h = h]],
              \A i \in Jobs \ {slot[w].job} : row'[i] = row[i],
              row'[slot[w].job] = "succeeded" /\ h = "error" =>
                  slot[w].retried + 1 + left'["db"] <= MaxRetry
       PROVE  Spared'
  <2> DEFINE s == [slot[w] EXCEPT !.h = h]
  <2>1. s.job = slot[w].job /\ s.retried = slot[w].retried /\ s.h = h
    BY DEF TypeOK, Slot
  <2>2. slot' = [slot EXCEPT ![w] = s]
    BY <1>11
  <2> HIDE DEF s
  <2> QED BY <1>1, <1>11, <2>1, <2>2, SparedSlotStep
<1>12. ASSUME NEW w \in Workers, Handler(w) PROVE Spared'
  <2>1. /\ slot[w] # Free /\ UNCHANGED task
        /\ slot[w].h \in {"claiming", "handling", "succeeding", "failing"}
    BY <1>12 DEF Handler, Claim, DiscardDuplicate, ClaimError, HandlerReturns, Succeed, Fail,
                 OutcomeNotWritten, Free
  <2>2. slot[w].job \in Jobs /\ slot[w].a # "done" /\ ~slot[w].cut /\ slot[w].retried \in Nat
    BY <2>1 DEF Leased, TypeOK, Slot
  <2>3. \A h : Returns(w, h) => slot' = [slot EXCEPT ![w] = [slot[w] EXCEPT !.h = h]]
    BY <2>2 DEF Returns
  <2>4. \A i \in Jobs \ {slot[w].job} : row'[i] = row[i]
    BY <1>12, <2>2 DEF Handler, Claim, DiscardDuplicate, ClaimError, HandlerReturns, Succeed, Fail,
                       OutcomeNotWritten, SetStatus, TypeOK
  <2>5. CASE ClaimError(w)
    <3>1. left["db"] > 0 /\ left'["db"] = left["db"] - 1 /\ UNCHANGED row /\ slot[w].h = "claiming"
      BY <2>2, <2>5 DEF ClaimError, Spend, TypeOK, Kinds
    <3>2. row[slot[w].job] = "succeeded" => slot[w].retried + left["db"] <= MaxRetry
      BY <1>1, <2>1, <3>1 DEF Spared, Spares, SparesNext
    <3>3. row'[slot[w].job] = "succeeded" => slot[w].retried + 1 + left'["db"] <= MaxRetry
      BY <1>1, <2>2, <3>1, <3>2
    <3>4. slot' = [slot EXCEPT ![w] = [slot[w] EXCEPT !.h = "error"]] /\ "error" \in HandlerPcs
      BY <2>3, <2>5 DEF ClaimError, HandlerPcs
    <3> QED BY <1>11, <2>1, <2>4, <3>3, <3>4
  <2>6. CASE OutcomeNotWritten(w) \/ Fail(w)
    <3>1. row[slot[w].job] \in {"running", "queued"}
      BY <2>6 DEF OutcomeNotWritten, Fail, Owned, OwnsRow, Running
    <3>2. row'[slot[w].job] # "succeeded"
      BY <2>2, <2>6, <3>1 DEF OutcomeNotWritten, Fail, SetStatus, TypeOK
    <3>3. PICK h \in {"ok", "error"} : slot' = [slot EXCEPT ![w] = [slot[w] EXCEPT !.h = h]]
      BY <2>3, <2>6 DEF OutcomeNotWritten, Fail
    <3>4. h \in HandlerPcs /\ h # "claiming"
      BY DEF HandlerPcs
    <3> QED BY <1>11, <2>1, <2>4, <3>2, <3>3, <3>4
  <2>7. CASE Claim(w) \/ DiscardDuplicate(w) \/ HandlerReturns(w) \/ Succeed(w)
    <3>1. PICK h \in {"handling", "succeeding", "failing", "ok"} :
                slot' = [slot EXCEPT ![w] = [slot[w] EXCEPT !.h = h]]
      BY <2>3, <2>7 DEF Claim, DiscardDuplicate, HandlerReturns, Succeed
    <3>2. h \in HandlerPcs /\ h # "claiming" /\ h # "error"
      BY DEF HandlerPcs
    <3> QED BY <1>11, <2>1, <2>4, <3>1, <3>2
  <2> QED BY <1>12, <2>5, <2>6, <2>7 DEF Handler
<1>13. ASSUME NEW w \in Workers, OnRetriesExhausted(w) PROVE Spared'
  <2> DEFINE s == [slot[w] EXCEPT !.a = "settling"]
  <2>1. /\ slot[w] # Free /\ slot[w] \in Slot /\ slot[w].job \in Jobs /\ slot[w].h = "error"
        /\ slot' = [slot EXCEPT ![w] = s] /\ UNCHANGED task
        /\ \A i \in Jobs \ {slot[w].job} : row'[i] = row[i]
        /\ row'[slot[w].job] \in {row[slot[w].job], "dead"}
    BY <1>13, KillSpares
  <2>2. s.job = slot[w].job /\ s.retried = slot[w].retried /\ s.h = "error" /\ slot[w].retried \in Nat
    BY <2>1 DEF Slot
  <2> HIDE DEF s
  <2>3. row'[slot[w].job] = "succeeded" => slot[w].retried + 1 + left'["db"] <= MaxRetry
    <3>1. row'[slot[w].job] = "succeeded" => slot[w].retried + 1 + left["db"] <= MaxRetry
      BY <2>1 DEF Spared
    <3> QED BY <1>1, <2>2, <3>1
  <2> QED BY <1>1, <2>1, <2>2, <2>3, SparedSlotStep
<1>14. ASSUME NEW w \in Workers, Ack(w) \/ Settle(w) \/ Crash(w) PROVE Spared'
  <2>1. slot[w] # Free /\ UNCHANGED row
    BY <1>14 DEF Ack, Settle, Crash, Free
  <2>2. slot[w].lease /\ (slot[w].a = "settling" => slot[w].h = "error")
    BY <2>1 DEF Leased
  <2>3. slot' = [slot EXCEPT ![w] = Free]
    BY <1>14, <2>2 DEF Ack, Settle, Crash
  <2>4. CASE Ack(w)
    BY <1>1, <2>1, <2>2, <2>3, <2>4, SparedRelease DEF Ack
  <2>5. CASE Settle(w)
    BY <1>1, <2>1, <2>2, <2>3, <2>5, SparedRelease DEF Settle
  <2>6. CASE Crash(w)
    <3>1. left["crash"] > 0 /\ left["crash"] \in Nat /\ UNCHANGED task
      BY <2>6 DEF Crash, Spend, TypeOK, Kinds
    <3>2. left["db"] = 0
      BY <1>1, <3>1 DEF Spared
    <3> QED BY <1>1, <2>1, <2>3, <3>1, <3>2, SparedRelease
  <2> QED BY <1>14, <2>4, <2>5, <2>6
<1>15. CASE UNCHANGED vars
  BY <1>4, <1>15 DEF vars
<1> QED
  BY <1>2, <1>3, <1>5, <1>6, <1>7, <1>8, <1>9, <1>10, <1>12, <1>13, <1>14, <1>15, SparedDequeue
     DEF Next, Publication, Asynq

\* What holds together while nothing undisturbs the queue.
Undisturbing == Leased /\ Spared /\ Owned

\* They hold before anything is recorded.
LEMMA UndisturbedInit ==
    ASSUME Undisturbed, Init, TypeOK PROVE Undisturbing
<1>1. left \in Budgets /\ left["db"] \in Nat
  BY DEF Init, TypeOK, Kinds
<1>2. /\ left["redis"] = 0 /\ left["cut"] = 0 /\ left["requeue"] = 0
      /\ left["db"] <= MaxRetry /\ (left["db"] > 0 => left["crash"] = 0)
  BY <1>1 DEF Undisturbed
<1>3. Leased
  BY <1>2 DEF Init, Leased, ExclusiveDelivery, Free
<1>4. Owned
  BY <1>2 DEF Init, Owned, OwnsRow, Running, Free, Idle
<1>5. Spared
  BY <1>2 DEF Init, Spared, NoTask
<1> QED BY <1>3, <1>4, <1>5 DEF Undisturbing


\* A job that succeeded stays so until it is pruned, while Redis keeps its
\* data, no handler is cut off and nobody requeues. Publications may fail and
\* repeat without limit; so may workers crash, or else up to MaxRetry statements
\* on job_runs fail: one more, and the last Kill may write over a success.
THEOREM SucceededIsNotReopened ==
    ASSUME Undisturbed PROVE Spec => SucceededIsFinal
<1>1. Init /\ TypeOK => Undisturbing
  BY UndisturbedInit
<1>2. TypeOK /\ Undisturbing /\ [Next]_vars => Undisturbing'
  BY LeasedInductive, SparedInductive, OwnedInductive DEF Undisturbing
<1>3. TypeOK /\ Undisturbing /\ [Next]_vars => [SucceededStays]_vars
  BY OwnedInductive DEF Undisturbing
<1>4. Spec => [][SucceededStays]_vars
  BY <1>1, <1>2, <1>3, TypeCorrect, PTL DEF Spec
<1> QED BY <1>4 DEF SucceededIsFinal, SucceededStays

-----------------------------------------------------------------------------
(* A row that failed waits for asynq, so its task must be there: whoever     *)
(* makes the task go has claimed the row, or has found it not to be claimed. *)

\* What a goroutine does not find any more: its claim has made it something else.
PastFailure == {"handling", "succeeding", "failing", "ok"}

Awaited ==
    /\ FailedStaysInQueue
    /\ \A w \in Workers : slot[w].h \in PastFailure => row[slot[w].job] # "failed"

\* Every step but Fail leaves no more rows failed; a slot that is not past a failure
\* becomes so only with a row that is not failed.
LEMMA AwaitedStep ==
    ASSUME TypeOK, Awaited,
           \A j \in Jobs : row'[j] = "failed" => row[j] = "failed",
           \A j \in Jobs : task[j].state # "none" => task'[j].state # "none",
           \A w \in Workers : slot'[w].h \in PastFailure =>
              \/ slot[w].h \in PastFailure /\ slot'[w].job = slot[w].job /\ slot[w].job \in Jobs
              \/ row'[slot'[w].job] # "failed"
    PROVE  Awaited'
BY DEF Awaited, FailedStaysInQueue

\* The statement that writes s.
LEMMA RowWritten ==
    ASSUME TypeOK, NEW j \in Jobs, NEW s \in Statuses, SetStatus(j, s)
    PROVE  /\ row'[j] \in {"absent", s} /\ (row[j] # "absent" => row'[j] = s)
           /\ \A i \in Jobs \ {j} : row'[i] = row[i]
BY DEF SetStatus, TypeOK

\* A task that is replaced by another is not gone.
LEMMA TaskKept ==
    ASSUME TypeOK, NEW j \in Jobs, NEW t, t.state # "none", task' = [task EXCEPT ![j] = t]
    PROVE  \A i \in Jobs : task[i].state # "none" => task'[i].state # "none"
BY DEF TypeOK

\* Every step keeps the task of each row that failed.
LEMMA AwaitedInductive ==
    ASSUME TypeOK, Leased, Awaited, [Next]_vars PROVE Awaited'
<1>1. CASE UNCHANGED <<row, slot>> /\ \A j \in Jobs : task[j].state # "none" => task'[j].state # "none"
  BY <1>1 DEF Awaited, FailedStaysInQueue
<1>2. CASE UNCHANGED vars
  BY <1>1, <1>2 DEF vars
<1>3. \A w \in Workers : slot[w].h # "none" => slot[w].job \in Jobs /\ slot[w].a # "done"
                                              /\ task[slot[w].job].state = "active"
  BY DEF Leased, Free
<1>4. ASSUME NEW p \in Publishers,
             \/ \E j \in Jobs : Record(p, j) \/ AdminRead(p, j)
             \/ AdminRequeue(p) \/ Reap(p) \/ Publication(p)
      PROVE  Awaited'
  <2>1. CASE Enqueue(p) \/ Inspect(p)
    <3>1. CASE UNCHANGED task
      BY <1>1, <2>1, <3>1 DEF Enqueue, Inspect
    <3>2. CASE task' # task
      <4> DEFINE new  == [state |-> "pending", retried |-> 0, data |-> pub[p].data]
                 held == task[pub[p].job]
      <4>1. PICK t \in {new, [held EXCEPT !.state = "pending"], held} :
               /\ task' = [task EXCEPT ![pub[p].job] = t]
               /\ t = held => held.state # "none"
        BY <2>1, <3>2 DEF Enqueue, Inspect
      <4>2. pub[p].job \in Jobs
        BY <3>2, <4>1 DEF TypeOK
      <4>3. held \in Task
        BY <4>2 DEF TypeOK
      <4>4. t.state # "none"
        BY <4>1, <4>3 DEF Task
      <4>5. \A j \in Jobs : task[j].state # "none" => task'[j].state # "none"
        BY <4>1, <4>2, <4>4, TaskKept
      <4> QED BY <1>1, <2>1, <4>5 DEF Enqueue, Inspect
    <3> QED BY <3>1, <3>2
  <2>2. CASE AdminRequeue(p) \/ ReaperReset(p)
    <3>1. \A j \in Jobs : row'[j] = "failed" => row[j] = "failed"
      BY <2>2 DEF AdminRequeue, ReaperReset, SetStatus, TypeOK
    <3> QED BY <2>2, <3>1, AwaitedStep, <1>3 DEF AdminRequeue, ReaperReset, PastFailure
  <2>3. CASE \E j \in Jobs : Record(p, j)
    <3>1. \A j \in Jobs : row'[j] = "failed" => row[j] = "failed"
      BY <2>3 DEF Record, TypeOK
    <3> QED BY <2>3, <3>1, AwaitedStep, <1>3 DEF Record, PastFailure
  <2> QED BY <1>1, <1>4, <2>1, <2>2, <2>3 DEF AdminRead, Reap, ReaperPick, Publication, PublishFails
<1>5. ASSUME NEW w \in Workers, NEW j \in Jobs, Dequeue(w, j) PROVE Awaited'
  <2>1. \A i \in Jobs : task[i].state # "none" => task'[i].state # "none"
    BY <1>5 DEF Dequeue, TypeOK, Task
  <2>2. \A v \in Workers : slot'[v] = slot[v] \/ slot'[v].h = "claiming"
    BY <1>5 DEF Dequeue, TypeOK
  <2> QED BY <1>3, <1>5, <2>1, <2>2, AwaitedStep DEF Dequeue, PastFailure
\* Who goes on: row and task of its job, and the slot.
<1>6. ASSUME NEW w \in Workers, Claim(w) \/ DiscardDuplicate(w) \/ ClaimError(w) \/ HandlerReturns(w)
                                \/ Succeed(w) \/ OutcomeNotWritten(w)
      PROVE  Awaited'
  <2>1. slot[w] # Free /\ slot[w].h \in HandlerPcs /\ slot[w].h # "none"
    BY <1>6 DEF Claim, DiscardDuplicate, ClaimError, HandlerReturns, Succeed, OutcomeNotWritten, Free,
                HandlerPcs
  <2>2. slot[w].job \in Jobs /\ slot[w].a # "done"
    BY <1>3, <2>1
  <2>3. PICK h \in HandlerPcs :
           /\ slot' = [slot EXCEPT ![w] = [slot[w] EXCEPT !.h = h]]
           /\ h \in PastFailure => slot[w].h \in PastFailure \/ Claim(w) \/ DiscardDuplicate(w)
    BY <1>6, <2>2 DEF Claim, DiscardDuplicate, ClaimError, HandlerReturns, Succeed, OutcomeNotWritten,
                      Returns, HandlerPcs, PastFailure
  <2>4. slot'[w].h = h /\ slot'[w].job = slot[w].job /\ \A v \in Workers \ {w} : slot'[v] = slot[v]
    <3>1. slot \in [Workers -> Slot] /\ slot[w] \in Slot
      BY DEF TypeOK
    <3>2. [slot[w] EXCEPT !.h = h].h = h /\ [slot[w] EXCEPT !.h = h].job = slot[w].job
      BY <3>1 DEF Slot
    <3>3. slot' = [slot EXCEPT ![w] = [slot[w] EXCEPT !.h = h]]
      BY <2>3, Zenon
    <3> QED BY <3>1, <3>2, <3>3
  <2>5. UNCHANGED task /\ \A j \in Jobs : row'[j] = "failed" => row[j] = "failed"
    <3>1. CASE Claim(w) \/ Succeed(w)
      <4>1. PICK s \in {"running", "succeeded"} : SetStatus(slot[w].job, s)
        BY <3>1 DEF Claim, Succeed
      <4>2. s \in Statuses
        BY DEF Statuses
      <4> QED BY <2>2, <3>1, <4>1, <4>2, RowWritten DEF Claim, Succeed
    <3>2. CASE UNCHANGED <<row, task>>
      BY <3>2
    <3> QED BY <1>6, <3>1, <3>2 DEF DiscardDuplicate, ClaimError, HandlerReturns, OutcomeNotWritten
  <2>6. Claim(w) \/ DiscardDuplicate(w) => row'[slot[w].job] # "failed"
    BY <2>2 DEF Claim, DiscardDuplicate, Claimable, SetStatus, TypeOK
  <2>7. ASSUME NEW v \in Workers, slot'[v].h \in PastFailure
        PROVE  \/ slot[v].h \in PastFailure /\ slot'[v].job = slot[v].job /\ slot[v].job \in Jobs
               \/ row'[slot'[v].job] # "failed"
    <3>1. CASE v = w
      <4>1. h \in PastFailure => slot[w].h \in PastFailure \/ row'[slot[w].job] # "failed"
        BY <2>3, <2>6, Zenon
      <4> QED BY <2>2, <2>4, <2>7, <3>1, <4>1
    <3>2. CASE v # w
      <4>1. slot[v].h # "none"
        BY <2>4, <2>7, <3>2 DEF PastFailure
      <4> QED BY <1>3, <2>4, <2>7, <3>2, <4>1
    <3> QED BY <3>1, <3>2
  <2> QED BY <2>5, <2>7, AwaitedStep
<1>7. ASSUME NEW w \in Workers, Fail(w) PROVE Awaited'
  <2>1. /\ slot[w].job \in Jobs /\ slot[w].a # "done" /\ task[slot[w].job].state = "active"
        /\ slot[w].h = "failing"
    BY <1>3, <1>7 DEF Fail
  <2>2. /\ slot' = [slot EXCEPT ![w] = [slot[w] EXCEPT !.h = "error"]] /\ UNCHANGED task
        /\ \A j \in Jobs : j # slot[w].job => row'[j] = row[j]
    BY <1>7, <2>1 DEF Fail, Returns, SetStatus, TypeOK
  <2>3. slot'[w].h = "error" /\ \A v \in Workers \ {w} : slot'[v] = slot[v]
    BY <2>2 DEF TypeOK, Slot
  <2>4. \A v \in Workers \ {w} : slot[v].h \in PastFailure => slot[v].job # slot[w].job /\ slot[v].job \in Jobs
    BY <1>3, <2>1, JobQueueAssumption DEF Leased, ExclusiveDelivery, PastFailure
  <2> QED BY <2>1, <2>2, <2>3, <2>4 DEF Awaited, FailedStaysInQueue, PastFailure
\* The delivery ends.
<1>8. ASSUME NEW w \in Workers, Ack(w) PROVE Awaited'
  <2>1. slot[w].job \in Jobs /\ row[slot[w].job] # "failed"
    BY <1>3, <1>8 DEF Ack, Awaited, PastFailure
  <2>2. \A j \in Jobs : j # slot[w].job => task'[j] = task[j]
    BY <1>8, <2>1 DEF Ack, TypeOK
  <2>3. \A v \in Workers : slot'[v] = slot[v] \/ slot'[v].h = "none"
    BY <1>8 DEF Ack, TypeOK, Free
  <2> QED BY <1>8, <2>1, <2>2, <2>3 DEF Ack, Awaited, FailedStaysInQueue, PastFailure
<1>9. ASSUME NEW w \in Workers, OnRetriesExhausted(w) PROVE Awaited'
  <2>1. slot[w].a = "waiting" /\ slot' = [slot EXCEPT ![w].a = "settling"] /\ UNCHANGED task
    BY <1>9 DEF OnRetriesExhausted
  <2>2. slot[w].job \in Jobs
    BY <2>1 DEF Leased, Free
  <2>3. \A v \in Workers : slot'[v].h = slot[v].h /\ slot'[v].job = slot[v].job
    BY <2>1 DEF TypeOK, Slot
  <2>4. UNCHANGED row \/ SetStatus(slot[w].job, "dead")
    BY <1>9 DEF OnRetriesExhausted
  <2>5. \A j \in Jobs : row'[j] = "failed" => row[j] = "failed"
    BY <2>2, <2>4, RowWritten DEF Statuses
  <2> QED BY <1>3, <2>1, <2>3, <2>5, AwaitedStep DEF PastFailure
<1>14. ASSUME NEW w \in Workers, Crash(w) \/ Settle(w) PROVE Awaited'
  <2>1. \A v \in Workers : \/ slot'[v].h = slot[v].h /\ slot'[v].job = slot[v].job
                           \/ slot'[v].h = "none"
    <3>1. CASE Crash(w)
      BY <3>1 DEF Crash, Free, TypeOK
    <3>2. CASE Settle(w)
      BY <3>2 DEF Settle, Free, TypeOK, Slot
    <3> QED BY <1>14, <3>1, <3>2
  <2>2. \A j \in Jobs : task[j].state # "none" => task'[j].state # "none"
    <3>1. CASE Crash(w)
      BY <3>1 DEF Crash
    <3>2. CASE Settle(w)
      <4>1. slot[w].job \in Jobs
        BY <3>2 DEF Settle, Leased, Free
      <4>2. task[slot[w].job] \in Task
        BY <4>1 DEF TypeOK
      <4>3. AfterFailure(task[slot[w].job]).state # "none"
        BY <4>2 DEF AfterFailure, Task
      <4> QED BY <3>2, <4>1, <4>3 DEF Settle, TypeOK
    <3> QED BY <1>14, <3>1, <3>2
  <2>3. UNCHANGED row
    BY <1>14 DEF Crash, Settle
  <2> QED BY <1>3, <2>1, <2>2, <2>3, AwaitedStep DEF PastFailure
<1>10. ASSUME NEW j \in Jobs, HeartbeatExpires(j) \/ Recover(j) \/ RetryDue(j) PROVE Awaited'
  <2>1. task[j] \in Task
    BY DEF TypeOK
  <2>2. CASE HeartbeatExpires(j)
    BY <1>1, <2>2 DEF HeartbeatExpires
  <2>3. CASE Recover(j)
    <3>1. AfterFailure(task[j]).state # "none"
      BY <2>1 DEF AfterFailure, Task
    <3> QED BY <1>1, <2>3, <3>1, TaskKept DEF Recover
  <2>4. CASE RetryDue(j)
    <3>1. [task[j] EXCEPT !.state = "pending"].state # "none"
      BY <2>1 DEF Task
    <3> QED BY <1>1, <2>4, <3>1, TaskKept DEF RetryDue
  <2> QED BY <1>10, <2>2, <2>3, <2>4
<1>11. ASSUME NEW j \in Jobs, Prune(j) PROVE Awaited'
  <2>1. \A i \in Jobs : row'[i] = "failed" => row[i] = "failed"
    BY <1>11 DEF Prune, TypeOK
  <2> QED BY <1>3, <1>11, <2>1, AwaitedStep DEF Prune, PastFailure
<1>12. ASSUME NEW w \in Workers, Heartbeat(w) PROVE Awaited'
  BY <1>1, <1>12 DEF Heartbeat
<1>13. ~RedisLoss /\ \A w \in Workers : ~ContextDone(w)
  BY DEF RedisLoss, ContextDone, Spend, Leased
<1> QED
  BY <1>2, <1>4, <1>5, <1>6, <1>7, <1>8, <1>9, <1>10, <1>11, <1>12, <1>13, <1>14
     DEF Next, Handler, Asynq

\* A row that failed is never forgotten while Redis keeps its data and no handler is
\* cut off: its task is still there to bring it back (Fail, the reaper's SELECT).
THEOREM FailuresStayQueued ==
    ASSUME RedisKept PROVE Spec => []FailedStaysInQueue
<1>1. Init /\ TypeOK => Leased /\ Awaited
  BY DEF Init, Leased, ExclusiveDelivery, RedisKept, Free, Awaited, FailedStaysInQueue, PastFailure
<1>2. TypeOK /\ Leased /\ [Next]_vars => Leased'
  BY LeasedInductive
<1>3. TypeOK /\ Leased /\ Awaited /\ [Next]_vars => Awaited'
  BY AwaitedInductive
<1>4. Awaited => FailedStaysInQueue
  BY DEF Awaited
<1> QED BY <1>1, <1>2, <1>3, <1>4, TypeCorrect, PTL DEF Spec

-----------------------------------------------------------------------------
(* JobQueue implements JobContract: an execution is what one goroutine does  *)
(* between its claim and its outcome, and by then it owns the row.           *)

Standing(s) == CASE s = "absent"    -> "absent"
                 [] s = "succeeded" -> "done"
                 [] s = "dead"      -> "dlq"
                 [] OTHER           -> "open"

Busy(j)  == {w \in Workers : RunningOn(w, j)}
Count(j) == IF Busy(j) = {} THEN 0 ELSE 1

\* What a step may do to one job: its standing s and whether it is executed, b.
Move(s, b, s2, b2) ==
    \/ s2 = s /\ (b2 <=> b)
    \/ s = "absent" /\ s2 = "open" /\ (b2 <=> b)
    \/ s = "open" /\ s2 = s /\ ~b /\ b2
    \/ s = "open" /\ s2 = "done" /\ b /\ ~b2
    \/ s2 = s /\ b /\ ~b2
    \/ s = "open" /\ s2 = "dlq" /\ ~b /\ ~b2
    \/ s = "done" /\ s2 = "absent" /\ (b2 <=> b)

\* At most one execution is counted.
LEMMA OneIsBusy ==
    ASSUME NEW B, \A v, w \in B : v = w
    PROVE  Cardinality(B) = IF B = {} THEN 0 ELSE 1
<1>1. CASE B = {}
  BY <1>1, FS_EmptySet
<1>2. CASE B # {}
  <2>1. PICK w : w \in B
    BY <1>2
  <2>2. B = {w}
    BY <2>1
  <2> QED BY <2>2, FS_Singleton
<1> QED BY <1>1, <1>2

\* So one delivery at a time is at most one execution,
LEMMA BusyIsExclusive ==
    ASSUME ExclusiveDelivery, NEW j \in Jobs
    PROVE  Cardinality(Busy(j)) = Count(j)
<1>1. \A v, w \in Busy(j) : v = w
  BY JobQueueAssumption DEF ExclusiveDelivery, Busy, RunningOn
<1> QED BY <1>1, OneIsBusy DEF Count

\* and after the step too.
LEMMA BusyIsExclusiveNext ==
    ASSUME ExclusiveDelivery', NEW j \in Jobs
    PROVE  Cardinality(Busy(j)') = Count(j)'
<1>1. \A v, w \in Busy(j)' : v = w
  BY JobQueueAssumption DEF ExclusiveDelivery, Busy, RunningOn
<1> QED BY <1>1, OneIsBusy DEF Count

\* A step that moves one job, and no other, is one of the contract's.
LEMMA ContractMove ==
    ASSUME ExclusiveDelivery, ExclusiveDelivery', NEW j \in Jobs,
           \A i \in Jobs \ {j} : /\ Standing(row'[i]) = Standing(row[i])
                                 /\ (Busy(i) = {}) <=> (Busy(i)' = {}),
           Move(Standing(row[j]), Busy(j) # {}, Standing(row'[j]), Busy(j)' # {})
    PROVE  [Contract!Next]_Contract!vars
<1> DEFINE St == [i \in Jobs |-> Standing(row[i])]
           Ex == [i \in Jobs |-> Count(i)]
           St2 == [i \in Jobs |-> Standing(row'[i])]
           Ex2 == [i \in Jobs |-> Count(i)']
<1>1. St = [i \in Jobs |-> CASE row[i] = "absent"    -> "absent"
                             [] row[i] = "succeeded" -> "done"
                             [] row[i] = "dead"      -> "dlq"
                             [] OTHER                -> "open"]
  BY DEF Standing
<1>2. St2 = [i \in Jobs |-> CASE row'[i] = "absent"    -> "absent"
                              [] row'[i] = "succeeded" -> "done"
                              [] row'[i] = "dead"      -> "dlq"
                              [] OTHER                 -> "open"]
  BY DEF Standing
<1>3. Ex = [i \in Jobs |-> Cardinality({w \in Workers : RunningOn(w, i)})]
  BY BusyIsExclusive DEF Busy
<1>4. Ex2 = [i \in Jobs |-> Cardinality({w \in Workers : RunningOn(w, i)'})]
  BY BusyIsExclusiveNext DEF Busy
<1>5. \A i \in Jobs \ {j} : St2[i] = St[i] /\ Ex2[i] = Ex[i]
  BY DEF Count
<1>6. /\ St[j] = Standing(row[j]) /\ St2[j] = Standing(row'[j])
      /\ Ex[j] = (IF Busy(j) = {} THEN 0 ELSE 1) /\ Ex2[j] = (IF Busy(j)' = {} THEN 0 ELSE 1)
  BY DEF Count
<1>7. \/ St2 = St /\ Ex2 = Ex
      \/ St[j] = "absent" /\ St2 = [St EXCEPT ![j] = "open"] /\ Ex2 = Ex
      \/ St[j] = "open" /\ Ex[j] = 0 /\ Ex2 = [Ex EXCEPT ![j] = 1] /\ St2 = St
      \/ St[j] = "open" /\ Ex[j] = 1 /\ St2 = [St EXCEPT ![j] = "done"] /\ Ex2 = [Ex EXCEPT ![j] = 0]
      \/ Ex[j] = 1 /\ Ex2 = [Ex EXCEPT ![j] = 0] /\ St2 = St
      \/ St[j] = "open" /\ Ex[j] = 0 /\ St2 = [St EXCEPT ![j] = "dlq"] /\ Ex2 = Ex
      \/ St[j] = "done" /\ St2 = [St EXCEPT ![j] = "absent"] /\ Ex2 = Ex
  <2>1. /\ St \in [Jobs -> {"absent", "open", "done", "dlq"}] /\ Ex \in [Jobs -> {0, 1}]
        /\ St2 \in [Jobs -> {"absent", "open", "done", "dlq"}] /\ Ex2 \in [Jobs -> {0, 1}]
    BY DEF Standing, Count
  <2>2. Move(St[j], Ex[j] = 1, St2[j], Ex2[j] = 1)
    BY <1>6 DEF Move
  <2> HIDE DEF St, Ex, St2, Ex2
  <2>3. ASSUME St2[j] = St[j] PROVE St2 = St
    BY <1>5, <2>1, <2>3
  <2>4. ASSUME Ex2[j] = Ex[j] PROVE Ex2 = Ex
    BY <1>5, <2>1, <2>4
  <2>5. St2 = [St EXCEPT ![j] = St2[j]] /\ Ex2 = [Ex EXCEPT ![j] = Ex2[j]]
    BY <1>5, <2>1
  <2>6. Ex[j] \in {0, 1} /\ Ex2[j] \in {0, 1}
    BY <2>1
  <2> QED BY <2>2, <2>3, <2>4, <2>5, <2>6 DEF Move
<1> HIDE DEF St, Ex, St2, Ex2
<1> QED
  BY <1>1, <1>2, <1>3, <1>4, <1>7
     DEF Contract!Next, Contract!vars, Contract!Accept, Contract!Start, Contract!Finish,
         Contract!Interrupt, Contract!GiveUp, Contract!Forget

\* A step of one goroutine that has a delivery.
LEMMA GoroutineMoves ==
    ASSUME TypeOK, ExclusiveDelivery, ExclusiveDelivery', NEW w \in Workers,
           NEW j \in Jobs, slot[w].job = j,
           NEW s, slot' = [slot EXCEPT ![w] = s], s.job = j \/ s = Free,
           \A i \in Jobs \ {j} : row'[i] = row[i],
           Move(Standing(row[j]), Running(w), Standing(row'[j]),
                s.h \in {"handling", "succeeding", "failing"})
    PROVE  [Contract!Next]_Contract!vars
<1>1. slot'[w] = s /\ \A v \in Workers : v # w => slot'[v] = slot[v] /\ slot[v].job # j
  BY JobQueueAssumption DEF TypeOK, ExclusiveDelivery
<1>2. Free.h = "none" /\ Free.job = None /\ None \notin Jobs
  BY JobQueueAssumption DEF Free
<1>3. \A i \in Jobs \ {j}, v \in Workers : RunningOn(v, i)' <=> RunningOn(v, i)
  BY <1>1, <1>2 DEF RunningOn, Running
<1>4. \A i \in Jobs \ {j} : Busy(i)' = Busy(i)
  BY <1>3 DEF Busy
<1>5. (Busy(j) # {}) <=> Running(w)
  BY <1>1 DEF Busy, RunningOn
<1>6. \A v \in Workers : RunningOn(v, j)' <=> v = w /\ s.h \in {"handling", "succeeding", "failing"}
  BY <1>1, <1>2 DEF RunningOn, Running
<1>7. (Busy(j)' # {}) <=> s.h \in {"handling", "succeeding", "failing"}
  BY <1>6 DEF Busy
<1>8. Move(Standing(row[j]), Busy(j) # {}, Standing(row'[j]), Busy(j)' # {})
  BY <1>5, <1>7 DEF Move
<1> QED BY <1>4, <1>8, ContractMove

\* A step that leaves the goroutines alone.
LEMMA RowMoves ==
    ASSUME ExclusiveDelivery, ExclusiveDelivery', UNCHANGED slot, NEW j \in Jobs,
           \A i \in Jobs \ {j} : row'[i] = row[i],
           \/ Standing(row'[j]) = Standing(row[j])
           \/ row[j] = "absent" /\ row'[j] = "queued"
           \/ row[j] = "succeeded" /\ row'[j] = "absent"
    PROVE  [Contract!Next]_Contract!vars
<1>1. \A i \in Jobs : Busy(i)' = Busy(i)
  BY DEF Busy, RunningOn, Running
<1>2. Move(Standing(row[j]), Busy(j) # {}, Standing(row'[j]), Busy(j)' # {})
  BY <1>1 DEF Move, Standing
<1> QED BY <1>1, <1>2, ContractMove

\* A step after which each row stands where it did and each goroutine runs what it ran.
LEMMA ContractStutters ==
    ASSUME UNCHANGED row, \A w \in Workers, j \in Jobs : RunningOn(w, j)' <=> RunningOn(w, j)
    PROVE  UNCHANGED Contract!vars
<1>1. \A j \in Jobs : {w \in Workers : RunningOn(w, j)'} = {w \in Workers : RunningOn(w, j)}
  OBVIOUS
<1> QED BY <1>1 DEF Contract!vars

\* Every step is one of the contract's, or none that it sees.
LEMMA ContractStep ==
    ASSUME TypeOK, Undisturbing, [Next]_vars PROVE [Contract!Next]_Contract!vars
<1> USE DEF Undisturbing
<1>1. ExclusiveDelivery /\ ExclusiveDelivery'
  BY LeasedInductive DEF Leased
<1>2. \A p \in Publishers : ~AdminRequeue(p) /\ \A j \in Jobs : ~AdminRead(p, j)
  BY DEF AdminRequeue, AdminRead, Owned, Spend
<1>3. ~RedisLoss /\ \A w \in Workers : ~ContextDone(w)
  BY DEF RedisLoss, ContextDone, Leased, Spend
<1>4. CASE UNCHANGED <<row, slot>>
  BY <1>4, ContractStutters DEF RunningOn, Running
<1>5. \A w \in Workers : slot[w] # Free =>
        /\ slot[w] \in Slot /\ slot[w].job \in Jobs /\ slot[w].a # "done"
        /\ slot[w].a = "settling" => slot[w].h = "error"
  BY DEF TypeOK, Leased
\* The row that a goroutine works on.
<1>6. ASSUME NEW w \in Workers, slot[w] # Free, NEW h \in HandlerPcs, NEW s \in Statuses,
             slot' = [slot EXCEPT ![w] = [slot[w] EXCEPT !.h = h]],
             row' = row \/ (row[slot[w].job] # "absent" /\ row' = [row EXCEPT ![slot[w].job] = s]),
             Move(Standing(row[slot[w].job]), Running(w), Standing(row'[slot[w].job]),
                  h \in {"handling", "succeeding", "failing"})
      PROVE  [Contract!Next]_Contract!vars
  <2> DEFINE x == [slot[w] EXCEPT !.h = h]
  <2>1. x.h = h /\ x.job = slot[w].job /\ slot[w].job \in Jobs
    BY <1>5, <1>6 DEF Slot
  <2>2. slot' = [slot EXCEPT ![w] = x]
    BY <1>6
  <2>3. \A i \in Jobs \ {slot[w].job} : row'[i] = row[i]
    BY <1>6 DEF TypeOK
  <2> HIDE DEF x
  <2>4. PICK j \in Jobs : slot[w].job = j
    BY <2>1
  <2>5. Move(Standing(row[j]), Running(w), Standing(row'[j]),
             x.h \in {"handling", "succeeding", "failing"})
    BY <1>6, <2>1, <2>4
  <2>6. x.job = j /\ \A i \in Jobs \ {j} : row'[i] = row[i]
    BY <2>1, <2>3, <2>4
  <2> QED BY <1>1, <2>2, <2>4, <2>5, <2>6, GoroutineMoves
<1>7. ASSUME NEW p \in Publishers, NEW j \in Jobs, Record(p, j)
      PROVE  [Contract!Next]_Contract!vars
  <2>1. CASE row' = row
    BY <1>4, <1>7, <2>1 DEF Record
  <2>2. CASE row' # row
    <3>1. /\ row[j] = "absent" /\ row'[j] = "queued"
          /\ \A i \in Jobs \ {j} : row'[i] = row[i]
      BY <1>7, <2>2 DEF Record, TypeOK
    <3> QED BY <1>1, <1>7, <3>1, RowMoves DEF Record
  <2> QED BY <2>1, <2>2
<1>8. ASSUME NEW p \in Publishers, ReaperReset(p)
      PROVE  [Contract!Next]_Contract!vars
  <2>1. CASE row' = row
    BY <1>4, <1>8, <2>1 DEF ReaperReset
  <2>2. CASE row' # row
    <3>1. row[pub[p].job] = "running" /\ row' = [row EXCEPT ![pub[p].job] = "queued"]
      BY <1>8, <2>2 DEF ReaperReset, SetStatus
    <3>2. pub[p].job \in Jobs
      BY <2>2, <3>1 DEF TypeOK
    <3>3. /\ Standing(row'[pub[p].job]) = Standing(row[pub[p].job])
          /\ \A i \in Jobs \ {pub[p].job} : row'[i] = row[i]
      BY <3>1, <3>2 DEF TypeOK, Standing
    <3> QED BY <1>1, <1>8, <3>2, <3>3, RowMoves DEF ReaperReset
  <2> QED BY <2>1, <2>2
<1>9. ASSUME NEW j \in Jobs, Prune(j) PROVE [Contract!Next]_Contract!vars
  <2>1. /\ row[j] = "succeeded" /\ row'[j] = "absent"
        /\ \A i \in Jobs \ {j} : row'[i] = row[i]
    BY <1>9 DEF Prune, TypeOK
  <2> QED BY <1>1, <1>9, <2>1, RowMoves DEF Prune
<1>10. ASSUME NEW w \in Workers, NEW j \in Jobs, Dequeue(w, j)
       PROVE  [Contract!Next]_Contract!vars
  <2>1. /\ slot[w] = Free /\ row' = row /\ slot'[w].h = "claiming"
        /\ \A v \in Workers : v # w => slot'[v] = slot[v]
    BY <1>10 DEF Dequeue, TypeOK
  <2> QED BY <2>1, ContractStutters DEF RunningOn, Running, Free
<1>11. ASSUME NEW w \in Workers, Ack(w) \/ Settle(w) \/ Crash(w)
       PROVE  [Contract!Next]_Contract!vars
  <2>1. slot[w] # Free
    BY <1>11 DEF Ack, Settle, Crash, Free
  <2>2. slot' = [slot EXCEPT ![w] = Free] /\ row' = row /\ Free.h = "none"
    BY <1>5, <1>11, <2>1 DEF Ack, Settle, Crash, Free
  <2>3. Move(Standing(row[slot[w].job]), Running(w), Standing(row'[slot[w].job]),
             Free.h \in {"handling", "succeeding", "failing"})
    BY <2>2 DEF Move
  <2> QED BY <1>1, <1>5, <2>1, <2>2, <2>3, GoroutineMoves
<1>12. ASSUME NEW w \in Workers, Claim(w) PROVE [Contract!Next]_Contract!vars
  <2>1. slot[w] # Free /\ ~Running(w) /\ slot[w].job \in Jobs
    BY <1>5, <1>12 DEF Claim, Free, Running
  <2>2. /\ row[slot[w].job] \in {"queued", "failed", "running"}
        /\ row' = [row EXCEPT ![slot[w].job] = "running"]
    BY <1>12 DEF Claim, Claimable, SetStatus
  <2>3. Move(Standing(row[slot[w].job]), Running(w), Standing(row'[slot[w].job]),
             "handling" \in {"handling", "succeeding", "failing"})
    BY <2>1, <2>2 DEF Move, Standing, TypeOK
  <2>4. slot' = [slot EXCEPT ![w] = [slot[w] EXCEPT !.h = "handling"]]
    BY <1>12 DEF Claim
  <2>5. "handling" \in HandlerPcs /\ "running" \in Statuses
    BY DEF HandlerPcs, Statuses
  <2> QED BY <1>6, <2>1, <2>2, <2>3, <2>4, <2>5
<1>13. ASSUME NEW w \in Workers, HandlerReturns(w) PROVE [Contract!Next]_Contract!vars
  <2>1. PICK h \in {"succeeding", "failing"} :
              slot' = [slot EXCEPT ![w] = [slot[w] EXCEPT !.h = h]]
    BY <1>13 DEF HandlerReturns
  <2>2. slot[w] # Free /\ Running(w) /\ UNCHANGED row
    BY <1>13 DEF HandlerReturns, Free, Running
  <2>3. Move(Standing(row[slot[w].job]), Running(w), Standing(row'[slot[w].job]),
             h \in {"handling", "succeeding", "failing"})
    BY <2>1, <2>2 DEF Move
  <2>4. h \in HandlerPcs /\ "running" \in Statuses
    BY <2>1 DEF HandlerPcs, Statuses
  <2> QED BY <1>6, <2>1, <2>2, <2>3, <2>4
\* No outcome is written: a duplicate, a claim that failed, an outcome that was lost.
<1>14. ASSUME NEW w \in Workers, DiscardDuplicate(w) \/ ClaimError(w) \/ OutcomeNotWritten(w)
       PROVE  [Contract!Next]_Contract!vars
  <2>1. slot[w] # Free /\ UNCHANGED row
    BY <1>14 DEF DiscardDuplicate, ClaimError, OutcomeNotWritten, Free
  <2>2. PICK h \in {"ok", "error"} : slot' = [slot EXCEPT ![w] = [slot[w] EXCEPT !.h = h]]
    BY <1>5, <1>14, <2>1 DEF DiscardDuplicate, ClaimError, OutcomeNotWritten, Returns
  <2>3. Move(Standing(row[slot[w].job]), Running(w), Standing(row'[slot[w].job]),
             h \in {"handling", "succeeding", "failing"})
    BY <2>1, <2>2 DEF Move
  <2>4. h \in HandlerPcs /\ "running" \in Statuses
    BY <2>2 DEF HandlerPcs, Statuses
  <2> QED BY <1>6, <2>1, <2>2, <2>3, <2>4
<1>15. ASSUME NEW w \in Workers, Succeed(w) PROVE [Contract!Next]_Contract!vars
  <2>1. slot[w] # Free /\ Running(w) /\ slot[w].job \in Jobs
    BY <1>5, <1>15 DEF Succeed, Free, Running
  <2>2. row[slot[w].job] \in {"running", "queued"}
    BY <2>1 DEF Owned, OwnsRow
  <2>3. row' = [row EXCEPT ![slot[w].job] = "succeeded"]
    BY <1>15, <2>2 DEF Succeed, SetStatus
  <2>4. slot' = [slot EXCEPT ![w] = [slot[w] EXCEPT !.h = "ok"]]
    BY <1>5, <1>15, <2>1 DEF Succeed, Returns
  <2>5. Move(Standing(row[slot[w].job]), Running(w), Standing(row'[slot[w].job]),
             "ok" \in {"handling", "succeeding", "failing"})
    BY <2>1, <2>2, <2>3 DEF Move, Standing, TypeOK
  <2>6. "ok" \in HandlerPcs /\ "succeeded" \in Statuses
    BY DEF HandlerPcs, Statuses
  <2> QED BY <1>6, <2>1, <2>2, <2>3, <2>4, <2>5, <2>6
<1>16. ASSUME NEW w \in Workers, Fail(w) PROVE [Contract!Next]_Contract!vars
  <2>1. slot[w] # Free /\ Running(w) /\ slot[w].job \in Jobs
    BY <1>5, <1>16 DEF Fail, Free, Running
  <2>2. row[slot[w].job] \in {"running", "queued"}
    BY <2>1 DEF Owned, OwnsRow
  <2>3. row' = [row EXCEPT ![slot[w].job] = "failed"]
    BY <1>16, <2>2 DEF Fail, SetStatus
  <2>4. slot' = [slot EXCEPT ![w] = [slot[w] EXCEPT !.h = "error"]]
    BY <1>5, <1>16, <2>1 DEF Fail, Returns
  <2>5. Move(Standing(row[slot[w].job]), Running(w), Standing(row'[slot[w].job]),
             "error" \in {"handling", "succeeding", "failing"})
    BY <2>1, <2>2, <2>3 DEF Move, Standing, TypeOK
  <2>6. "error" \in HandlerPcs /\ "failed" \in Statuses
    BY DEF HandlerPcs, Statuses
  <2> QED BY <1>6, <2>1, <2>2, <2>3, <2>4, <2>5, <2>6
<1>17. ASSUME NEW w \in Workers, OnRetriesExhausted(w) PROVE [Contract!Next]_Contract!vars
  <2> DEFINE x == [slot[w] EXCEPT !.a = "settling"]
  <2>1. /\ slot[w] \in Slot /\ slot[w].job \in Jobs /\ slot[w].h = "error" /\ ~Running(w)
        /\ slot' = [slot EXCEPT ![w] = x]
        /\ \A i \in Jobs \ {slot[w].job} : row'[i] = row[i]
        /\ row'[slot[w].job] \in {row[slot[w].job], "dead"}
        /\ row[slot[w].job] \in {"absent", "succeeded"} => row'[slot[w].job] = row[slot[w].job]
    BY <1>17, KillSpares DEF Running
  <2>2. x.h = "error" /\ x.job = slot[w].job
    BY <2>1 DEF Slot
  <2> HIDE DEF x
  <2>3. Move(Standing(row[slot[w].job]), Running(w), Standing(row'[slot[w].job]),
             x.h \in {"handling", "succeeding", "failing"})
    BY <2>1, <2>2 DEF Move, Standing, TypeOK
  <2> QED BY <1>1, <2>1, <2>2, <2>3, GoroutineMoves
<1> QED
  BY <1>2, <1>3, <1>4, <1>7, <1>8, <1>9, <1>10, <1>11, <1>12, <1>13, <1>14, <1>15, <1>16, <1>17
     DEF Next, vars, ReaperPick, Enqueue, Inspect, PublishFails, Heartbeat, HeartbeatExpires,
         Recover, RetryDue, Reap, Publication, Handler, Asynq

\* The registry implements JobContract, while Redis keeps its data, no handler is cut off
\* and nobody requeues: what the domain relies on is what Runner.Wrap, the reaper and asynq
\* make of it, however often publications repeat, and workers crash or, instead, up to
\* MaxRetry statements fail.
THEOREM ContractKept ==
    ASSUME Undisturbed PROVE Spec => KeepsContract
<1>1. Init => Contract!Init
  <2> SUFFICES ASSUME Init PROVE Contract!Init
    OBVIOUS
  <2>1. \A j \in Jobs : {w \in Workers : RunningOn(w, j)} = {}
    BY DEF Init, RunningOn, Running, Free
  <2> QED BY <2>1, FS_EmptySet DEF Init, Contract!Init
<1>2. Init /\ TypeOK => Undisturbing
  BY UndisturbedInit
<1>3. TypeOK /\ Undisturbing /\ [Next]_vars => Undisturbing'
  BY LeasedInductive, SparedInductive, OwnedInductive DEF Undisturbing
<1>4. TypeOK /\ Undisturbing /\ [Next]_vars => [Contract!Next]_Contract!vars
  BY ContractStep
<1> QED BY <1>1, <1>2, <1>3, <1>4, TypeCorrect, PTL DEF Spec, KeepsContract, Contract!Spec
=============================================================================
