--------------------------- MODULE ProgressProofs ---------------------------
(***************************************************************************)
(* Theorems about Progress for any number of overlapping requests, every   *)
(* course and every budget of faults.                                      *)
(***************************************************************************)
EXTENDS ProgressProps, FiniteSetTheorems, TLAPS

USE ProgressAssumption

InTransaction(q) == req[q].pc \in {"tx", "commit"}

\* A resource's time was collected before its last update.
TimeIsPast(row) == row.dwell <= row.updated /\ row.updated <= now

\* Dwell is a natural number only because clocks do not run backwards, so the
\* types and the clock are one invariant.
Clocked ==
    /\ TypeOK
    /\ \A r \in Resources : TimeIsPast(prog[r])
    /\ \A q \in Requests : InTransaction(q) =>
         TimeIsPast(req[q].row) /\ req[q].res \in Resources /\ req[q].version \in Versions

\* A percentage is one.
LEMMA PercentType ==
    ASSUME NEW S, NEW T, IsFiniteSet(T), S \subseteq T
    PROVE  Percent(Cardinality(S), Cardinality(T)) \in 0..100
<1>1. IsFiniteSet(S) /\ Cardinality(S) <= Cardinality(T)
  BY FS_Subset
<1>2. Cardinality(S) \in Nat /\ Cardinality(T) \in Nat
  BY <1>1, FS_CardinalityType
<1>3. ASSUME NEW n \in Nat, NEW m \in Nat, n <= m, m # 0 PROVE (n * 100) \div m \in 0..100
  BY <1>3
<1> QED BY <1>1, <1>2, <1>3 DEF Percent

\* A unit of budget is a natural number less one.
LEMMA SpendType ==
    ASSUME left \in [Kinds -> Nat], NEW k \in Kinds, Spend(k)
    PROVE  left' \in [Kinds -> Nat]
BY DEF Spend

\* The record of a request that does nothing.
LEMMA IdleType == Idle \in Request /\ Idle.pc = "idle"
<1>1. NotEnrolled \in Enrollment
  BY DEF NotEnrolled, Enrollment, States
<1>2. NotStarted \in Row
  BY DEF NotStarted, Row
<1> QED BY <1>1, <1>2 DEF Idle, Request

\* What an evidence makes of a resource's row (aplicarEvidencia).
LEMMA AppliedRow ==
    ASSUME Clocked, NEW r \in Resources, NEW kind, NEW pos \in Nat \union {None}
    PROVE  LET row == Applied(kind, pos, Previous(r), r)
           IN  /\ row \in Row
               /\ row.updated = now
               /\ TimeIsPast(row)
               /\ prog[r].done => row.done
               /\ (prog[r].state = "completed" => prog[r].done) => (row.state = "completed" => row.done)
<1> DEFINE p == Previous(r)
           d == Dwell(kind, p)
           n == [p EXCEPT !.updated = now,
                          !.opened = p.opened \/ kind = "open",
                          !.state = IF p.state = "not_started" THEN "in_progress" ELSE p.state,
                          !.dwell = p.dwell + d,
                          !.last = IF pos = None THEN p.last ELSE pos,
                          !.max = IF pos # None /\ pos > p.max THEN pos ELSE p.max]
           c == [n EXCEPT !.state = "completed", !.done = TRUE]
<1>1. now \in Nat /\ prog[r] \in Row
  BY DEF Clocked, TypeOK
<1>2. p \in Row /\ p.dwell <= p.updated /\ p.updated <= now /\ p.done = prog[r].done
      /\ p.state = prog[r].state
  BY <1>1 DEF Previous, Row, Clocked, TimeIsPast
<1>3. d \in Nat /\ d <= now - p.updated
  BY <1>1, <1>2 DEF Dwell, Row
<1>4. n \in Row /\ n.updated = now /\ n.dwell = p.dwell + d /\ n.done = p.done
      /\ (n.state = "completed" => p.state = "completed")
  <2> DEFINE o == p.opened \/ kind = "open"
             s == IF p.state = "not_started" THEN "in_progress" ELSE p.state
             w == p.dwell + d
             l == IF pos = None THEN p.last ELSE pos
             m == IF pos # None /\ pos > p.max THEN pos ELSE p.max
  <2>1. o \in BOOLEAN
    BY <1>2 DEF Row
  <2>2. s \in {"not_started", "in_progress", "completed"} /\ (s = "completed" => p.state = "completed")
    BY <1>2 DEF Row
  <2>3. w \in Nat /\ l \in Nat /\ m \in Nat
    BY <1>2, <1>3 DEF Row
  <2> HIDE DEF o, s, w, l, m
  <2>4. n = [p EXCEPT !.updated = now, !.opened = o, !.state = s, !.dwell = w, !.last = l, !.max = m]
    BY DEF o, s, w, l, m
  <2>5. /\ [p EXCEPT !.updated = now, !.opened = o, !.state = s, !.dwell = w, !.last = l, !.max = m] \in Row
        /\ n.updated = now /\ n.dwell = w /\ n.done = p.done /\ n.state = s
    BY <1>1, <1>2, <2>1, <2>2, <2>3, <2>4 DEF Row
  <2> HIDE DEF n
  <2> QED BY <2>2, <2>4, <2>5 DEF w
<1>5. c \in Row /\ c.updated = n.updated /\ c.dwell = n.dwell /\ c.done
  <2> HIDE DEF n
  <2> QED BY <1>4 DEF Row
<1>6. n.dwell <= n.updated /\ n.updated <= now
  BY <1>1, <1>2, <1>3, <1>4 DEF Row
<1>7. Applied(kind, pos, p, r) = IF CriterionMet(n, r) THEN c ELSE n
  BY DEF Applied
<1> HIDE DEF p, d, n, c
<1>8. Applied(kind, pos, p, r) = n \/ Applied(kind, pos, p, r) = c
  BY <1>7
<1> QED BY <1>2, <1>4, <1>5, <1>6, <1>8 DEF TimeIsPast, p

\* What recalcular makes of the enrollment that was read.
LEMMA RecalculatedType ==
    ASSUME NEW e \in Enrollment, NEW pct \in 0..100, NEW v \in Versions
    PROVE  Recalculated(e, pct, v) \in Enrollment
<1> DEFINE s == Evaluated(e.state, pct, v)
           first == s = "approved" /\ ~e.approvedAt
           c == e.completedAt \/ s = "completed" \/ first
           a == e.approvedAt \/ first
           w == IF first THEN v ELSE e.version
<1>1. s \in States
  BY DEF Evaluated, States
<1>2. c \in BOOLEAN /\ a \in BOOLEAN /\ w \in Versions \union {None}
  BY DEF Enrollment
<1>3. Recalculated(e, pct, v)
        = [e EXCEPT !.state = s, !.pct = pct, !.completedAt = c, !.approvedAt = a, !.version = w]
  BY DEF Recalculated
<1> HIDE DEF s, first, c, a, w
<1> QED BY <1>1, <1>2, <1>3 DEF Enrollment

\* A step of one request, whatever it writes of the others' tables.
LEMMA RequestStep ==
    ASSUME Clocked, NEW q \in Requests, NEW x \in Request, req' = [req EXCEPT ![q] = x],
           now' = now,
           x.pc \in {"tx", "commit"} =>
             TimeIsPast(x.row) /\ x.res \in Resources /\ x.version \in Versions
    PROVE  /\ req' \in [Requests -> Request]
           /\ \A p \in Requests : InTransaction(p)' =>
                (TimeIsPast(req[p].row) /\ req[p].res \in Resources /\ req[p].version \in Versions)'
<1>1. req' \in [Requests -> Request]
  BY DEF Clocked, TypeOK
<1>2. ASSUME NEW p \in Requests
      PROVE  InTransaction(p)' =>
                (TimeIsPast(req[p].row) /\ req[p].res \in Resources /\ req[p].version \in Versions)'
  <2>1. req'[p] = IF p = q THEN x ELSE req[p]
    BY DEF Clocked, TypeOK
  <2>2. CASE p = q
    BY <2>1, <2>2 DEF InTransaction, TimeIsPast
  <2>3. CASE p # q
    BY <2>1, <2>3 DEF InTransaction, TimeIsPast, Clocked
  <2> QED BY <2>2, <2>3
<1> QED BY <1>1, <1>2

\* What Recalculate leaves in the request.
LEMMA RecalculatedRequest ==
    ASSUME Clocked, NEW q \in Requests, Recalculate(q)
    PROVE  \E x \in Request :
             LET r   == req[q].res
                 v   == req[q].version
                 row == Upserted(r, req[q].row)
                 pct == Percent(Cardinality(CompletedIn(v, r, row)), Cardinality(Required[v]))
             IN  /\ req' = [req EXCEPT ![q] = x]
                 /\ x.pc = "commit" /\ x.res = r /\ x.version = v /\ x.row = row
                 /\ pct \in 0..100
                 /\ x.e = Recalculated(req[q].e, pct, v)
                 /\ x.approves = (x.e.state = "approved" /\ req[q].e.state # "approved")
                 /\ row \in Row /\ row.dwell = req[q].row.dwell /\ row.updated = req[q].row.updated
                 /\ row.state = req[q].row.state /\ row.done = (req[q].row.done \/ prog[r].done)
<1> DEFINE o   == req[q]
           r   == o.res
           v   == o.version
           row == Upserted(r, o.row)
           pct == Percent(Cardinality(CompletedIn(v, r, row)), Cardinality(Required[v]))
           e   == Recalculated(o.e, pct, v)
           a   == e.state = "approved" /\ o.e.state # "approved"
           x   == [o EXCEPT !.pc = "commit", !.row = row, !.e = e, !.approves = a]
<1>1. o \in Request /\ r \in Resources /\ v \in Versions /\ prog[r] \in Row
  BY DEF Recalculate, Clocked, TypeOK, InTransaction
<1>2. row \in Row /\ row.dwell = o.row.dwell /\ row.updated = o.row.updated
      /\ row.state = o.row.state /\ row.done = (o.row.done \/ prog[r].done)
  <2>1. o.row \in Row
    BY <1>1 DEF Request
  <2> HIDE DEF o, r
  <2> QED BY <1>1, <2>1 DEF Upserted, Row
<1>3. pct \in 0..100
  BY <1>1, PercentType DEF CompletedIn, ProgressAssumption
<1>4. e \in Enrollment
  <2>1. o.e \in Enrollment
    BY <1>1 DEF Request
  <2> HIDE DEF o, r, v, row, pct
  <2> QED BY <1>1, <1>3, <2>1, RecalculatedType
<1>5. req' = [req EXCEPT ![q] = x]
  BY DEF Recalculate
<1> HIDE DEF o, r, v, row, pct, e, a
<1>6. a \in BOOLEAN
  BY DEF a
<1>7. x \in Request /\ x.pc = "commit" /\ x.res = r /\ x.version = v /\ x.row = row /\ x.e = e /\ x.approves = a
  BY <1>1, <1>2, <1>4, <1>6 DEF Request, r, v
<1>8. x \in Request
  BY <1>7
<1> HIDE DEF x
<1> WITNESS x \in Request
<1> QED BY <1>1, <1>2, <1>3, <1>5, <1>7 DEF o, r, v, row, pct, e, a

\* Every step keeps the types and the clock.
LEMMA ClockedInductive == Clocked /\ [Next]_vars => Clocked'
<1> SUFFICES ASSUME Clocked, [Next]_vars PROVE Clocked'
  OBVIOUS
<1> USE DEF course, badges
<1>1. CASE Enroll
  <2> DEFINE x == [enr EXCEPT !.status = "active"]
  <2>1. x \in Enrollment
    BY DEF Clocked, TypeOK, Enrollment
  <2> HIDE DEF x
  <2>2. enr' = x
    BY <1>1 DEF Enroll, x
  <2> QED BY <1>1, <2>1, <2>2, SpendType DEF Enroll, Clocked, TypeOK, Kinds, InTransaction, TimeIsPast
<1>2. ASSUME NEW q \in Requests, WithdrawRead(q) PROVE Clocked'
  <2> DEFINE x == [Idle EXCEPT !.pc = "withdraw", !.e = enr]
  <2>1. x \in Request /\ x.pc = "withdraw"
    BY IdleType DEF Clocked, TypeOK, Request
  <2>2. req' = [req EXCEPT ![q] = x]
    BY <1>2 DEF WithdrawRead
  <2> HIDE DEF x
  <2>3. req' \in [Requests -> Request] /\ \A p \in Requests : InTransaction(p)' =>
          (TimeIsPast(req[p].row) /\ req[p].res \in Resources /\ req[p].version \in Versions)'
    BY <1>2, <2>1, <2>2, RequestStep DEF WithdrawRead
  <2> QED BY <1>2, <2>3, SpendType DEF WithdrawRead, Clocked, TypeOK, Kinds, TimeIsPast
<1>3. ASSUME NEW q \in Requests, WithdrawCommit(q) PROVE Clocked'
  <2>1. req' \in [Requests -> Request] /\ \A p \in Requests : InTransaction(p)' =>
          (TimeIsPast(req[p].row) /\ req[p].res \in Resources /\ req[p].version \in Versions)'
    BY <1>3, IdleType, RequestStep DEF WithdrawCommit
  <2> DEFINE x == [req[q].e EXCEPT !.status = "withdrawn"]
  <2>2. x \in Enrollment
    <3>1. req[q].e \in Enrollment
      BY DEF Clocked, TypeOK, Request
    <3> QED BY <3>1 DEF Enrollment
  <2>3. enr' = x
    BY <1>3 DEF WithdrawCommit
  <2> HIDE DEF x
  <2> QED BY <1>3, <2>1, <2>2, <2>3 DEF WithdrawCommit, Clocked, TypeOK, TimeIsPast
<1>4. ASSUME NEW q \in Requests, Evidence(q) PROVE Clocked'
  <2>1. PICK r \in Resources, kind \in {"open", "heartbeat", "close"} :
          \E pos \in {None} \union (IF r \in Media THEN Positions ELSE {}) : ReportEvidence(q, r, kind, pos)
    BY <1>4 DEF Evidence
  <2>2. PICK pos \in {None} \union (IF r \in Media THEN Positions ELSE {}) : ReportEvidence(q, r, kind, pos)
    BY <2>1
  <2>3. pos \in Nat \union {None}
    BY DEF ProgressAssumption
  <2> DEFINE row == Applied(kind, pos, Previous(r), r)
             x   == Transaction(r, row)
  <2>4. row \in Row /\ TimeIsPast(row)
    BY <2>3, AppliedRow
  <2> HIDE DEF row
  <2>5. x \in Request /\ x.row = row /\ x.res \in Resources /\ x.version \in Versions
    BY <2>4 DEF Transaction, Request, Clocked, TypeOK
  <2>6. req' = [req EXCEPT ![q] = x] /\ now' = now
    BY <2>2 DEF ReportEvidence, row
  <2> HIDE DEF x
  <2>7. req' \in [Requests -> Request] /\ \A p \in Requests : InTransaction(p)' =>
          (TimeIsPast(req[p].row) /\ req[p].res \in Resources /\ req[p].version \in Versions)'
    BY <2>4, <2>5, <2>6, RequestStep
  <2> QED BY <2>2, <2>7, SpendType DEF ReportEvidence, Clocked, TypeOK, Kinds, TimeIsPast
<1>5. ASSUME NEW r \in Quizzes, QuizPassed(r) PROVE Clocked'
  BY <1>5, SpendType DEF QuizPassed, Clocked, TypeOK, Kinds, InTransaction, TimeIsPast
<1>6. ASSUME NEW q \in Requests, NEW r \in Quizzes, MarkRead(q, r) PROVE Clocked'
  <2> DEFINE row == [prog[r] EXCEPT !.state = "completed", !.updated = now, !.opened = TRUE, !.done = TRUE]
             x   == Transaction(r, row)
  <2>1. r \in Resources
    BY DEF ProgressAssumption
  <2>2. row \in Row /\ TimeIsPast(row)
    <3> DEFINE p == prog[r]
    <3>1. p \in Row /\ p.dwell <= p.updated /\ p.updated <= now /\ now \in Nat
      BY <2>1 DEF Clocked, TypeOK, TimeIsPast
    <3>2. row = [p EXCEPT !.state = "completed", !.updated = now, !.opened = TRUE, !.done = TRUE]
      OBVIOUS
    <3> HIDE DEF p, row
    <3>3. row \in Row /\ row.updated = now /\ row.dwell = p.dwell
      BY <3>1, <3>2 DEF Row
    <3> QED BY <3>1, <3>3 DEF Row, TimeIsPast
  <2>3. req' = [req EXCEPT ![q] = x] /\ now' = now
    BY <1>6 DEF MarkRead
  <2> HIDE DEF row
  <2>4. x \in Request /\ x.row = row /\ x.res \in Resources /\ x.version \in Versions
    BY <2>1, <2>2 DEF Transaction, Request, Clocked, TypeOK
  <2> HIDE DEF x
  <2>5. req' \in [Requests -> Request] /\ \A p \in Requests : InTransaction(p)' =>
          (TimeIsPast(req[p].row) /\ req[p].res \in Resources /\ req[p].version \in Versions)'
    BY <2>2, <2>3, <2>4, RequestStep
  <2> QED BY <1>6, <2>5 DEF MarkRead, Clocked, TypeOK, TimeIsPast
<1>7. ASSUME NEW r \in Quizzes, MarkLost(r) PROVE Clocked'
  BY <1>7, SpendType DEF MarkLost, Clocked, TypeOK, Kinds, InTransaction, TimeIsPast
<1>8. ASSUME NEW q \in Requests, Recalculate(q) PROVE Clocked'
  <2>1. PICK x \in Request :
          /\ req' = [req EXCEPT ![q] = x]
          /\ x.res = req[q].res /\ x.version = req[q].version
          /\ x.row.dwell = req[q].row.dwell /\ x.row.updated = req[q].row.updated
    BY <1>8, RecalculatedRequest
  <2>2. TimeIsPast(req[q].row) /\ req[q].res \in Resources /\ req[q].version \in Versions
    BY <1>8 DEF Recalculate, Clocked, InTransaction
  <2>3. req' \in [Requests -> Request] /\ \A p \in Requests : InTransaction(p)' =>
          (TimeIsPast(req[p].row) /\ req[p].res \in Resources /\ req[p].version \in Versions)'
    BY <1>8, <2>1, <2>2, RequestStep DEF Recalculate, TimeIsPast
  <2> QED BY <1>8, <2>3 DEF Recalculate, Clocked, TypeOK, TimeIsPast
<1>9. ASSUME NEW q \in Requests, Commit(q) PROVE Clocked'
  <2>1. req' \in [Requests -> Request] /\ \A p \in Requests : InTransaction(p)' =>
          (TimeIsPast(req[p].row) /\ req[p].res \in Resources /\ req[p].version \in Versions)'
    BY <1>9, IdleType, RequestStep DEF Commit
  <2>2. req[q].e \in Enrollment /\ req[q].row \in Row /\ TimeIsPast(req[q].row) /\ req[q].res \in Resources
    BY <1>9 DEF Commit, Clocked, TypeOK, Request, InTransaction
  <2> QED BY <1>9, <2>1, <2>2 DEF Commit, Clocked, TypeOK, TimeIsPast
<1>10. ASSUME NEW q \in Requests, RequestFails(q) PROVE Clocked'
  <2>1. req' \in [Requests -> Request] /\ \A p \in Requests : InTransaction(p)' =>
          (TimeIsPast(req[p].row) /\ req[p].res \in Resources /\ req[p].version \in Versions)'
    BY <1>10, IdleType, RequestStep DEF RequestFails
  <2> QED BY <1>10, <2>1, SpendType DEF RequestFails, Clocked, TypeOK, Kinds, TimeIsPast
<1>11. CASE Issue
  <2>1. CASE IssueRead
    BY <2>1 DEF IssueRead, Clocked, TypeOK, InTransaction, TimeIsPast, Enrollment
  <2>2. CASE IssueInsert
    BY <2>2 DEF IssueInsert, Clocked, TypeOK, InTransaction, TimeIsPast
  <2>3. CASE IssueImage
    BY <2>3 DEF IssueImage, Clocked, TypeOK, InTransaction, TimeIsPast
  <2> QED BY <1>11, <2>1, <2>2, <2>3 DEF Issue
<1>12. CASE IssueFails
  BY <1>12, SpendType DEF IssueFails, Clocked, TypeOK, InTransaction, TimeIsPast, Kinds
<1>13. CASE Revoke
  BY <1>13, SpendType DEF Revoke, Clocked, TypeOK, InTransaction, TimeIsPast, Kinds
<1>14. ASSUME NEW v \in Versions, Publish(v) PROVE Clocked'
  BY <1>14, SpendType DEF Publish, Clocked, TypeOK, InTransaction, TimeIsPast, Kinds
<1>15. CASE Unpublish
  BY <1>15, SpendType DEF Unpublish, Clocked, TypeOK, InTransaction, TimeIsPast, Kinds
<1>16. CASE Tick
  <2>1. now' \in Nat /\ now \in Nat /\ now' = now + 1 /\ left' \in [Kinds -> Nat]
    BY <1>16, SpendType DEF Tick, Clocked, TypeOK, Kinds
  <2>2. ASSUME NEW row \in Row, TimeIsPast(row) PROVE TimeIsPast(row)'
    BY <2>1, <2>2 DEF TimeIsPast, Row
  <2>3. \A r \in Resources : TimeIsPast(prog[r])'
    BY <1>16, <2>1 DEF Tick, Clocked, TypeOK, TimeIsPast, Row
  <2>4. \A p \in Requests : InTransaction(p)' =>
          (TimeIsPast(req[p].row) /\ req[p].res \in Resources /\ req[p].version \in Versions)'
    BY <1>16, <2>1 DEF Tick, Clocked, TypeOK, TimeIsPast, InTransaction, Request, Row
  <2> QED BY <1>16, <2>1, <2>3, <2>4 DEF Tick, Clocked, TypeOK
<1>17. CASE UNCHANGED vars
  BY <1>17 DEF vars, Clocked, TypeOK, InTransaction, TimeIsPast
<1> QED BY <1>1, <1>2, <1>3, <1>4, <1>5, <1>6, <1>7, <1>8, <1>9, <1>10, <1>11, <1>12, <1>13,
           <1>14, <1>15, <1>16, <1>17 DEF Next

\* The types and the clock hold in every reachable state.
LEMMA ClockedHolds == Spec => []Clocked
<1>1. Init => Clocked
  <2> SUFFICES ASSUME Init PROVE Clocked
    OBVIOUS
  <2>1. NotEnrolled \in Enrollment /\ NotStarted \in Row /\ Idle \in Request
    BY IdleType DEF Request, Idle, NotStarted, NotEnrolled, Row, Enrollment, States, ProgressAssumption
  <2>2. TypeOK
    BY <2>1 DEF Init, TypeOK, ProgressAssumption
  <2>3. \A r \in Resources : TimeIsPast(prog[r])
    BY DEF Init, NotStarted, TimeIsPast
  <2>4. \A q \in Requests : ~InTransaction(q)
    BY IdleType DEF Init, InTransaction
  <2> QED BY <2>2, <2>3, <2>4 DEF Clocked
<1> QED BY <1>1, ClockedInductive, PTL DEF Spec

\* The enrollment, its requests and the badge keep their types.
THEOREM TypeCorrect == Spec => []TypeOK
<1>1. Clocked => TypeOK
  BY DEF Clocked
<1> QED BY <1>1, ClockedHolds, PTL

\* However many heartbeats and openings overlap, a resource collects no more
\* time than has passed: each is measured from the update it read.
THEOREM TimeIsReal == Spec => []DwellIsReal
<1>1. Clocked => DwellIsReal
  BY DEF Clocked, TypeOK, Row, TimeIsPast, DwellIsReal
<1> QED BY <1>1, ClockedHolds, PTL

-----------------------------------------------------------------------------
(* Approval. What was completed stays so (done), although the state of a   *)
(* row and of the enrollment may be written back from an old read.         *)

\* Earned, of any table of progress and any results of quizzes.
EarnedIn(p, c, v) ==
    /\ \E S \in SUBSET Required[v] : Enough(S, v) /\ \A r \in S : p[r].done
    /\ MinScore[v] => Required[v] \intersect Quizzes \subseteq c

\* The approval of an enrollment e names a version that was earned.
Deserved(e, p, c) == e.state = "approved" => e.version \in Versions /\ EarnedIn(p, c, e.version)

\* marcarFechas dates an approval once.
Dated(e) == e.approvedAt <=> e.state = "approved"

Completes(row) == row.state = "completed" => row.done

\* The table once the request commits.
Committed(q) == [prog EXCEPT ![req[q].res] = req[q].row]

\* What a request knows. Before its transaction it holds an enrollment that
\* was in the table; in it, it either repeats an approval or decides its own.
Justified(q) ==
    /\ Dated(req[q].e)
    /\ req[q].pc \in {"withdraw", "tx"} =>
         Deserved(req[q].e, prog, scored) /\ (req[q].e.state = "approved" => job # "none")
    /\ InTransaction(q) => Completes(req[q].row)
    /\ req[q].pc = "commit" =>
         /\ prog[req[q].res].done => req[q].row.done
         /\ Deserved(req[q].e, Committed(q), scored)
         /\ req[q].approves => req[q].e.state = "approved"
         /\ req[q].e.state = "approved" /\ ~req[q].approves => job # "none"

\* Two transactions never hold the row of one resource.
RowsAreLocked ==
    \A p, q \in Requests :
        req[p].pc = "commit" /\ req[q].pc = "commit" /\ p # q => req[p].res # req[q].res

Merit ==
    /\ \A r \in Resources : Completes(prog[r])
    /\ Dated(enr) /\ Deserved(enr, prog, scored)
    /\ enr.state = "approved" => job # "none"
    /\ job # "none" => \E v \in Versions : EarnedIn(prog, scored, v)
    /\ issuer.pc # "idle" \/ badge.version # None => job # "none"
    /\ RowsAreLocked
    /\ \A q \in Requests : Justified(q)

\* What was earned stays earned while nothing done, and no result, is undone.
LEMMA EarnedStays ==
    ASSUME NEW p, NEW p1, NEW c, NEW c1, NEW v \in Versions, EarnedIn(p, c, v),
           \A r \in Resources : p[r].done => p1[r].done, c \subseteq c1
    PROVE  EarnedIn(p1, c1, v)
BY DEF EarnedIn, ProgressAssumption

\* So does an enrollment that deserved its approval.
LEMMA DeservedStays ==
    ASSUME NEW p, NEW p1, NEW c, NEW c1, NEW e, Deserved(e, p, c),
           \A r \in Resources : p[r].done => p1[r].done, c \subseteq c1
    PROVE  Deserved(e, p1, c1)
BY EarnedStays DEF Deserved

\* A request that takes no step stays justified, whatever the others commit.
LEMMA JustifiedStays ==
    ASSUME Clocked, NEW q \in Requests, Justified(q), req'[q] = req[q],
           prog' \in [Resources -> Row],
           \A r \in Resources : prog[r].done => prog'[r].done,
           req[q].pc = "commit" => prog'[req[q].res] = prog[req[q].res],
           job # "none" => job' # "none", scored \subseteq scored'
    PROVE  Justified(q)'
<1>1. CASE req[q].pc = "commit"
  <2>1. req[q].res \in Resources /\ req[q].row \in Row
    BY <1>1 DEF Clocked, InTransaction, TypeOK, Request
  <2>2. \A r \in Resources : Committed(q)[r].done => [prog' EXCEPT ![req[q].res] = req[q].row][r].done
    BY <2>1 DEF Committed, Clocked, TypeOK
  <2>3. Deserved(req[q].e, [prog' EXCEPT ![req[q].res] = req[q].row], scored')
    <3> DEFINE p == Committed(q)
               p1 == [prog' EXCEPT ![req[q].res] = req[q].row]
    <3>1. Deserved(req[q].e, p, scored) /\ \A r \in Resources : p[r].done => p1[r].done
      BY <1>1, <2>2 DEF Justified
    <3> HIDE DEF p, p1
    <3>2. Deserved(req[q].e, p1, scored')
      BY <3>1, DeservedStays
    <3> QED BY <3>2 DEF p1
  <2>4. Deserved(req'[q].e, Committed(q)', scored')
    BY <2>3 DEF Committed
  <2>5. /\ Dated(req[q].e) /\ Completes(req[q].row)
        /\ prog[req[q].res].done => req[q].row.done
        /\ req[q].approves => req[q].e.state = "approved"
        /\ req[q].e.state = "approved" /\ ~req[q].approves => job # "none"
    BY <1>1 DEF Justified, InTransaction
  <2> QED BY <1>1, <2>4, <2>5 DEF Justified, Dated, Completes, InTransaction
<1>2. CASE req[q].pc # "commit"
  <2>1. req[q].pc \in {"withdraw", "tx"} => Deserved(req[q].e, prog', scored')
    BY DeservedStays DEF Justified
  <2> QED BY <1>2, <2>1 DEF Justified, InTransaction
<1> QED BY <1>1, <1>2

\* A step of request q that writes neither table.
LEMMA MeritOfStep ==
    ASSUME Clocked, Merit, NEW q \in Requests, NEW x \in Request, req' = [req EXCEPT ![q] = x],
           x.pc # "commit", Justified(q)',
           UNCHANGED <<enr, prog, scored, job, issuer, badge>>
    PROVE  Merit'
<1>1. ASSUME NEW p \in Requests PROVE Justified(p)'
  <2>1. CASE p = q
    BY <2>1
  <2>2. CASE p # q
    <3>1. req'[p] = req[p]
      BY <2>2 DEF Clocked, TypeOK
    <3>2. prog' \in [Resources -> Row]
      BY DEF Clocked, TypeOK
    <3>3. Justified(p)
      BY DEF Merit
    <3> QED BY <3>1, <3>2, <3>3, JustifiedStays
  <2> QED BY <2>1, <2>2
<1>2. RowsAreLocked'
  BY DEF RowsAreLocked, Merit, Clocked, TypeOK
<1> QED BY <1>1, <1>2 DEF Merit, Deserved, EarnedIn

\* A step that leaves progress and the requests alone and approves nobody.
LEMMA MeritOfTables ==
    ASSUME Clocked, Merit, UNCHANGED <<prog, req>>, scored \subseteq scored',
           enr'.state = enr.state, enr'.version = enr.version, enr'.approvedAt = enr.approvedAt,
           job' = "none" <=> job = "none",
           issuer'.pc # "idle" \/ badge'.version # None => job # "none"
    PROVE  Merit'
<1>1. ASSUME NEW p \in Requests PROVE Justified(p)'
  <2>1. Justified(p) /\ req'[p] = req[p] /\ prog' \in [Resources -> Row]
    BY DEF Merit, Clocked, TypeOK
  <2> QED BY <2>1, JustifiedStays
<1>2. Dated(enr') /\ Deserved(enr', prog, scored)
  BY DEF Merit, Dated, Deserved
<1>3. Deserved(enr', prog', scored')
  BY <1>2, DeservedStays
<1>4. ASSUME job' # "none" PROVE \E v \in Versions : EarnedIn(prog', scored', v)
  <2>1. PICK v \in Versions : EarnedIn(prog, scored, v)
    BY <1>4 DEF Merit
  <2> QED BY <2>1, EarnedStays
<1> QED BY <1>1, <1>2, <1>3, <1>4 DEF Merit, RowsAreLocked, Dated, Deserved, EarnedIn

\* A request that ends knows nothing that must be justified.
LEMMA IdleJustified == ASSUME NEW q \in Requests, req'[q] = Idle PROVE Justified(q)'
<1>1. Idle.pc = "idle" /\ Idle.e.state = "in_progress" /\ ~Idle.e.approvedAt
  BY DEF Idle, NotEnrolled
<1> QED BY <1>1 DEF Justified, Dated, InTransaction

\* The decision of recalcular: an approval is an old one, or it is earned with
\* the rows that the transaction sees.
LEMMA RecalculateJustified ==
    ASSUME Clocked, Merit, NEW q \in Requests, Recalculate(q)
    PROVE  Justified(q)'
<1> DEFINE o == req[q]
           r == o.res
           v == o.version
<1>1. o \in Request /\ o.pc = "tx" /\ r \in Resources /\ v \in Versions /\ prog[r] \in Row
  BY DEF Recalculate, Clocked, TypeOK, InTransaction
<1>2. Justified(q) /\ \A y \in Resources : Completes(prog[y])
  BY DEF Merit
<1>3. PICK x \in Request :
        LET row == Upserted(r, o.row)
            pct == Percent(Cardinality(CompletedIn(v, r, row)), Cardinality(Required[v]))
        IN  /\ req' = [req EXCEPT ![q] = x]
            /\ x.pc = "commit" /\ x.res = r /\ x.version = v /\ x.row = row
            /\ pct \in 0..100
            /\ x.e = Recalculated(o.e, pct, v)
            /\ x.approves = (x.e.state = "approved" /\ o.e.state # "approved")
            /\ row \in Row /\ row.state = o.row.state /\ row.done = (o.row.done \/ prog[r].done)
  BY RecalculatedRequest
<1> DEFINE S   == CompletedIn(v, r, x.row)
           pct == Percent(Cardinality(S), Cardinality(Required[v]))
           t   == Evaluated(o.e.state, pct, v)
           p1  == [prog EXCEPT ![r] = x.row]
<1>4. Completes(x.row) /\ x.row \in Row /\ (prog[r].done => x.row.done)
  BY <1>1, <1>2, <1>3 DEF Justified, InTransaction, Completes
<1>5. \A y \in Resources : p1[y].done <=> IF y = r THEN x.row.done ELSE prog[y].done
  BY <1>1 DEF Clocked, TypeOK
<1>6. S \subseteq Required[v] /\ \A y \in S : p1[y].done
  <2>1. S \subseteq Required[v] /\ Required[v] \subseteq Resources
    BY <1>1 DEF CompletedIn, ProgressAssumption
  <2> QED BY <1>2, <1>4, <1>5, <2>1 DEF CompletedIn, Completes
<1>7. x.e.state = t /\ (x.e.approvedAt <=> o.e.approvedAt \/ t = "approved")
      /\ x.e.version = IF t = "approved" /\ ~o.e.approvedAt THEN v ELSE o.e.version
  <2>1. o.e \in Enrollment /\ x.e = Recalculated(o.e, pct, v)
    BY <1>1, <1>3 DEF Request
  <2> HIDE DEF o, v, pct
  <2> QED BY <2>1 DEF Recalculated, Enrollment
<1>8. Dated(o.e) /\ Deserved(o.e, prog, scored) /\ (o.e.state = "approved" => job # "none")
  BY <1>1, <1>2 DEF Justified
<1>9. Dated(x.e)
  BY <1>7, <1>8 DEF Dated, Evaluated
<1>10. ASSUME x.e.state = "approved" PROVE x.e.version \in Versions /\ EarnedIn(p1, scored, x.e.version)
  <2>1. CASE o.e.state = "approved"
    <3>1. x.e.version = o.e.version /\ o.e.version \in Versions /\ EarnedIn(prog, scored, o.e.version)
      BY <1>7, <1>8, <2>1 DEF Dated, Deserved
    <3>2. \A y \in Resources : prog[y].done => p1[y].done
      BY <1>4, <1>5
    <3> HIDE DEF p1
    <3> QED BY <3>1, <3>2, EarnedStays
  <2>2. CASE o.e.state # "approved"
    <3>1. x.e.version = v /\ pct >= Criterion[v] /\ Scored(v)
      BY <1>7, <1>8, <1>10, <2>2 DEF Dated, Evaluated
    <3>2. Enough(S, v)
      BY <3>1 DEF Enough
    <3> HIDE DEF p1, S
    <3> QED BY <1>1, <1>6, <3>1, <3>2 DEF EarnedIn, Scored
  <2> QED BY <2>1, <2>2
<1>11. req'[q] = x /\ prog' = prog /\ job' = job /\ scored' = scored
  BY <1>3 DEF Recalculate, Clocked, TypeOK, badges
<1>12. x.approves => x.e.state = "approved"
  BY <1>3
<1>13. x.e.state = "approved" /\ ~x.approves => job # "none"
  BY <1>3, <1>8
<1>14. Deserved(x.e, [prog EXCEPT ![x.res] = x.row], scored)
  BY <1>3, <1>10 DEF Deserved
<1>15. x.pc = "commit" /\ x.res = r
  BY <1>3
<1> HIDE DEF o, r, v, S, pct, t, p1
<1> QED BY <1>4, <1>9, <1>11, <1>12, <1>13, <1>14, <1>15 DEF Justified, InTransaction, Committed

\* The commit writes the two tables and the job that Recalculate prepared.
LEMMA CommitKeepsMerit ==
    ASSUME Clocked, Merit, NEW q \in Requests, Commit(q)
    PROVE  Merit'
<1> DEFINE o == req[q]
           r == o.res
<1>1. o \in Request /\ o.pc = "commit" /\ r \in Resources /\ o.row \in Row /\ InTransaction(q)
  BY DEF Commit, Clocked, TypeOK, InTransaction, Request
<1>2. Justified(q)
  BY DEF Merit
<1>3. prog' = [prog EXCEPT ![r] = o.row] /\ prog' = Committed(q) /\ enr' = o.e
      /\ req' = [req EXCEPT ![q] = Idle]
  BY DEF Commit, Committed
<1>4. job' = (IF o.approves /\ job = "none" THEN "recorded" ELSE job) /\ scored' = scored
  BY DEF Commit
<1>5. prog' \in [Resources -> Row] /\ (\A y \in Resources : y # r => prog'[y] = prog[y]) /\ prog'[r] = o.row
  BY <1>1, <1>3 DEF Clocked, TypeOK
<1>6. \A y \in Resources : prog[y].done => prog'[y].done
  BY <1>1, <1>2, <1>5 DEF Justified
<1>7. \A y \in Resources : Completes(prog'[y])
  BY <1>1, <1>2, <1>5 DEF Justified, Merit
<1>8. Dated(enr') /\ Deserved(enr', prog', scored) /\ (enr'.state = "approved" => job' # "none")
  BY <1>1, <1>2, <1>3, <1>4 DEF Justified
<1>9. job' # "none" => \E v \in Versions : EarnedIn(prog', scored, v)
  <2>1. CASE o.approves
    <3>1. enr'.state = "approved"
      BY <1>1, <1>2, <1>3, <2>1 DEF Justified
    <3> QED BY <1>8, <3>1 DEF Deserved
  <2>2. CASE ~o.approves
    BY <1>4, <1>6, <2>2, EarnedStays DEF Merit
  <2> QED BY <2>1, <2>2
<1>10. issuer'.pc # "idle" \/ badge'.version # None => job' # "none"
  BY <1>4 DEF Commit, Merit
<1>11. RowsAreLocked'
  BY <1>3, IdleType DEF RowsAreLocked, Merit, Clocked, TypeOK
<1>12. ASSUME NEW p \in Requests PROVE Justified(p)'
  <2>1. CASE p = q
    <3>1. req'[p] = Idle
      BY <1>3, <2>1 DEF Clocked, TypeOK
    <3> QED BY <3>1, IdleJustified
  <2>2. CASE p # q
    <3>1. req'[p] = req[p] /\ Justified(p)
      BY <1>3, <2>2 DEF Clocked, TypeOK, Merit
    <3>2. req[p].pc = "commit" => req[p].res \in Resources /\ req[p].res # r
      BY <1>1, <2>2 DEF Merit, RowsAreLocked, Clocked, InTransaction
    <3> HIDE DEF o, r
    <3> QED BY <1>4, <1>5, <1>6, <3>1, <3>2, JustifiedStays
  <2> QED BY <2>1, <2>2
<1> HIDE DEF o, r
<1> QED BY <1>4, <1>7, <1>8, <1>9, <1>10, <1>11, <1>12 DEF Merit, Completes, Dated, Deserved, EarnedIn

\* Every step keeps the approvals deserved.
LEMMA MeritInductive == Clocked /\ Merit /\ [Next]_vars => Merit'
<1> SUFFICES ASSUME Clocked, Merit, [Next]_vars PROVE Merit'
  OBVIOUS
<1> USE DEF course, badges
<1>1. CASE Enroll
  <2>1. enr'.state = enr.state /\ enr'.version = enr.version /\ enr'.approvedAt = enr.approvedAt
    BY <1>1 DEF Enroll, Clocked, TypeOK, Enrollment
  <2> QED BY <1>1, <2>1, MeritOfTables DEF Enroll, Merit
<1>2. ASSUME NEW q \in Requests, WithdrawRead(q) PROVE Merit'
  <2> DEFINE x == [Idle EXCEPT !.pc = "withdraw", !.e = enr]
  <2>1. x \in Request /\ x.pc = "withdraw" /\ x.e = enr
    BY IdleType DEF Clocked, TypeOK, Request
  <2>2. req' = [req EXCEPT ![q] = x]
    BY <1>2 DEF WithdrawRead
  <2> HIDE DEF x
  <2>3. req'[q] = x
    BY <2>2 DEF Clocked, TypeOK
  <2>4. Justified(q)'
    BY <1>2, <2>1, <2>3 DEF WithdrawRead, Justified, InTransaction, Merit, Deserved, EarnedIn, Dated
  <2> QED BY <1>2, <2>1, <2>2, <2>4, MeritOfStep DEF WithdrawRead
<1>3. ASSUME NEW q \in Requests, WithdrawCommit(q) PROVE Merit'
  <2>1. req[q].e \in Enrollment /\ Justified(q) /\ req[q].pc = "withdraw"
    BY <1>3 DEF WithdrawCommit, Clocked, TypeOK, Request, Merit
  <2>2. enr'.state = req[q].e.state /\ enr'.version = req[q].e.version /\ enr'.approvedAt = req[q].e.approvedAt
    BY <1>3, <2>1 DEF WithdrawCommit, Enrollment
  <2>3. Dated(enr') /\ Deserved(enr', prog, scored) /\ (enr'.state = "approved" => job # "none")
    BY <2>1, <2>2 DEF Justified, Dated, Deserved
  <2>4. ASSUME NEW p \in Requests PROVE Justified(p)'
    <3>1. CASE p = q
      <4>1. req'[p] = Idle
        BY <1>3, <3>1 DEF WithdrawCommit, Clocked, TypeOK
      <4> QED BY <4>1, IdleJustified
    <3>2. CASE p # q
      <4>1. req'[p] = req[p] /\ Justified(p) /\ prog' = prog /\ job' = job /\ scored' = scored /\ prog' \in [Resources -> Row]
        BY <1>3, <3>2 DEF WithdrawCommit, Clocked, TypeOK, Merit
      <4> QED BY <4>1, JustifiedStays
    <3> QED BY <3>1, <3>2
  <2>5. RowsAreLocked'
    BY <1>3, IdleType DEF WithdrawCommit, RowsAreLocked, Merit, Clocked, TypeOK
  <2> QED BY <1>3, <2>3, <2>4, <2>5 DEF WithdrawCommit, Merit, Dated, Deserved, EarnedIn
<1>4. ASSUME NEW q \in Requests, NEW r \in Resources, NEW row \in Row, Completes(row),
             req' = [req EXCEPT ![q] = Transaction(r, row)],
             UNCHANGED <<enr, prog, scored, job, issuer, badge>>
      PROVE  Merit'
  <2> DEFINE x == Transaction(r, row)
  <2>1. x \in Request /\ x.pc = "tx" /\ x.e = enr /\ x.row = row
    BY DEF Transaction, Request, Clocked, TypeOK
  <2> HIDE DEF x
  <2>2. req'[q] = x /\ req' = [req EXCEPT ![q] = x]
    BY <1>4 DEF Clocked, TypeOK, x
  <2>3. Justified(q)'
    BY <1>4, <2>1, <2>2 DEF Justified, InTransaction, Merit, Deserved, EarnedIn, Dated
  <2> QED BY <1>4, <2>1, <2>2, <2>3, MeritOfStep
<1>5. ASSUME NEW q \in Requests, Evidence(q) PROVE Merit'
  <2>1. PICK r \in Resources, kind \in {"open", "heartbeat", "close"} :
          \E pos \in {None} \union (IF r \in Media THEN Positions ELSE {}) : ReportEvidence(q, r, kind, pos)
    BY <1>5 DEF Evidence
  <2>2. PICK pos \in {None} \union (IF r \in Media THEN Positions ELSE {}) : ReportEvidence(q, r, kind, pos)
    BY <2>1
  <2>3. pos \in Nat \union {None}
    BY DEF ProgressAssumption
  <2> DEFINE row == Applied(kind, pos, Previous(r), r)
  <2>4. row \in Row /\ Completes(row)
    <3>1. prog[r].state = "completed" => prog[r].done
      BY DEF Merit, Completes
    <3> QED BY <2>3, <3>1, AppliedRow DEF Completes
  <2>5. req' = [req EXCEPT ![q] = Transaction(r, row)] /\ UNCHANGED <<enr, prog, scored, job, issuer, badge>>
    BY <2>2 DEF ReportEvidence
  <2> HIDE DEF row
  <2> QED BY <1>4, <2>4, <2>5
<1>6. ASSUME NEW r \in Quizzes, QuizPassed(r) PROVE Merit'
  BY <1>6, MeritOfTables DEF QuizPassed, Merit
<1>7. ASSUME NEW q \in Requests, NEW r \in Quizzes, MarkRead(q, r) PROVE Merit'
  <2> DEFINE p   == prog[r]
             row == [p EXCEPT !.state = "completed", !.updated = now, !.opened = TRUE, !.done = TRUE]
  <2>1. r \in Resources /\ p \in Row /\ now \in Nat
    BY DEF ProgressAssumption, Clocked, TypeOK
  <2>2. req' = [req EXCEPT ![q] = Transaction(r, row)] /\ UNCHANGED <<enr, prog, scored, job, issuer, badge>>
    BY <1>7 DEF MarkRead
  <2> HIDE DEF p
  <2>3. row \in Row /\ Completes(row)
    BY <2>1 DEF Row, Completes
  <2> HIDE DEF row
  <2> QED BY <1>4, <2>1, <2>2, <2>3
<1>8. ASSUME NEW r \in Quizzes, MarkLost(r) PROVE Merit'
  BY <1>8, MeritOfTables DEF MarkLost, Merit
<1>9. ASSUME NEW q \in Requests, Recalculate(q) PROVE Merit'
  <2>1. PICK x \in Request : req' = [req EXCEPT ![q] = x] /\ x.pc = "commit" /\ x.res = req[q].res
    BY <1>9, RecalculatedRequest
  <2>2. ASSUME NEW p \in Requests PROVE Justified(p)'
    <3>1. CASE p = q
      BY <1>9, <3>1, RecalculateJustified
    <3>2. CASE p # q
      <4>1. req'[p] = req[p] /\ Justified(p) /\ prog' = prog /\ job' = job /\ scored' = scored /\ prog' \in [Resources -> Row]
        BY <1>9, <2>1, <3>2 DEF Recalculate, Clocked, TypeOK, Merit
      <4> QED BY <4>1, JustifiedStays
    <3> QED BY <3>1, <3>2
  <2>3. RowsAreLocked'
    BY <1>9, <2>1 DEF Recalculate, RowsAreLocked, Merit, Clocked, TypeOK
  <2> QED BY <1>9, <2>2, <2>3 DEF Recalculate, Merit, Deserved, EarnedIn, Dated
<1>10. ASSUME NEW q \in Requests, Commit(q) PROVE Merit'
  BY <1>10, CommitKeepsMerit
<1>11. ASSUME NEW q \in Requests, RequestFails(q) PROVE Merit'
  <2>1. req' = [req EXCEPT ![q] = Idle] /\ req'[q] = Idle
    BY <1>11 DEF RequestFails, Clocked, TypeOK
  <2> QED BY <1>11, <2>1, IdleType, IdleJustified, MeritOfStep DEF RequestFails
<1>12. CASE IssueRead
  BY <1>12, MeritOfTables DEF IssueRead, Merit
<1>13. CASE IssueInsert
  BY <1>13, MeritOfTables DEF IssueInsert, Merit
<1>14. CASE IssueImage
  <2>1. job # "none" /\ job' = "done" /\ UNCHANGED <<prog, req, enr, scored>>
    BY <1>14 DEF IssueImage, Merit
  <2> QED BY <2>1, MeritOfTables
<1>15. CASE IssueFails
  BY <1>15, MeritOfTables DEF IssueFails, Merit
<1>16. CASE Revoke
  BY <1>16, MeritOfTables DEF Revoke, Merit
<1>17. CASE UNCHANGED <<enr, prog, req, scored, job, issuer, badge>>
  BY <1>17, MeritOfTables DEF Merit
<1>18. CASE Unpublish \/ Tick \/ UNCHANGED vars \/ \E v \in Versions : Publish(v)
  BY <1>17, <1>18 DEF Unpublish, Tick, vars, Publish
<1> QED BY <1>1, <1>2, <1>3, <1>5, <1>6, <1>7, <1>8, <1>9, <1>10, <1>11, <1>12, <1>13, <1>14,
           <1>15, <1>16, <1>18 DEF Next, Issue

\* Approvals are deserved in every reachable state.
LEMMA MeritHolds == Spec => []Merit
<1>1. Init => Merit
  <2> SUFFICES ASSUME Init PROVE Merit
    OBVIOUS
  <2>1. Dated(NotEnrolled) /\ NotEnrolled.state # "approved" /\ ~NotStarted.done /\ Completes(NotStarted)
    BY DEF Dated, NotEnrolled, NotStarted, Completes
  <2>2. Idle.pc = "idle" /\ Idle.e = NotEnrolled
    BY DEF Idle
  <2> QED BY <2>1, <2>2 DEF Init, Merit, Justified, RowsAreLocked, Deserved, InTransaction
<1> QED BY <1>1, MeritInductive, ClockedHolds, PTL DEF Spec

\* Nobody is approved without having completed what the version named in the
\* approval asks for, although the decision uses rows that were read before.
THEOREM ApprovalsAreEarned == Spec => []ApprovalIsEarned
<1>1. Merit => ApprovalIsEarned
  BY DEF Merit, Deserved, EarnedIn, Earned, Scored, ApprovalIsEarned
<1> QED BY <1>1, MeritHolds, PTL

\* An approved enrollment has its badge job, although a request decides from
\* an old read whether the approval is new.
THEOREM ApprovalsHaveTheirJob == Spec => []ApprovalHasItsJob
<1>1. Merit => ApprovalHasItsJob
  BY DEF Merit, ApprovalHasItsJob
<1> QED BY <1>1, MeritHolds, PTL

\* A badge exists only where the requirements of a version were completed.
THEOREM BadgesAreEarned == Spec => []BadgeIsEarned
<1>1. Merit => BadgeIsEarned
  BY DEF Merit, BadgeIsEarned, EarnedIn, Earned, Scored
<1> QED BY <1>1, MeritHolds, PTL

\* A badge keeps its version and stays revoked: only the job, which inserts once, an
\* image and a revocation ever write it.
BadgeKept == badge.version # None => badge'.version = badge.version /\ (badge.revoked => badge'.revoked)

\* A badge that was issued is of one version for ever, and a revocation is not undone
\* (IssueForEnrollment, Revoke).
THEOREM BadgesAreFinal == Spec => BadgeIsIssuedOnce
<1>1. TypeOK /\ [Next]_vars => BadgeKept
  <2> SUFFICES ASSUME TypeOK, [Next]_vars PROVE BadgeKept
    OBVIOUS
  <2>1. badge = [version |-> badge.version, image |-> badge.image, revoked |-> badge.revoked]
    BY DEF TypeOK
  <2>2. CASE UNCHANGED badge
    BY <2>2 DEF BadgeKept
  <2>3. CASE IssueInsert
    BY <2>1, <2>3 DEF IssueInsert, BadgeKept
  <2>4. CASE IssueImage
    BY <2>1, <2>4 DEF IssueImage, BadgeKept
  <2>5. CASE Revoke
    BY <2>1, <2>5 DEF Revoke, BadgeKept
  <2>6. CASE Enroll \/ Unpublish \/ Tick \/ UNCHANGED vars
    BY <2>2, <2>6 DEF Enroll, Unpublish, Tick, vars, badges
  <2>7. CASE IssueRead \/ IssueFails
    BY <2>2, <2>7 DEF IssueRead, IssueFails
  <2>8. CASE \E v \in Versions : Publish(v)
    BY <2>2, <2>8 DEF Publish, badges
  <2>9. CASE \E r \in Quizzes : QuizPassed(r) \/ MarkLost(r)
    BY <2>2, <2>9 DEF QuizPassed, MarkLost, badges
  <2>10. ASSUME NEW q \in Requests,
                \/ WithdrawRead(q) \/ WithdrawCommit(q) \/ Evidence(q)
                \/ \E r \in Quizzes : MarkRead(q, r)
                \/ Recalculate(q) \/ Commit(q) \/ RequestFails(q)
         PROVE  BadgeKept
    <3>1. UNCHANGED badge
      BY <2>10 DEF WithdrawRead, WithdrawCommit, Evidence, ReportEvidence, MarkRead,
                   Recalculate, Commit, RequestFails, badges
    <3> QED BY <2>2, <3>1
  <2> QED BY <2>2, <2>3, <2>4, <2>5, <2>6, <2>7, <2>8, <2>9, <2>10 DEF Next, Issue
<1>2. Spec => [][BadgeKept]_vars
  BY <1>1, TypeCorrect, PTL DEF Spec
<1> QED BY <1>2 DEF BadgeIsIssuedOnce, BadgeKept

-----------------------------------------------------------------------------
(* Without overlap. With two requests TLC shows an approval undone; here   *)
(* is that two are needed for it.                                          *)

\* A request that is under way has seen the approval, if there is one.
UpToDate == \A q \in Requests :
    req[q].pc # "idle" /\ enr.state = "approved" => req[q].e.state = "approved"

ApprovalKept == enr.state = "approved" => enr'.state = "approved"

\* recalcular takes no approval away from the enrollment it is given.
LEMMA RecalculatedKeepsApproval ==
    ASSUME NEW e \in Enrollment, NEW pct, NEW v, e.state = "approved"
    PROVE  Recalculated(e, pct, v).state = "approved"
BY DEF Recalculated, Evaluated, Enrollment

\* The only request there is writes back what it read, with the approval.
LEMMA AloneStep ==
    ASSUME \A p, q \in Requests : p = q, Clocked, UpToDate, [Next]_vars
    PROVE  UpToDate' /\ ApprovalKept
<1> USE DEF course, badges
<1>1. ASSUME enr'.state = enr.state, UNCHANGED req PROVE UpToDate' /\ ApprovalKept
  BY <1>1 DEF UpToDate, ApprovalKept
<1>2. ASSUME NEW q \in Requests, req' = [req EXCEPT ![q] = Idle],
             enr'.state \in {enr.state, req[q].e.state}, req[q].pc # "idle"
      PROVE  UpToDate' /\ ApprovalKept
  <2>1. \A p \in Requests : req'[p] = Idle
    BY <1>2 DEF Clocked, TypeOK
  <2> QED BY <1>2, <2>1, IdleType DEF UpToDate, ApprovalKept
<1>3. ASSUME NEW q \in Requests, req'[q].e.state = enr.state, UNCHANGED enr
      PROVE  UpToDate' /\ ApprovalKept
  BY <1>3 DEF UpToDate, ApprovalKept
<1>4. CASE Enroll
  <2>1. enr'.state = enr.state
    BY <1>4 DEF Enroll, Clocked, TypeOK, Enrollment
  <2> QED BY <1>1, <1>4, <2>1 DEF Enroll
<1>5. ASSUME NEW q \in Requests, WithdrawRead(q) PROVE UpToDate' /\ ApprovalKept
  <2>1. req'[q].e = enr
    BY <1>5, IdleType DEF WithdrawRead, Clocked, TypeOK, Idle
  <2> QED BY <1>3, <1>5, <2>1 DEF WithdrawRead
<1>6. ASSUME NEW q \in Requests, WithdrawCommit(q) PROVE UpToDate' /\ ApprovalKept
  <2>1. req[q].e \in Enrollment
    BY DEF Clocked, TypeOK, Request
  <2>2. enr'.state = req[q].e.state
    BY <1>6, <2>1 DEF WithdrawCommit, Enrollment
  <2> QED BY <1>2, <1>6, <2>2 DEF WithdrawCommit
<1>7. ASSUME NEW q \in Requests, NEW r \in Resources, NEW row, req' = [req EXCEPT ![q] = Transaction(r, row)],
             UNCHANGED enr
      PROVE  UpToDate' /\ ApprovalKept
  <2>1. req'[q].e = enr
    BY <1>7 DEF Transaction, Clocked, TypeOK
  <2> QED BY <1>3, <1>7, <2>1
<1>8. ASSUME NEW q \in Requests, Evidence(q) PROVE UpToDate' /\ ApprovalKept
  <2>1. PICK r \in Resources : \E kind, pos : ReportEvidence(q, r, kind, pos)
    BY <1>8 DEF Evidence
  <2> QED BY <1>7, <2>1 DEF ReportEvidence
<1>9. ASSUME NEW q \in Requests, NEW r \in Quizzes, MarkRead(q, r) PROVE UpToDate' /\ ApprovalKept
  BY <1>7, <1>9, ProgressAssumption DEF MarkRead
<1>10. ASSUME NEW q \in Requests, Recalculate(q) PROVE UpToDate' /\ ApprovalKept
  <2>1. PICK x \in Request :
          req' = [req EXCEPT ![q] = x] /\ \E pct : x.e = Recalculated(req[q].e, pct, req[q].version)
    BY <1>10, RecalculatedRequest
  <2>2. req'[q] = x /\ \A p \in Requests : p = q
    BY <2>1 DEF Clocked, TypeOK
  <2>3. enr.state = "approved" => x.e.state = "approved"
    <3>1. req[q].e \in Enrollment /\ req[q].pc = "tx"
      BY <1>10 DEF Recalculate, Clocked, TypeOK, Request
    <3> QED BY <2>1, <3>1, RecalculatedKeepsApproval DEF UpToDate
  <2> QED BY <1>10, <2>2, <2>3 DEF Recalculate, UpToDate, ApprovalKept
<1>11. ASSUME NEW q \in Requests, Commit(q) PROVE UpToDate' /\ ApprovalKept
  BY <1>2, <1>11 DEF Commit
<1>12. ASSUME NEW q \in Requests, RequestFails(q) PROVE UpToDate' /\ ApprovalKept
  <2>1. \A p \in Requests : req'[p] = Idle
    BY <1>12 DEF RequestFails, Clocked, TypeOK
  <2> QED BY <1>12, <2>1, IdleType DEF RequestFails, UpToDate, ApprovalKept
<1>13. ASSUME \/ \E r \in Quizzes : QuizPassed(r) \/ MarkLost(r)
              \/ Issue \/ IssueFails \/ Revoke
              \/ \E v \in Versions : Publish(v)
              \/ Unpublish \/ Tick \/ UNCHANGED vars
       PROVE  UpToDate' /\ ApprovalKept
  <2>1. UNCHANGED <<enr, req>>
    BY <1>13 DEF QuizPassed, MarkLost, Issue, IssueRead, IssueInsert, IssueImage, IssueFails, Revoke,
                 Publish, Unpublish, Tick, vars
  <2> QED BY <1>1, <2>1
<1> QED BY <1>4, <1>5, <1>6, <1>8, <1>9, <1>10, <1>11, <1>12, <1>13 DEF Next

\* While requests about an enrollment come one at a time, no step undoes an
\* approval, although every request reads the enrollment before its transaction
\* and writes the whole row back: only overlap does (Withdraw, recalcular).
THEOREM AloneApprovalIsHistoric ==
    ASSUME \A p, q \in Requests : p = q
    PROVE  Spec => ApprovalIsHistoric
<1>1. Init => UpToDate
  BY IdleType DEF Init, UpToDate
<1>2. Clocked /\ UpToDate /\ [Next]_vars => UpToDate' /\ ApprovalKept
  BY AloneStep
<1>3. Spec => [][ApprovalKept]_vars
  BY <1>1, <1>2, ClockedHolds, PTL DEF Spec
<1> QED BY <1>3 DEF ApprovalIsHistoric, ApprovalKept
=============================================================================
