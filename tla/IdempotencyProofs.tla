------------------------- MODULE IdempotencyProofs --------------------------
(***************************************************************************)
(* Theorems about Idempotency for any number of requests, bodies and       *)
(* failures.                                                               *)
(***************************************************************************)
EXTENDS IdempotencyProps, TLAPS

Types ==
    /\ TypeOK
    /\ \A r \in Requests : req[r].at # "idle" => req[r].body \in Bodies
    /\ \A r \in Requests : ~req[r].recorded => req[r].at = "run"

\* As long as clean holds, one request at most is past its claim; the row is its own,
\* and tells how far it is. Without one the row tells what was done.
Holds(r) ==
    /\ req[r].recorded
    /\ row # None /\ row.status = "in_progress" /\ row.hash = req[r].body
    /\ effects = IF req[r].at = "store" THEN 1 ELSE 0
Rests ==
    /\ effects <= 1
    /\ row = None => effects = 0
    /\ row # None /\ row.status = "completed" => effects = 1 /\ row.answer = row.hash
OneHolder ==
    clean => /\ \A r, q \in Requests : Running(r) /\ Running(q) => r = q
             /\ \A r \in Requests : Running(r) => Holds(r)
             /\ Rests

\* Types, in the initial states.
LEMMA TypesInit == Init => Types
<1> SUFFICES ASSUME Init PROVE Types
  OBVIOUS
<1>1. Idle \in Request /\ Idle.recorded /\ Idle.at = "idle"
  BY DEF Idle, Request
<1>2. left \in [Kinds -> Nat]
  BY IdempotencyAssumption DEF Init
<1> QED BY <1>1, <1>2 DEF Init, Types, TypeOK

\* Changing one request keeps the part of Types about requests.
LEMMA TypesStep ==
    ASSUME Types, NEW r \in Requests, NEW x \in Request,
           x.at # "idle" => x.body \in Bodies, ~x.recorded => x.at = "run",
           req' = [req EXCEPT ![r] = x]
    PROVE  /\ req' \in [Requests -> Request]
           /\ \A q \in Requests : req'[q].at # "idle" => req'[q].body \in Bodies
           /\ \A q \in Requests : ~req'[q].recorded => req'[q].at = "run"
BY DEF Types, TypeOK

\* A budget stays one.
LEMMA BudgetStep == ASSUME Types, NEW k, Spend(k) PROVE left' \in [Kinds -> Nat]
<1>1. left \in [Kinds -> Nat] /\ left' = [left EXCEPT ![k] = @ - 1] /\ left[k] > 0
  BY DEF Types, TypeOK, Spend
<1>2. CASE k \in Kinds
  BY <1>1, <1>2
<1>3. CASE k \notin Kinds
  BY <1>1, <1>3
<1> QED BY <1>2, <1>3

\* A request that moves on, or that ends.
LEMMA MovesStep ==
    ASSUME Types, NEW r \in Requests, NEW at \in {"read", "run", "store", "forget"},
           req[r].at # "idle", req[r].recorded, Moves(r, at)
    PROVE  /\ req' \in [Requests -> Request]
           /\ \A q \in Requests : req'[q].at # "idle" => req'[q].body \in Bodies
           /\ \A q \in Requests : ~req'[q].recorded => req'[q].at = "run"
<1> DEFINE x == [req[r] EXCEPT !.at = at]
<1>1. req[r] \in Request /\ req[r].body \in Bodies
  BY DEF Types, TypeOK
<1>2. x \in Request /\ x.body = req[r].body /\ x.recorded
  BY <1>1 DEF Request
<1>3. req' = [req EXCEPT ![r] = x]
  BY DEF Moves
<1> HIDE DEF x
<1> QED BY <1>1, <1>2, <1>3, TypesStep

\* A request that has its answer is idle again.
LEMMA EndsStep ==
    ASSUME Types, NEW r \in Requests, Ends(r)
    PROVE  /\ req' \in [Requests -> Request]
           /\ \A q \in Requests : req'[q].at # "idle" => req'[q].body \in Bodies
           /\ \A q \in Requests : ~req'[q].recorded => req'[q].at = "run"
<1>1. Idle \in Request /\ Idle.recorded /\ Idle.at = "idle"
  BY DEF Idle, Request
<1> QED BY <1>1, TypesStep DEF Ends

\* The row that a request claims, and the one that keeps its answer.
LEMMA RowsMade ==
    ASSUME Types, NEW r \in Requests, req[r].at # "idle"
    PROVE  /\ Claimed(r) \in Row /\ Claimed(r) # None /\ Claimed(r).hash = req[r].body
           /\ Claimed(r).status = "in_progress" /\ Claimed(r).answer = None
           /\ row # None =>
                LET x == [row EXCEPT !.status = "completed", !.answer = req[r].body]
                IN  /\ x \in Row /\ x # None /\ x.status = "completed"
                    /\ x.hash = row.hash /\ x.answer = req[r].body /\ x.answer # None
<1>1. req[r].body \in Bodies /\ None \notin Bodies /\ None \notin Row /\ row \in Row \union {None}
  BY IdempotencyAssumption DEF Types, TypeOK
<1>2. Claimed(r) \in Row /\ Claimed(r).hash = req[r].body /\ Claimed(r).status = "in_progress"
         /\ Claimed(r).answer = None
  BY <1>1 DEF Claimed, Row
<1>3. ASSUME row # None
      PROVE LET x == [row EXCEPT !.status = "completed", !.answer = req[r].body]
            IN  /\ x \in Row /\ x.status = "completed"
                /\ x.hash = row.hash /\ x.answer = req[r].body
  BY <1>1, <1>3 DEF Row
<1> QED BY <1>1, <1>2, <1>3

\* Every step keeps the types, and each answer with the body it was given for.
LEMMA TypesInductive == Types /\ [Next]_vars => Types'
<1> SUFFICES ASSUME Types, [Next]_vars PROVE Types'
  OBVIOUS
<1> USE DEF Types, TypeOK
<1>1. ASSUME NEW r \in Requests, NEW b \in Bodies, Arrives(r, b) PROVE Types'
  <2> DEFINE x == [Idle EXCEPT !.at = "claim", !.body = b]
  <2>1. x \in Request /\ x.body = b /\ x.recorded
    BY DEF Idle, Request
  <2>2. req' = [req EXCEPT ![r] = x] /\ Spend("request") /\ UNCHANGED <<row, old, effects, clean>>
    BY <1>1 DEF Arrives
  <2> HIDE DEF x
  <2> QED BY <2>1, <2>2, TypesStep, BudgetStep
<1>2. ASSUME NEW r \in Requests, Claims(r) PROVE Types'
  <2>1. req[r].at = "claim" /\ UNCHANGED <<effects, clean, left>> /\ req[r].recorded
    BY <1>2 DEF Claims
  <2>2. CASE row = None
    <3>1. row' = Claimed(r) /\ Moves(r, "run") /\ old' = FALSE
      BY <1>2, <2>2 DEF Claims, Claim
    <3> QED BY <2>1, <3>1, MovesStep, RowsMade
  <2>3. CASE row # None
    <3>1. UNCHANGED <<row, old>> /\ Moves(r, "read")
      BY <1>2, <2>3 DEF Claims
    <3> QED BY <2>1, <3>1, MovesStep
  <2> QED BY <2>2, <2>3
<1>3. ASSUME NEW r \in Requests, Reads(r) PROVE Types'
  <2>1. req[r].at = "read" /\ UNCHANGED <<row, old, effects, left>> /\ req[r].recorded
    BY <1>3 DEF Reads
  <2>2. clean' \in BOOLEAN /\ (Moves(r, "run") \/ Ends(r))
    BY <1>3 DEF Reads
  <2> QED BY <2>1, <2>2, MovesStep, EndsStep
<1>4. ASSUME NEW r \in Requests, Executes(r) PROVE Types'
  <2>1. req[r].at = "run" /\ UNCHANGED <<row, old, clean, left>> /\ effects' \in Nat
    BY <1>4 DEF Executes
  <2>2. (req[r].recorded /\ Moves(r, "store")) \/ Ends(r)
    BY <1>4 DEF Executes
  <2> QED BY <2>1, <2>2, MovesStep, EndsStep
<1>5. ASSUME NEW r \in Requests, Stores(r) PROVE Types'
  <2>1. req[r].at = "store" /\ UNCHANGED <<old, effects, clean, left>> /\ Ends(r)
    BY <1>5 DEF Stores
  <2>2. row' = IF row = None THEN None
               ELSE [row EXCEPT !.status = "completed", !.answer = req[r].body]
    BY <1>5 DEF Stores
  <2> QED BY <2>1, <2>2, EndsStep, RowsMade
<1>6. ASSUME NEW r \in Requests, Forgets(r) PROVE Types'
  BY <1>6, EndsStep DEF Forgets
<1>7. ASSUME NEW r \in Requests, RegistryFails(r) PROVE Types'
  <2> DEFINE x == [req[r] EXCEPT !.at = "run", !.recorded = FALSE]
  <2>1. req[r].at \in {"claim", "read"} /\ req[r] \in Request /\ req[r].body \in Bodies
    BY <1>7 DEF RegistryFails
  <2>2. x \in Request /\ x.body = req[r].body /\ x.at = "run"
    BY <2>1 DEF Request
  <2>3. req' = [req EXCEPT ![r] = x] /\ Spend("postgres") /\ UNCHANGED <<old, effects>> /\ clean' = FALSE
    BY <1>7 DEF RegistryFails
  <2>4. row' = row \/ (row = None /\ row' = Claimed(r))
    BY <1>7 DEF RegistryFails
  <2> HIDE DEF x
  <2> QED BY <2>1, <2>2, <2>3, <2>4, TypesStep, BudgetStep, RowsMade
<1>8. ASSUME NEW r \in Requests, ExecutesLarge(r) PROVE Types'
  <2>1. req[r].at # "idle" /\ req[r].recorded /\ Moves(r, "forget") /\ Spend("large")
    BY <1>8 DEF ExecutesLarge
  <2>2. effects' \in Nat /\ clean' = FALSE /\ UNCHANGED <<row, old>>
    BY <1>8 DEF ExecutesLarge
  <2> QED BY <2>1, <2>2, MovesStep, BudgetStep
<1>9. ASSUME NEW r \in Requests, Refuses(r) PROVE Types'
  BY <1>9, MovesStep, EndsStep, BudgetStep DEF Refuses
<1>10. ASSUME NEW r \in Requests, NotKept(r) \/ Crash(r) PROVE Types'
  BY <1>10, EndsStep, BudgetStep DEF NotKept, Crash
<1>11. CASE Ages
  <2>1. row # None /\ old' = TRUE /\ UNCHANGED <<row, req, effects, clean, left>>
    BY <1>11 DEF Ages
  <2> QED BY <2>1
<1>13. CASE UNCHANGED vars
  BY <1>13 DEF vars
<1>12. CASE Podar
  <2>1. row' = None /\ old' = FALSE /\ effects' = 0 /\ UNCHANGED <<req, left>>
    BY <1>12 DEF Podar, Pruned
  <2>2. clean' \in BOOLEAN
    BY <1>12 DEF Podar, Pruned
  <2> QED BY <2>1, <2>2
<1> QED BY <1>1, <1>2, <1>3, <1>4, <1>5, <1>6, <1>7, <1>8, <1>9, <1>10, <1>11, <1>12, <1>13
        DEF Next, Steps, Fails

\* The types, for every behaviour.
LEMMA TypesHold == Spec => []Types
BY TypesInit, TypesInductive, PTL DEF Spec

\* Every variable keeps its type, and a row has an answer exactly when it is completed.
THEOREM TypeCorrect == Spec => []TypeOK
<1>1. Types => TypeOK
  BY DEF Types
<1> QED BY <1>1, TypesHold, PTL

\* A step in which r claims the key, moves on or stops, as the others see it.
LEMMA Others ==
    ASSUME Types, NEW r \in Requests, NEW x, req' = [req EXCEPT ![r] = x]
    PROVE  req'[r] = x /\ \A q \in Requests \ {r} : req'[q] = req[q]
BY DEF Types, TypeOK

\* A step that leaves the row alone and in which nobody comes to hold the key.
LEMMA NobodyNew ==
    ASSUME OneHolder, clean, UNCHANGED <<row, effects>>,
           \A q \in Requests : req'[q] = req[q] \/ ~Running(q)'
    PROVE  OneHolder'
BY DEF OneHolder, Running, Holds, Rests

\* Every step keeps the key in the hands of one request.
LEMMA OneHolderInductive == Types /\ OneHolder /\ [Next]_vars => OneHolder'
<1> SUFFICES ASSUME Types, OneHolder, [Next]_vars, clean' PROVE OneHolder'
  BY DEF OneHolder
<1>0. Idle.recorded /\ Idle.at = "idle"
  BY DEF Idle
<1>1. ASSUME NEW r \in Requests, NEW b \in Bodies, Arrives(r, b) PROVE OneHolder'
  <2> DEFINE x == [Idle EXCEPT !.at = "claim", !.body = b]
  <2>1. x.at = "claim"
    BY DEF Idle
  <2>2. req' = [req EXCEPT ![r] = x] /\ clean /\ UNCHANGED <<row, effects>>
    BY <1>1 DEF Arrives
  <2> HIDE DEF x
  <2> QED BY <2>1, <2>2, Others, NobodyNew DEF Running
\* A claim that succeeds: nobody held the key, because there was no row.
<1>2. ASSUME NEW r \in Requests, Claims(r) PROVE OneHolder'
  <2>1. req[r].at = "claim" /\ UNCHANGED <<effects, clean, left>> /\ req[r].recorded /\ req[r] \in Request
    BY <1>2 DEF Claims, Types, TypeOK
  <2>2. CASE row = None
    <3> DEFINE x == [req[r] EXCEPT !.at = "run"]
    <3>1. row' = Claimed(r) /\ req' = [req EXCEPT ![r] = x]
      BY <1>2, <2>2 DEF Claims, Claim, Moves
    <3>2. x.at = "run" /\ x.recorded /\ x.body = req[r].body
      BY <2>1 DEF Request
    <3> HIDE DEF x
    <3>3. req'[r] = x /\ \A q \in Requests \ {r} : req'[q] = req[q]
      BY <3>1, Others
    <3>4. effects = 0 /\ \A q \in Requests : ~Running(q)
      BY <2>1, <2>2 DEF OneHolder, Holds, Rests
    <3>5. row'.status = "in_progress" /\ row'.hash = x.body /\ row' # None
      BY <2>1, <3>1, <3>2, RowsMade
    <3> QED BY <2>1, <3>2, <3>3, <3>4, <3>5 DEF OneHolder, Running, Holds, Rests
  <2>3. CASE row # None
    <3> DEFINE x == [req[r] EXCEPT !.at = "read"]
    <3>1. req' = [req EXCEPT ![r] = x] /\ UNCHANGED row
      BY <1>2, <2>3 DEF Claims, Moves
    <3>2. x.at = "read"
      BY <2>1 DEF Request
    <3> HIDE DEF x
    <3> QED BY <2>1, <3>1, <3>2, Others, NobodyNew DEF Running
  <2> QED BY <2>2, <2>3
<1>3. ASSUME NEW r \in Requests, Reads(r) PROVE OneHolder'
  <2>1. clean /\ Ends(r) /\ UNCHANGED <<row, effects>>
    BY <1>3 DEF Reads
  <2> QED BY <1>0, <2>1, Others, NobodyNew DEF Ends, Running
\* The handler runs once, for the one who holds the key.
<1>4. ASSUME NEW r \in Requests, Executes(r) PROVE OneHolder'
  <2>1. req[r].at = "run" /\ clean /\ UNCHANGED row /\ effects' = effects + 1
    BY <1>4 DEF Executes
  <2>2. Running(r) /\ Holds(r) /\ req[r] \in Request
    BY <2>1 DEF Running, OneHolder, Types, TypeOK
  <2> DEFINE x == [req[r] EXCEPT !.at = "store"]
  <2>3. req' = [req EXCEPT ![r] = x]
    BY <1>4, <2>2 DEF Executes, Moves, Holds
  <2>4. x.at = "store" /\ x.recorded /\ x.body = req[r].body
    BY <2>2 DEF Request, Holds
  <2> HIDE DEF x
  <2>5. req'[r] = x /\ \A q \in Requests \ {r} : req'[q] = req[q]
    BY <2>3, Others
  <2>6. \A q \in Requests \ {r} : ~Running(q)
    BY <2>1, <2>2 DEF OneHolder
  <2>7. effects = 0
    BY <2>1, <2>2 DEF Holds
  <2> QED BY <2>1, <2>2, <2>4, <2>5, <2>6, <2>7 DEF OneHolder, Running, Holds, Rests
<1>5. ASSUME NEW r \in Requests, Stores(r) PROVE OneHolder'
  <2>1. req[r].at = "store" /\ clean /\ UNCHANGED effects /\ req' = [req EXCEPT ![r] = Idle]
    BY <1>5 DEF Stores, Ends
  <2>2. Running(r) /\ Holds(r)
    BY <2>1 DEF Running, OneHolder
  <2>3. req'[r] = Idle /\ \A q \in Requests \ {r} : req'[q] = req[q] /\ ~Running(q)
    BY <2>1, <2>2, Others DEF OneHolder
  <2>4. row' # None /\ row'.status = "completed" /\ row'.answer = row'.hash /\ effects' = 1
    BY <1>5, <2>1, <2>2, RowsMade DEF Stores, Holds
  <2> QED BY <1>0, <2>1, <2>3, <2>4 DEF OneHolder, Running, Rests
<1>6. ASSUME NEW r \in Requests, Forgets(r) PROVE OneHolder'
  <2>1. req[r].at = "forget" /\ clean /\ UNCHANGED effects /\ row' = None /\ req' = [req EXCEPT ![r] = Idle]
    BY <1>6 DEF Forgets, Ends
  <2>2. Running(r) /\ Holds(r)
    BY <2>1 DEF Running, OneHolder
  <2>3. req'[r] = Idle /\ \A q \in Requests \ {r} : req'[q] = req[q] /\ ~Running(q)
    BY <2>1, <2>2, Others DEF OneHolder
  <2> QED BY <1>0, <2>1, <2>2, <2>3 DEF OneHolder, Running, Rests, Holds
<1>7. ASSUME NEW r \in Requests, RegistryFails(r) \/ ExecutesLarge(r) PROVE OneHolder'
  BY <1>7 DEF RegistryFails, ExecutesLarge
<1>8. ASSUME NEW r \in Requests, Refuses(r) PROVE OneHolder'
  <2>1. req[r].at = "run" /\ clean /\ UNCHANGED <<row, effects>>
    BY <1>8 DEF Refuses
  <2>2. Running(r) /\ Holds(r) /\ req[r] \in Request
    BY <2>1 DEF Running, OneHolder, Types, TypeOK
  <2> DEFINE x == [req[r] EXCEPT !.at = "forget"]
  <2>3. req' = [req EXCEPT ![r] = x]
    BY <1>8, <2>2 DEF Refuses, Moves, Holds
  <2>4. x.at = "forget" /\ x.recorded /\ x.body = req[r].body
    BY <2>2 DEF Request, Holds
  <2> HIDE DEF x
  <2>5. req'[r] = x /\ \A q \in Requests \ {r} : req'[q] = req[q] /\ ~Running(q)
    BY <2>1, <2>2, <2>3, Others DEF OneHolder
  <2> QED BY <2>1, <2>2, <2>4, <2>5 DEF OneHolder, Running, Holds, Rests
<1>9. ASSUME NEW r \in Requests, NotKept(r) \/ Crash(r) PROVE OneHolder'
  <2>1. clean /\ UNCHANGED <<row, effects>> /\ req' = [req EXCEPT ![r] = Idle]
    BY <1>9 DEF NotKept, Crash, Ends
  <2> QED BY <1>0, <2>1, Others, NobodyNew DEF Running
<1>10. CASE Ages \/ UNCHANGED vars
  <2>1. clean /\ UNCHANGED <<row, effects, req>>
    BY <1>10 DEF Ages, vars
  <2> QED BY <2>1, NobodyNew
\* A prune makes a clean start when nobody is past the claim.
<1>11. CASE Podar
  <2>1. row' = None /\ effects' = 0 /\ UNCHANGED req /\ \A r \in Requests : ~Running(r)
    BY <1>11 DEF Podar, Pruned
  <2> QED BY <2>1 DEF OneHolder, Running, Rests
<1> QED BY <1>1, <1>2, <1>3, <1>4, <1>5, <1>6, <1>7, <1>8, <1>9, <1>10, <1>11
        DEF Next, Steps, Fails

\* Whatever the retries, overlaps, crashes and errors, a key leads to one successful
\* execution, and what it repeats is the answer of that one to the body it was for
\* (reclamar, guardar).
THEOREM KeyIsUsedOnce == Spec => []OnceAndForAll
<1>1. Init => OneHolder
  <2> SUFFICES ASSUME Init PROVE OneHolder
    OBVIOUS
  <2>1. Idle.at = "idle"
    BY DEF Idle
  <2> QED BY <2>1 DEF Init, OneHolder, Running, Rests
<1>2. OneHolder => OnceAndForAll
  BY DEF OneHolder, Rests, OnceAndForAll
<1> QED BY <1>1, <1>2, OneHolderInductive, TypesHold, PTL DEF Spec
=============================================================================
