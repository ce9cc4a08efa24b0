---------------------------- MODULE JobContract ----------------------------
(***************************************************************************)
(* What the job registry promises to the domain, as the state diagram of   *)
(* arquitectura/disenos/trabajos-asincronos.md draws it: a recorded job    *)
(* stays open until one execution finishes it or it is given up to the     *)
(* dead-letter queue, it is never executed twice at once, and a finished   *)
(* job is not opened again.                                                *)
(***************************************************************************)
CONSTANT Jobs

VARIABLES status, executing

vars == <<status, executing>>

Init ==
    /\ status = [j \in Jobs |-> "absent"]
    /\ executing = [j \in Jobs |-> 0]

Accept(j) ==
    /\ status[j] = "absent"
    /\ status' = [status EXCEPT ![j] = "open"]
    /\ UNCHANGED executing

Start(j) ==
    /\ status[j] = "open"
    /\ executing[j] = 0
    /\ executing' = [executing EXCEPT ![j] = 1]
    /\ UNCHANGED status

Finish(j) ==
    /\ status[j] = "open"
    /\ executing[j] = 1
    /\ status' = [status EXCEPT ![j] = "done"]
    /\ executing' = [executing EXCEPT ![j] = 0]

Interrupt(j) ==
    /\ executing[j] = 1
    /\ executing' = [executing EXCEPT ![j] = 0]
    /\ UNCHANGED status

GiveUp(j) ==
    /\ status[j] = "open"
    /\ executing[j] = 0
    /\ status' = [status EXCEPT ![j] = "dlq"]
    /\ UNCHANGED executing

Forget(j) ==
    /\ status[j] = "done"
    /\ status' = [status EXCEPT ![j] = "absent"]
    /\ UNCHANGED executing

Next == \E j \in Jobs :
    Accept(j) \/ Start(j) \/ Finish(j) \/ Interrupt(j) \/ GiveUp(j) \/ Forget(j)

Spec == Init /\ [][Next]_vars
=============================================================================
