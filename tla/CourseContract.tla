--------------------------- MODULE CourseContract ---------------------------
(***************************************************************************)
(* What authoring promises the rest of the system (ADR-0007): the versions *)
(* of a course come one after another, a stable id is born once and passes *)
(* only from a version to the next, only a version with content is         *)
(* published, and the course shows the version that was published or       *)
(* withdrawn last.                                                         *)
(***************************************************************************)
EXTENDS Naturals

CONSTANTS Versions,  \* 1 .. the last version number
          StableIds

VARIABLES status,  \* of each version
          ids,     \* the stable ids in each version
          shown    \* the version the course shows, and the status it shows

vars == <<status, ids, shown>>

Nobody == \A v \in Versions : status[v] = "none"

Init == /\ status = [v \in Versions |-> "none"]
        /\ ids = [v \in Versions |-> {}]
        /\ shown = <<0, "absent">>

Create == /\ Nobody
          /\ status' = [status EXCEPT ![1] = "draft"]
          /\ shown' = <<1, "draft">>
          /\ UNCHANGED ids

\* Version n takes over stable ids of the one before, and of no other.
Derive(n) == /\ n - 1 \in Versions /\ status[n - 1] # "none" /\ status[n] = "none"
             /\ \A v \in Versions : status[v] # "draft"
             /\ status' = [status EXCEPT ![n] = "draft"]
             /\ \E s \in SUBSET ids[n - 1] : ids' = [ids EXCEPT ![n] = s]
             /\ UNCHANGED shown

Grow(v, id) == /\ status[v] # "none"
               /\ \A w \in Versions : id \notin ids[w]
               /\ ids' = [ids EXCEPT ![v] = @ \union {id}]
               /\ UNCHANGED <<status, shown>>

Publish(v) == /\ status[v] # "none" /\ ids[v] # {}
              /\ status' = [status EXCEPT ![v] = "published"]
              /\ shown' = <<v, "published">>
              /\ UNCHANGED ids

Unpublish(v) == /\ status[v] \in {"published", "unpublished"}
                /\ status' = [status EXCEPT ![v] = "unpublished"]
                /\ shown' = <<v, "unpublished">>
                /\ UNCHANGED ids

Next == \/ Create
        \/ \E v \in Versions : \/ Derive(v) \/ Publish(v) \/ Unpublish(v)
                               \/ \E id \in StableIds : Grow(v, id)

Spec == Init /\ [][Next]_vars
=============================================================================
