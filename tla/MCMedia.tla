------------------------------ MODULE MCMedia ------------------------------
(* Instances of Media for TLC. *)
EXTENDS MediaProps

Never == [k \in Kinds |-> 0]
\* Two completions at once; an abort beside everything; deaths; failures up to
\* the dead letter and a requeue; and playback.
BudgetsPass ==
    { [Never EXCEPT !["complete"] = 2, !["expire"] = 1, !["play"] = 1],
      [Never EXCEPT !["complete"] = 1, !["abort"] = 1, !["play"] = 1, !["error"] = 1],
      [Never EXCEPT !["complete"] = 2, !["crash"] = 2, !["play"] = 1],
      [Never EXCEPT !["complete"] = 1, !["error"] = 2, !["requeue"] = 1] }
=============================================================================
