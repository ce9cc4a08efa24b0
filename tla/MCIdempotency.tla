--------------------------- MODULE MCIdempotency ----------------------------
(* Instance of Idempotency for TLC. *)
EXTENDS IdempotencyProps, TLC

With(f) == f @@ [k \in Kinds |-> 0]
\* Retries and overlaps of five requests with two bodies, under each failure.
BudgetsPass == { With("request" :> 5 @@ "error" :> 2 @@ "crash" :> 1),
                 With("request" :> 4 @@ "postgres" :> 2 @@ "large" :> 1 @@ "crash" :> 1) }
=============================================================================
