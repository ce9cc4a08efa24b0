---------------------------- MODULE Idempotency -----------------------------
(***************************************************************************)
(* One idempotency key of one user at one route, and the requests that send*)
(* it (platform/idempotency). The middleware claims the key, runs the      *)
(* handler and keeps its answer; each of the three is a statement of its   *)
(* own on platform.idempotency_keys. The key is that of the route's        *)
(* pattern: the identifiers in the path are no part of it.                 *)
(***************************************************************************)
EXTENDS Naturals

CONSTANTS
    Requests,
    Bodies,   \* what clients send, told apart by its hash
    Budgets,  \* alternatives for how often each thing may happen
    None

Kinds == {"request", "error", "large", "postgres", "crash"}

\* answer: the body of the request whose answer is kept.
Row     == [hash : Bodies, status : {"in_progress", "completed"}, answer : Bodies \union {None}]

ASSUME IdempotencyAssumption ==
    /\ Budgets \subseteq [Kinds -> Nat]
    /\ None \notin Bodies \union Row

VARIABLES
    row,      \* the row of the key
    old,      \* the row is past the 24 hours of Retencion
    req,      \* what each request is doing
    effects,  \* history: the executions that succeeded since the key was last pruned
    clean,    \* history: none of them ran without holding the key or was too large to keep
    left      \* the budget that remains

vars == <<row, old, req, effects, clean, left>>

Request == [at : {"idle", "claim", "read", "run", "store", "forget"}, body : Bodies \union {None},
            recorded : BOOLEAN]
Idle    == [at |-> "idle", body |-> None, recorded |-> TRUE]

Init ==
    /\ row = None /\ old = FALSE
    /\ req = [r \in Requests |-> Idle]
    /\ effects = 0 /\ clean = TRUE
    /\ left \in Budgets

Spend(k) == left[k] > 0 /\ left' = [left EXCEPT ![k] = @ - 1]

Moves(r, at) == req' = [req EXCEPT ![r].at = at]
Ends(r)      == req' = [req EXCEPT ![r] = Idle]

Running(r) == req[r].at \in {"run", "store", "forget"}

-----------------------------------------------------------------------------
Arrives(r, b) ==
    /\ req[r] = Idle /\ Spend("request")
    /\ req' = [req EXCEPT ![r] = [Idle EXCEPT !.at = "claim", !.body = b]]
    /\ UNCHANGED <<row, old, effects, clean>>

Claimed(r) == [hash |-> req[r].body, status |-> "in_progress", answer |-> None]
Claim(r)   == row' = Claimed(r) /\ Moves(r, "run")

\* Faulty variant: a key that is in progress is taken over.
ClaimsLoose(r) ==
    /\ req[r].at = "claim"
    /\ IF row = None THEN Claim(r) /\ old' = FALSE
       ELSE IF row.status = "in_progress" THEN Claim(r) /\ UNCHANGED old
       ELSE Moves(r, "read") /\ UNCHANGED <<row, old>>
    /\ UNCHANGED <<effects, clean, left>>
\* INSERT ... ON CONFLICT DO NOTHING.
Claims(r) ==
    /\ req[r].at = "claim"
    /\ IF row = None
       THEN Claim(r) /\ old' = FALSE
       ELSE Moves(r, "read") /\ UNCHANGED <<row, old>>
    /\ UNCHANGED <<effects, clean, left>>

\* The loser reads the row: gone, it runs as if it had claimed the key; another body,
\* an execution in progress or an answer to repeat end the request.
Reads(r) ==
    /\ req[r].at = "read"
    /\ IF row = None THEN Moves(r, "run") /\ clean' = FALSE ELSE Ends(r) /\ UNCHANGED clean
    /\ UNCHANGED <<row, old, effects, left>>

\* The registry does not answer, to an INSERT that may have been made: the handler
\* runs, and nothing is kept of it.
RegistryFails(r) ==
    /\ req[r].at \in {"claim", "read"} /\ Spend("postgres")
    /\ req' = [req EXCEPT ![r].at = "run", ![r].recorded = FALSE]
    /\ row' \in {row} \union {x \in {Claimed(r)} : req[r].at = "claim" /\ row = None}
    /\ clean' = FALSE
    /\ UNCHANGED <<old, effects>>

Executes(r) ==
    /\ req[r].at = "run"
    /\ effects' = effects + 1
    /\ IF req[r].recorded THEN Moves(r, "store") ELSE Ends(r)
    /\ UNCHANGED <<row, old, clean, left>>

\* An answer over TamañoMaximoRespuesta.
ExecutesLarge(r) ==
    /\ req[r].at = "run" /\ req[r].recorded /\ Spend("large")
    /\ effects' = effects + 1
    /\ clean' = FALSE
    /\ Moves(r, "forget")
    /\ UNCHANGED <<row, old>>

\* The handler answers an error; what it wrote was rolled back.
Refuses(r) ==
    /\ req[r].at = "run" /\ Spend("error")
    /\ IF req[r].recorded THEN Moves(r, "forget") ELSE Ends(r)
    /\ UNCHANGED <<row, old, effects, clean>>

\* UPDATE by key: the row may be another request's by now, or nobody's.
Stores(r) ==
    /\ req[r].at = "store"
    /\ row' = IF row = None THEN None
              ELSE [row EXCEPT !.status = "completed", !.answer = req[r].body]
    /\ Ends(r)
    /\ UNCHANGED <<old, effects, clean, left>>

\* Faulty variant: the error is kept in the row.
ForgetsLoose(r) ==
    /\ req[r].at = "forget"
    /\ row' = IF row = None THEN None ELSE [row EXCEPT !.status = "failed"]
    /\ Ends(r)
    /\ UNCHANGED <<old, effects, clean, left>>
\* DELETE by key: only correct answers are kept.
Forgets(r) ==
    /\ req[r].at = "forget"
    /\ row' = None /\ old' = FALSE
    /\ Ends(r)
    /\ UNCHANGED <<effects, clean, left>>

\* Logged: the key stays claimed.
NotKept(r) ==
    /\ req[r].at \in {"store", "forget"} /\ Spend("postgres")
    /\ Ends(r)
    /\ UNCHANGED <<row, old, effects, clean>>

\* The process dies at any point of the request.
Crash(r) ==
    /\ req[r] # Idle /\ Spend("crash")
    /\ Ends(r)
    /\ UNCHANGED <<row, old, effects, clean>>

-----------------------------------------------------------------------------
\* 24 hours pass: no request takes that long.
Ages ==
    /\ row # None /\ ~old
    /\ \A r \in Requests : ~Running(r)
    /\ old' = TRUE
    /\ UNCHANGED <<row, req, effects, clean, left>>

Pruned == /\ row' = None /\ old' = FALSE
          /\ effects' = 0
          /\ clean' = \A r \in Requests : ~Running(r)
          /\ UNCHANGED <<req, left>>

\* Faulty variant: only the keys with an answer are pruned.
PodarLoose == row # None /\ old /\ row.status = "completed" /\ Pruned
\* The worker prunes by age, whatever the row's status.
Podar == row # None /\ old /\ Pruned

-----------------------------------------------------------------------------
Steps(r) == Claims(r) \/ Reads(r) \/ Executes(r) \/ Stores(r) \/ Forgets(r)
Fails(r) == RegistryFails(r) \/ ExecutesLarge(r) \/ Refuses(r) \/ NotKept(r) \/ Crash(r)

Next ==
    \/ \E r \in Requests : Steps(r) \/ Fails(r) \/ \E b \in Bodies : Arrives(r, b)
    \/ Ages \/ Podar

\* Handlers answer, time passes and the worker prunes.
Fairness == /\ \A r \in Requests : WF_vars(Steps(r))
            /\ WF_vars(Ages) /\ WF_vars(Podar)

Spec == Init /\ [][Next]_vars /\ Fairness
=============================================================================
