----------------------------- MODULE RateLimit ------------------------------
(* The fixed window of platform/ratelimit: one counter per subject, in Redis. *)
EXTENDS Naturals

CONSTANTS Subjects, Limit

ASSUME RateLimitAssumption == Limit \in Nat \ {0}

VARIABLE hits

\* timed: the key has an expiry. The counter stops at the first value over the
\* limit: all those above are refused alike.
Counter == [n : 0..(Limit + 1), timed : BOOLEAN]
NoKey   == [n |-> 0, timed |-> FALSE]

InitHits == hits = [s \in Subjects |-> NoKey]

More(n) == IF n > Limit THEN n ELSE n + 1

\* Faulty variant: INCR and PEXPIRE are two calls, and the process may die in between.
PermitirLoose(s) ==
    \E timed \in BOOLEAN :
        hits' = [hits EXCEPT ![s] = [n |-> More(@.n), timed |-> @.timed \/ (@.n = 0 /\ timed)]]
\* The script: one INCR, and a PEXPIRE when it creates the key.
Permitir(s) == hits' = [hits EXCEPT ![s] = [n |-> More(@.n), timed |-> @.timed \/ @.n = 0]]

\* The verdict for the next request.
Permitido(s) == hits[s].n < Limit

WindowEnds(s) == /\ hits[s].timed
                 /\ hits' = [hits EXCEPT ![s] = NoKey]
=============================================================================
