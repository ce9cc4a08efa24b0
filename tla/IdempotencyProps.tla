-------------------------- MODULE IdempotencyProps --------------------------
(* What Idempotency promises. *)
EXTENDS Idempotency

\* Type correctness; a row has an answer exactly when it is completed, which is what the
\* replay relies on.
TypeOK ==
    /\ row \in Row \union {None}
    /\ old \in BOOLEAN /\ clean \in BOOLEAN
    /\ req \in [Requests -> Request]
    /\ effects \in Nat
    /\ left \in [Kinds -> Nat]
    /\ row # None => (row.status = "completed" <=> row.answer # None)
    /\ old => row # None

\* Whatever the retries, the overlaps, the crashes and the errors, a key leads to one
\* successful execution, and a row that is completed repeats the answer of that one, to
\* the body it was for; unless a request had to run without the key (RegistryFails, or
\* Reads of a row that has just gone) or its answer was too large to keep (reclamar,
\* guardar).
OnceAndForAll ==
    clean => /\ effects <= 1
             /\ row # None /\ row.status = "completed" => effects = 1 /\ row.answer = row.hash

\* No key is out of use for ever: not even that of a request whose process died, or whose
\* answer could not be written (Podar).
EveryKeyComesBack == row # None ~> row = None
=============================================================================
