----------------------------- MODULE MCJobQueue -----------------------------
(* Instances of JobQueue for TLC: the budgets of each run. *)
EXTENDS JobQueueProps, TLC

CONSTANTS j1, w1, w2, p1, p2

Only(n, ks) == [k \in Kinds |-> IF k \in ks THEN n ELSE 0]

\* Crashes and lost publications, or failed statements; published twice.
BudgetsFaults ==
    { [Only(1, {"crash", "publish"}) EXCEPT !["record"] = 2],
      [Only(1, {"db", "publish"}) EXCEPT !["record"] = 2] }
\* The faults that break those promises, a few at a time.
BudgetsAll ==
    { Only(1, {"record", "redis", "crash"}), Only(1, {"record", "redis", "stall"}),
      Only(1, {"record", "cut", "stall", "requeue"}), Only(1, {"record", "cut", "db"}) }
\* Redis loses its data once, and nothing else goes wrong.
BudgetsRedis == { Only(1, {"record", "redis"}) }
=============================================================================
