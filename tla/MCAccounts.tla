----------------------------- MODULE MCAccounts -----------------------------
(* Instances of Accounts for TLC. *)
EXTENDS AccountsProps, TLC

CONSTANTS a, b, q1, q2, s1, s2

ChangesMC == {"promote", "demote", "suspend", "reactivate", "expel"}
ChangeMC  ==
    [c \in ChangesMC |->
        [role   |-> CASE c = "promote" -> "admin" [] c = "demote" -> "teacher" [] c = "expel" -> "student"
                      [] OTHER -> None,
         status |-> CASE c = "suspend" -> "suspended" [] c = "reactivate" -> "active" [] c = "expel" -> "deleted"
                      [] OTHER -> None]]

Start(seeded, f) == [seeded |-> seeded, left |-> f @@ [k \in Kinds |-> 0]]

\* Two administrators who suspend and demote each other, with a deadlock or a crash;
\* a logout and lookups around a revocation; two revocations; a suspension while its user
\* logs in; an expulsion while its user is using the session; two registrations of an
\* address; an administrator invited, promoted, suspended and let in again.
StartsPass ==
    { Start({a, b}, "login" :> 1 @@ "suspend" :> 1 @@ "demote" :> 1 @@ "lost" :> 1),
      Start({a}, "login" :> 1 @@ "logout" :> 1 @@ "revoke" :> 1 @@ "redis" :> 1 @@ "postgres" :> 1 @@ "lookup" :> 1),
      Start({a}, "login" :> 2 @@ "revoke" :> 2),
      Start({a, b}, "login" :> 2 @@ "suspend" :> 1),
      Start({a, b}, "login" :> 2 @@ "expel" :> 1 @@ "lookup" :> 1),
      Start({a, b}, "login" :> 1 @@ "suspend" :> 1 @@ "redis" :> 1 @@ "lookup" :> 1),
      Start({a}, "login" :> 2 @@ "register" :> 2 @@ "verify" :> 1 @@ "stale" :> 1),
      Start({a}, "login" :> 1 @@ "invite" :> 1 @@ "promote" :> 1 @@ "suspend" :> 1 @@ "reactivate" :> 1) }
=============================================================================
