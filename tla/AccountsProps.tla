--------------------------- MODULE AccountsProps ----------------------------
(* What Accounts promises. *)
EXTENDS Accounts

\* Type correctness; a hash belongs to somebody exactly when it was ever written, and
\* an index lists sessions of its own user.
TypeOK ==
    /\ user \in [Users -> User]
    /\ cache \in [Sessions -> Session]
    /\ index \in [Users -> SUBSET Sessions]
    /\ rows \in [Sessions -> {"none", "open", "revoked"}]
    /\ req \in [Requests -> Request]
    /\ orphaned \subseteq Sessions
    /\ left \in [Kinds -> Nat]
    /\ hits \in [Subjects -> Counter]
    /\ \A s \in Sessions : cache[s].at = "unused" <=> cache[s].user = None
    /\ \A u \in Users : \A s \in index[u] : cache[s].user = u

\* The system never runs out of active administrators: two changes that each count the
\* other's user as the one that stays cannot both commit (ActualizarUsuario and the
\* FOR UPDATE of OtrosAdminsActivos).
AdminRemains == \E u \in Users : ActiveAdmin(u)

\* When the revocation of a user's sessions comes to its end without an error, none of the
\* sessions that were open when it began is still open, whatever logins, logouts and
\* lookups ran meanwhile; the exception is a session that another revocation or a logout
\* had dropped from the index (DeleteAllForUser).
RevocationCuts ==
    [][ \A r \in Requests :
            req[r].at = "index" /\ left' = left /\ req'[r].at # "index" =>
                \A s \in req[r].found : cache'[s].at = "live" => s \in orphaned ]_vars

\* A session that ended never opens a route again: the write of last_seen_at that comes
\* late leaves a hash that Lookup does not take (Lookup, Delete).
ClosedStaysClosed ==
    [][ \A s \in Sessions : cache[s].at \in {"touched", "gone"} => cache'[s].at # "live" ]_vars

\* Redis answers and no process dies.
NobodyFails == left["redis"] = 0 /\ left["lost"] = 0

\* A suspension cuts the user's access at once, not when the sessions expire
\* (admin/service.go:164-165, 181-186): while nobody fails, somebody suspended or deleted
\* loses every session although time closes none. Left out are a session that began
\* behind the suspension, from a login that had read the user before it, and one that
\* another revocation had dropped from the index: the code does not cut those.
SuspensionCuts ==
    []NobodyFails =>
        \A u \in Users :
            user[u].status # "active"
                ~> \/ user[u].status = "active"
                   \/ \A s \in SessionsOf(u) : cache[s].raced \/ s \in orphaned

\* An account over the limit is let in again: no counter is left without an expiry
\* (the script incrementarYExpirar).
LimiterLetsGo == \A u \in Subjects : hits[u].n > Limit ~> hits[u] = NoKey
=============================================================================
