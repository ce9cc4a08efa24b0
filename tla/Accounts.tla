------------------------------ MODULE Accounts ------------------------------
(***************************************************************************)
(* Users, their sessions and the administrator's changes (modules/identity,*)
(* modules/admin, adapters/sessions, adapters/postgres). Requests run      *)
(* concurrently. The rows of identity.users and identity.sessions are in   *)
(* PostgreSQL, at READ COMMITTED; whether a session is valid is for Redis  *)
(* to say: one hash per session and one set per user, the index, that lists*)
(* the hashes to delete when the user's access is cut.                     *)
(*                                                                         *)
(* A user stands for an e-mail. Names, the mail itself (a job, see         *)
(* JobQueue) and the audit events are left out.                            *)
(***************************************************************************)
EXTENDS RateLimit, FiniteSets

CONSTANTS
    Requests, Users, Sessions,
    Starts,   \* alternatives for the administrators that the seed creates, and for
              \* how often each thing may happen
    Changes,  \* the requests PATCH /admin/users/{id}, by name,
    Change,   \* and what each asks: a role, a status or both
    None

Roles    == {"admin", "teacher", "student"}
Statuses == {"active", "suspended", "deleted"}

Ops   == {"register", "login", "logout", "lookup", "update", "revoke"}
\* lookup is not spent: 0 keeps the clients from using their sessions.
Kinds == (Ops \ {"update"}) \union Changes \union
         {"verify", "stale", "invite", "redis", "postgres", "lost"}

ASSUME AccountsAssumption ==
    /\ Subjects = Users
    /\ Change \in [Changes -> [role : Roles \union {None}, status : Statuses \union {None}]]
    /\ \A c \in Changes : Change[c].role # None \/ Change[c].status # None
    /\ Starts \subseteq [seeded : SUBSET Users, left : [Kinds -> Nat]]
    /\ None \notin Users \union Sessions \union Roles \union Statuses

VARIABLES
    user,      \* identity.users, with the token that verifies the e-mail
    cache,     \* the hashes of Redis
    index,     \* the sets of Redis
    rows,      \* identity.sessions: the history
    req,       \* what each request is doing
    orphaned,  \* history: the sessions that left the index before they were deleted
    left       \* the budget that remains

vars == <<user, cache, index, rows, req, orphaned, left, hits>>

\* known: somebody has the password.
User   == [role : Roles, status : Statuses \union {"absent"}, verified : BOOLEAN, known : BOOLEAN,
           token : {"none", "open", "used", "expired"}]
Absent == [role |-> "student", status |-> "absent", verified |-> FALSE, known |-> FALSE, token |-> "none"]
Admin  == [Absent EXCEPT !.role = "admin", !.status = "active", !.verified = TRUE, !.known = TRUE]

\* touched: a hash with no other field than last_seen_at, and no expiry.
\* raced: history, its login read an active user who was not when the session began.
Session  == [at : {"unused", "live", "touched", "gone"}, user : Users \union {None},
             role : Roles \union {None}, raced : BOOLEAN]
NoHash   == [at |-> "unused", user |-> None, role |-> None, raced |-> FALSE]

\* row: the user as read; todo: the administrators still to lock; held: the rows
\* locked; keys: the answer of SMEMBERS; found: history, the sessions that were
\* live when the revocation began.
Request == [op : Ops \union {"none"},
            at : {"idle", "insert", "count", "lock", "update", "create", "row", "touch",
                  "unindex", "delete", "members", "keys", "index", "history"},
            u : Users \union {None}, s : Sessions \union {None},
            change : Changes \union {None}, row : User, todo : SUBSET Users, held : SUBSET Users,
            keys : SUBSET Sessions, found : SUBSET Sessions]
Idle == [op |-> "none", at |-> "idle", u |-> None, s |-> None, change |-> None, row |-> Absent,
         todo |-> {}, held |-> {}, keys |-> {}, found |-> {}]

Init ==
    /\ \E start \in Starts :
          /\ user = [u \in Users |-> IF u \in start.seeded THEN Admin ELSE Absent]
          /\ left = start.left
    /\ cache = [s \in Sessions |-> NoHash]
    /\ index = [u \in Users |-> {}]
    /\ rows = [s \in Sessions |-> "none"]
    /\ req = [r \in Requests |-> Idle]
    /\ orphaned = {}
    /\ InitHits

stored == <<user, cache, index, rows, orphaned, hits>>

Spend(k) == left[k] > 0 /\ left' = [left EXCEPT ![k] = @ - 1]

At(r, op, at) == req[r].op = op /\ req[r].at = at

Becomes(r, x) == req' = [req EXCEPT ![r] = x]
Moves(r, at)  == Becomes(r, [req[r] EXCEPT !.at = at])
\* The request answers; a transaction it has ends, and its locks with it.
Ends(r)       == Becomes(r, Idle)

Live(s)        == cache[s].at = "live"
SessionsOf(u)  == {s \in Sessions : Live(s) /\ cache[s].user = u}
ActiveAdmin(u) == user[u].role = "admin" /\ user[u].status = "active"

\* A client holds the token once the login has answered; its requests are let
\* through while the hash is whole, with the role the session began with.
Delivered(s) == rows[s] # "none"
Admitted     == \E s \in Sessions : Live(s) /\ Delivered(s) /\ cache[s].role = "admin"

\* Faulty variant: the other administrators are counted without FOR UPDATE.
FreeLoose(r, u) == u \in Users
\* No other transaction holds the row of u.
Free(r, u) == \A q \in Requests \ {r} : u \notin req[q].held

-----------------------------------------------------------------------------
(* Registration, verification and invitation. *)

\* A request begins at the first statement that another one could overtake.
Asks(r, k, x) == /\ req[r] = Idle
                 /\ Spend(k)
                 /\ Becomes(r, x)

Register(r, u) ==
    /\ user[u].status = "absent"
    /\ Asks(r, "register", [Idle EXCEPT !.op = "register", !.at = "insert", !.u = u])
    /\ UNCHANGED stored

\* The address is UNIQUE: of two inserts the second fails.
Inserted(u, x) == IF user[u].status = "absent" THEN [user EXCEPT ![u] = x] ELSE user

\* A student, active, whom the token has yet to verify.
InsertUser(r) ==
    /\ At(r, "register", "insert")
    /\ user' = Inserted(req[r].u, [Absent EXCEPT !.status = "active", !.known = TRUE, !.token = "open"])
    /\ Ends(r)
    /\ UNCHANGED <<cache, index, rows, orphaned, left, hits>>

\* A password that nobody knows; the invitation is a token that no route takes.
CrearUsuario(u, role) ==
    /\ Admitted /\ Spend("invite") /\ role \in {"admin", "teacher"}
    /\ user' = Inserted(u, [Absent EXCEPT !.role = role, !.status = "active", !.verified = TRUE])
    /\ UNCHANGED <<cache, index, rows, req, orphaned, hits>>

\* One UPDATE consumes the token, another marks the user, in a transaction.
VerifyEmail(u) ==
    /\ user[u].token = "open" /\ Spend("verify")
    /\ \A q \in Requests : u \notin req[q].held
    /\ user' = [user EXCEPT ![u].token = "used", ![u].verified = TRUE]
    /\ UNCHANGED <<cache, index, rows, req, orphaned, hits>>

TokenExpires(u) ==
    /\ user[u].token = "open" /\ Spend("stale")
    /\ user' = [user EXCEPT ![u].token = "expired"]
    /\ UNCHANGED <<cache, index, rows, req, orphaned, hits>>

-----------------------------------------------------------------------------
(* Login. *)

CanLogIn(x) == x.status = "active" /\ x.verified

\* The limiter comes first; then the password and CanLogIn are looked at on one read
\* of the row.
Login(r, u) ==
    /\ user[u].known /\ CanLogIn(user[u])
    /\ Asks(r, "login", [Idle EXCEPT !.op = "login", !.at = "create", !.u = u, !.row = user[u]])

LoginCounted(r, u) == /\ Permitido(u) /\ Login(r, u)
                      /\ Permitir(u)
                      /\ UNCHANGED <<user, cache, index, rows, orphaned>>

\* When Redis does not answer, the limiter lets the request through.
LoginUncounted(r, u) == /\ left["redis"] > 0 /\ Login(r, u)
                        /\ UNCHANGED stored

\* A wrong password, an account that cannot enter, or one over the limit.
LoginRefused(u) == /\ Spend("login")
                   /\ Permitir(u)
                   /\ UNCHANGED <<user, cache, index, rows, req, orphaned>>

\* One MULTI: the hash, its expiry, the index and its expiry.
CreateSession(r, s) ==
    /\ At(r, "login", "create") /\ cache[s] = NoHash
    /\ cache' = [cache EXCEPT ![s] = [at |-> "live", user |-> req[r].u, role |-> req[r].row.role,
                                      raced |-> user[req[r].u].status # "active"]]
    /\ index' = [index EXCEPT ![req[r].u] = @ \union {s}]
    /\ Becomes(r, [req[r] EXCEPT !.at = "row", !.s = s])
    /\ UNCHANGED <<user, rows, orphaned, left, hits>>

CreateFails(r) ==
    /\ At(r, "login", "create") /\ Spend("redis")
    /\ Ends(r)
    /\ UNCHANGED stored

\* The foreign key makes it wait for a transaction that holds the user.
InsertSession(r) ==
    /\ At(r, "login", "row") /\ Free(r, req[r].u)
    /\ rows' = [rows EXCEPT ![req[r].s] = "open"]
    /\ Ends(r)
    /\ UNCHANGED <<user, cache, index, orphaned, left, hits>>

\* The login answers an error and takes the session back.
InsertSessionFails(r) ==
    /\ At(r, "login", "row") /\ Spend("postgres")
    /\ Moves(r, "unindex")
    /\ UNCHANGED stored

-----------------------------------------------------------------------------
(* The end of a session. *)

Logout(r, s) == /\ Live(s) /\ Delivered(s)
                /\ Asks(r, "logout", [Idle EXCEPT !.op = "logout", !.at = "unindex", !.s = s])
                /\ UNCHANGED stored

\* Delete: HGET tells which index the session leaves.
Unindex(r) ==
    /\ req[r].at = "unindex"
    /\ LET s == req[r].s
       IN  IF Live(s)
           THEN /\ index' = [index EXCEPT ![cache[s].user] = @ \ {s}]
                /\ orphaned' = orphaned \union {s}
           ELSE UNCHANGED <<index, orphaned>>
    /\ Moves(r, "delete")
    /\ UNCHANGED <<user, cache, rows, left, hits>>

Deleted(keys) == [s \in Sessions |-> IF s \in keys /\ cache[s].at # "unused"
                                     THEN [cache[s] EXCEPT !.at = "gone"] ELSE cache[s]]

\* DEL; a logout goes on to the history.
DeleteSession(r) ==
    /\ req[r].at = "delete"
    /\ cache' = Deleted({req[r].s})
    /\ IF req[r].op = "logout" THEN Moves(r, "history") ELSE Ends(r)
    /\ UNCHANGED <<user, index, rows, orphaned, left, hits>>

DeleteFails(r) ==
    /\ req[r].at = "delete" /\ Spend("redis")
    /\ Ends(r)
    /\ UNCHANGED stored

\* RevokeSession, or RevocarSesionesDe.
RevokeRows(r) ==
    /\ req[r].at = "history"
    /\ LET mine == IF req[r].op = "logout" THEN {req[r].s}
                   ELSE {s \in Sessions : cache[s].user = req[r].u}
       IN  rows' = [s \in Sessions |-> IF s \in mine /\ rows[s] = "open" THEN "revoked" ELSE rows[s]]
    /\ Ends(r)
    /\ UNCHANGED <<user, cache, index, orphaned, left, hits>>

RevokeRowsFails(r) ==
    /\ req[r].at = "history" /\ Spend("postgres")
    /\ Ends(r)
    /\ UNCHANGED stored

\* The expiry set when the session began; nothing extends it.
Expires(s) ==
    /\ Live(s)
    /\ cache' = [cache EXCEPT ![s].at = "gone"]
    /\ UNCHANGED <<user, index, rows, req, orphaned, left, hits>>

\* The index lives as long as the newest of its sessions.
IndexExpires(u) ==
    /\ index[u] # {} /\ SessionsOf(u) = {}
    /\ index' = [index EXCEPT ![u] = {}]
    /\ UNCHANGED <<user, cache, rows, req, orphaned, left, hits>>

-----------------------------------------------------------------------------
(* Every request of a client with a session: Lookup. *)

\* HGETALL and TTL: the session is whole and has an expiry.
LookupReads(r, s) ==
    /\ req[r] = Idle /\ left["lookup"] > 0
    /\ Live(s) /\ Delivered(s)
    /\ Becomes(r, [Idle EXCEPT !.op = "lookup", !.at = "touch", !.s = s])
    /\ UNCHANGED <<stored, left>>

\* Faulty variant: the fields that were read are all written back.
TouchLoose(r) ==
    /\ At(r, "lookup", "touch")
    /\ cache' = [cache EXCEPT ![req[r].s].at = "live"]
    /\ Ends(r)
    /\ UNCHANGED <<user, index, rows, orphaned, left, hits>>
\* HSET last_seen_at: on a key deleted in between, it makes a hash of one field.
Touch(r) ==
    /\ At(r, "lookup", "touch")
    /\ cache' = [cache EXCEPT ![req[r].s].at = IF @ = "live" THEN "live" ELSE "touched"]
    /\ Ends(r)
    /\ UNCHANGED <<user, index, rows, orphaned, left, hits>>

-----------------------------------------------------------------------------
(* ActualizarUsuario, and the cut of a user's access. *)

\* The row is read first, without a lock.
ReadsActual(r, u, c) ==
    /\ Admitted /\ user[u].status # "absent"
    /\ Asks(r, c, [Idle EXCEPT !.op = "update", !.at = "count", !.u = u, !.change = c, !.row = user[u]])
    /\ UNCHANGED stored

\* SELECT ... FOR UPDATE: the rows that match when the statement begins,
CountBegins(r) ==
    /\ At(r, "update", "count")
    /\ Becomes(r, [req[r] EXCEPT !.at = "lock", !.todo = {a \in Users \ {req[r].u} : ActiveAdmin(a)}])
    /\ UNCHANGED <<stored, left>>

\* locked one by one, in no order that the code fixes, and looked at again then.
LocksOther(r, a) ==
    /\ At(r, "update", "lock") /\ a \in req[r].todo
    /\ Free(r, a)
    /\ Becomes(r, [req[r] EXCEPT !.todo = @ \ {a}, !.held = @ \union {a}])
    /\ UNCHANGED <<stored, left>>

Coalesce(new, old) == IF new = None THEN old ELSE new

Changed(x, c) == [x EXCEPT !.role = Coalesce(Change[c].role, @), !.status = Coalesce(Change[c].status, @)]

IsActiveAdmin(x) == x.role = "admin" /\ x.status = "active"

DejaSinAdministrador(actual, c, otros) ==
    /\ IsActiveAdmin(actual)
    /\ otros = 0
    /\ ~IsActiveAdmin(Changed(actual, c))

\* Of the rows locked the count takes those that still match.
Decides(r) ==
    /\ At(r, "update", "lock") /\ req[r].todo = {}
    /\ IF DejaSinAdministrador(req[r].row, req[r].change, Cardinality({a \in req[r].held : ActiveAdmin(a)}))
       THEN Ends(r)
       ELSE Moves(r, "update")
    /\ UNCHANGED <<stored, left>>

\* Faulty variant: a column that the change leaves alone is overwritten.
UpdateUserLoose(r) ==
    /\ At(r, "update", "update") /\ Free(r, req[r].u)
    /\ user' = [user EXCEPT ![req[r].u].role = Change[req[r].change].role]
    /\ Ends(r)
    /\ UNCHANGED <<cache, index, rows, orphaned, left, hits>>
\* Faulty variant: the access of a user who is left inactive is not cut.
UpdateUserForgets(r) ==
    /\ At(r, "update", "update") /\ Free(r, req[r].u)
    /\ user' = [user EXCEPT ![req[r].u] = Changed(@, req[r].change)]
    /\ Ends(r)
    /\ UNCHANGED <<cache, index, rows, orphaned, left, hits>>
\* UPDATE and COMMIT. A user left inactive loses the sessions next.
UpdateUser(r) ==
    /\ At(r, "update", "update") /\ Free(r, req[r].u)
    /\ user' = [user EXCEPT ![req[r].u] = Changed(@, req[r].change)]
    /\ IF Changed(user[req[r].u], req[r].change).status # "active"
       THEN Becomes(r, [req[r] EXCEPT !.at = "members", !.held = {}, !.found = SessionsOf(req[r].u)])
       ELSE Ends(r)
    /\ UNCHANGED <<cache, index, rows, orphaned, left, hits>>

\* r waits for a row that q has locked.
Waits(r, q) ==
    /\ req[r].op = "update"
    /\ \/ req[r].at = "lock" /\ \E a \in req[r].todo : a \in req[q].held
       \/ req[r].at = "update" /\ req[r].u \in req[q].held

\* PostgreSQL aborts one of the transactions that wait for each other.
DeadlockVictim(r) ==
    /\ \E cycle \in SUBSET Requests : /\ r \in cycle
                                      /\ \A p \in cycle : \E q \in cycle \ {p} : Waits(p, q)
    /\ Ends(r)
    /\ UNCHANGED <<stored, left>>

RevocarSesiones(r, u) ==
    /\ Admitted /\ user[u].status # "absent"
    /\ Asks(r, "revoke", [Idle EXCEPT !.op = "revoke", !.at = "members", !.u = u, !.found = SessionsOf(u)])
    /\ UNCHANGED stored

\* Faulty variant: the sessions to delete come from the history.
MembersLoose(r) ==
    /\ req[r].at = "members"
    /\ Becomes(r, [req[r] EXCEPT !.at = "keys",
                   !.keys = {s \in Sessions : cache[s].user = req[r].u /\ rows[s] = "open"}])
    /\ UNCHANGED <<stored, left>>
\* DeleteAllForUser: SMEMBERS,
Members(r) ==
    /\ req[r].at = "members"
    /\ Becomes(r, [req[r] EXCEPT !.at = "keys", !.keys = index[req[r].u]])
    /\ UNCHANGED <<stored, left>>

\* DEL of the hashes,
DeleteKeys(r) ==
    /\ req[r].at = "keys"
    /\ cache' = Deleted(req[r].keys)
    /\ Moves(r, "index")
    /\ UNCHANGED <<user, index, rows, orphaned, left, hits>>

\* DEL of the index, with whatever it lists by now.
DeleteIndex(r) ==
    /\ req[r].at = "index"
    /\ orphaned' = orphaned \union {s \in index[req[r].u] : Live(s)}
    /\ index' = [index EXCEPT ![req[r].u] = {}]
    /\ IF req[r].op = "revoke" THEN Moves(r, "history") ELSE Ends(r)
    /\ UNCHANGED <<user, cache, rows, left, hits>>

\* Redis does not answer: logged, or answered with an error.
DeleteAllFails(r) ==
    /\ req[r].at \in {"members", "keys", "index"} /\ Spend("redis")
    /\ Ends(r)
    /\ UNCHANGED stored

-----------------------------------------------------------------------------
\* The process dies, or the connection to PostgreSQL does: what was not
\* committed is rolled back.
Lost(r) ==
    /\ req[r] # Idle /\ Spend("lost")
    /\ Ends(r)
    /\ UNCHANGED stored

NextWindow(u) == WindowEnds(u) /\ UNCHANGED <<user, cache, index, rows, req, orphaned, left>>

Steps(r) ==
    \/ InsertUser(r) \/ InsertSession(r)
    \/ \E s \in Sessions : CreateSession(r, s)
    \/ Unindex(r) \/ DeleteSession(r) \/ RevokeRows(r) \/ Touch(r)
    \/ CountBegins(r) \/ Decides(r) \/ UpdateUser(r) \/ DeadlockVictim(r)
    \/ \E a \in Users : LocksOther(r, a)
    \/ Members(r) \/ DeleteKeys(r) \/ DeleteIndex(r)

Fails(r) ==
    \/ CreateFails(r) \/ InsertSessionFails(r) \/ DeleteFails(r)
    \/ RevokeRowsFails(r) \/ DeleteAllFails(r) \/ Lost(r)

Arrives(r) ==
    \/ \E u \in Users :
        \/ Register(r, u) \/ LoginCounted(r, u) \/ LoginUncounted(r, u) \/ RevocarSesiones(r, u)
        \/ \E c \in Changes : ReadsActual(r, u, c)
    \/ \E s \in Sessions : Logout(r, s) \/ LookupReads(r, s)

OfUser(u) ==
    \/ VerifyEmail(u) \/ TokenExpires(u) \/ LoginRefused(u) \/ IndexExpires(u) \/ NextWindow(u)
    \/ \E role \in Roles : CrearUsuario(u, role)

Next ==
    \/ \E r \in Requests : Arrives(r) \/ Steps(r) \/ Fails(r)
    \/ \E s \in Sessions : Expires(s)
    \/ \E u \in Users : OfUser(u)

\* Nothing makes a session end by itself here: what is promised of a suspension
\* must not wait for the expiry.
Fairness ==
    /\ \A r \in Requests : WF_vars(Steps(r))
    /\ \A u \in Users : WF_vars(NextWindow(u))

Spec == Init /\ [][Next]_vars /\ Fairness
=============================================================================
