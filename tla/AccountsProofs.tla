--------------------------- MODULE AccountsProofs ---------------------------
(***************************************************************************)
(* Theorems about Accounts for any number of users, sessions and requests. *)
(***************************************************************************)
EXTENDS AccountsProps, FiniteSetTheorems, TLAPS

\* A request's session was written once, and its user exists, where they are needed.
Wanted(x, c) ==
    /\ x.at \in {"row", "touch", "unindex", "delete"} => x.s \in Sessions /\ c[x.s].at # "unused"
    /\ x.at \in {"create", "count", "lock", "update", "members", "keys", "index"} => x.u \in Users
    /\ x.at \in {"count", "lock", "update"} => x.change \in Changes

Typed == TypeOK /\ \A r \in Requests : Wanted(req[r], cache)

\* What no step undoes: a session that ended stays so and a hash keeps its user.
Fading ==
    /\ \A s \in Sessions : cache[s].at # "unused" =>
           /\ cache'[s].at # "unused"
           /\ cache'[s].user = cache[s].user
           /\ cache'[s].at = "live" => cache[s].at = "live"
    /\ orphaned \subseteq orphaned'

StoresOK ==
    /\ user' \in [Users -> User]
    /\ cache' \in [Sessions -> Session]
    /\ index' \in [Users -> SUBSET Sessions]
    /\ rows' \in [Sessions -> {"none", "open", "revoked"}]
    /\ orphaned' \subseteq Sessions
    /\ hits' \in [Subjects -> Counter]
    /\ \A s \in Sessions : cache'[s].at = "unused" <=> cache'[s].user = None
    /\ \A u \in Users : \A s \in index'[u] : cache'[s].user = u

\* A request that does nothing, and the rows that the code makes.
LEMMA Records ==
    /\ Idle \in Request /\ Idle.at = "idle" /\ Idle.op = "none" /\ Idle.held = {} /\ Idle.found = {}
    /\ Absent \in User /\ Admin \in User
    /\ NoHash \in Session /\ NoHash.at = "unused" /\ NoHash.user = None
<1>1. Absent \in User /\ Admin \in User
  BY DEF Absent, Admin, User, Roles, Statuses
<1> QED BY <1>1 DEF Idle, Request, NoHash, Session

\* The budget stays one.
LEMMA BudgetStep == ASSUME TypeOK, NEW k, Spend(k) PROVE left' \in [Kinds -> Nat]
<1>1. left \in [Kinds -> Nat] /\ left' = [left EXCEPT ![k] = @ - 1] /\ left[k] > 0
  BY DEF TypeOK, Spend
<1>2. CASE k \in Kinds
  BY <1>1, <1>2
<1>3. CASE k \notin Kinds
  BY <1>1, <1>3
<1> QED BY <1>2, <1>3

\* Nothing stored changes.
LEMMA StoredStep == ASSUME TypeOK, UNCHANGED stored PROVE StoresOK /\ Fading
BY DEF TypeOK, stored, StoresOK, Fading

\* One request changes, and what is stored keeps its type.
LEMMA TypedStep ==
    ASSUME Typed, NEW r \in Requests, NEW x \in Request, Becomes(r, x), Wanted(x, cache'),
           StoresOK, Fading, left' \in [Kinds -> Nat]
    PROVE  Typed'
<1>1. req' = [req EXCEPT ![r] = x] /\ req \in [Requests -> Request]
  BY DEF Typed, TypeOK, Becomes
<1>2. req' \in [Requests -> Request]
  BY <1>1
<1>3. ASSUME NEW q \in Requests PROVE Wanted(req'[q], cache')
  <2>1. CASE q = r
    BY <1>1, <2>1
  <2>2. CASE q # r
    BY <1>1, <2>2 DEF Typed, Wanted, Fading
  <2> QED BY <2>1, <2>2
<1>4. TypeOK'
  BY <1>2 DEF StoresOK, TypeOK
<1> QED BY <1>3, <1>4 DEF Typed, Wanted

\* No request changes.
LEMMA TypedStutter ==
    ASSUME Typed, UNCHANGED req, StoresOK, Fading, left' \in [Kinds -> Nat]
    PROVE  Typed'
<1>1. ASSUME NEW q \in Requests PROVE Wanted(req'[q], cache')
  BY DEF Typed, Wanted, Fading
<1>2. TypeOK'
  BY DEF StoresOK, Typed, TypeOK
<1> QED BY <1>1, <1>2 DEF Typed, Wanted

\* A request that answers, or moves on to a step that needs no more than this one did.
LEMMA EndsStep ==
    ASSUME Typed, NEW r \in Requests, Ends(r), StoresOK, Fading, left' \in [Kinds -> Nat]
    PROVE  Typed'
BY Records, TypedStep DEF Ends, Wanted

Places == {"idle", "insert", "count", "lock", "update", "create", "row", "touch",
           "unindex", "delete", "members", "keys", "index", "history"}

\* What a request that only moves on still carries.
LEMMA Moved ==
    ASSUME Typed, NEW r \in Requests, NEW at \in Places
    PROVE  LET x == [req[r] EXCEPT !.at = at]
           IN  /\ x \in Request /\ x.at = at
               /\ x.op = req[r].op /\ x.u = req[r].u /\ x.s = req[r].s /\ x.change = req[r].change
               /\ x.row = req[r].row /\ x.todo = req[r].todo /\ x.held = req[r].held
               /\ x.keys = req[r].keys /\ x.found = req[r].found
<1>1. req[r] \in Request
  BY DEF Typed, TypeOK
<1> QED BY <1>1 DEF Request, Places

\* Moving on keeps the types, between steps that need the same of the request.
LEMMA MovesStep ==
    ASSUME Typed, NEW r \in Requests, NEW at \in Places, Moves(r, at),
           at \in {"row", "touch", "unindex", "delete"} =>
               req[r].at \in {"row", "touch", "unindex", "delete"},
           at \in {"create", "count", "lock", "update", "members", "keys", "index"} =>
               req[r].at \in {"create", "count", "lock", "update", "members", "keys", "index"},
           at \in {"count", "lock", "update"} => req[r].at \in {"count", "lock", "update"},
           StoresOK, Fading, left' \in [Kinds -> Nat]
    PROVE  Typed'
<1> DEFINE x == [req[r] EXCEPT !.at = at]
<1>1. /\ x \in Request /\ x.at = at /\ x.u = req[r].u /\ x.s = req[r].s
      /\ x.change = req[r].change /\ Becomes(r, x)
  BY Moved DEF Moves
<1>2. req[r] \in Request /\ Wanted(req[r], cache)
  BY DEF Typed, TypeOK
<1> HIDE DEF x
<1>3. Wanted(x, cache')
  BY <1>1, <1>2 DEF Wanted, Fading, Request
<1> QED BY <1>1, <1>3, TypedStep

-----------------------------------------------------------------------------
(* What each kind of step does to the stores. *)

\* Only users change.
LEMMA UsersStep ==
    ASSUME TypeOK, user' \in [Users -> User], UNCHANGED <<cache, index, rows, orphaned, hits>>
    PROVE  StoresOK /\ Fading
BY DEF TypeOK, StoresOK, Fading

\* INSERT ... ON CONFLICT DO NOTHING leaves a table of users.
LEMMA InsertedUser ==
    ASSUME TypeOK, NEW u, NEW x \in User
    PROVE  Inserted(u, x) \in [Users -> User]
BY DEF TypeOK, Inserted

\* Only the history changes.
LEMMA RowsStep ==
    ASSUME TypeOK, rows' \in [Sessions -> {"none", "open", "revoked"}],
           UNCHANGED <<user, cache, index, orphaned, hits>>
    PROVE  StoresOK /\ Fading
BY DEF TypeOK, StoresOK, Fading

\* Only the counters change.
LEMMA HitsStep ==
    ASSUME TypeOK, NEW u \in Users, Permitir(u) \/ WindowEnds(u),
           UNCHANGED <<user, cache, index, rows, orphaned>>
    PROVE  StoresOK /\ Fading
<1>1. hits \in [Subjects -> Counter] /\ Limit \in Nat \ {0} /\ u \in Subjects
  BY RateLimitAssumption, AccountsAssumption DEF TypeOK
<1>2. hits[u] \in Counter /\ More(hits[u].n) \in 0..(Limit + 1) /\ NoKey \in Counter
  BY <1>1 DEF Counter, More, NoKey
<1>3. [n |-> More(hits[u].n), timed |-> hits[u].timed \/ hits[u].n = 0] \in Counter
  BY <1>2 DEF Counter
<1>4. CASE Permitir(u)
  <2>1. hits' = [hits EXCEPT ![u] = [n |-> More(hits[u].n), timed |-> hits[u].timed \/ hits[u].n = 0]]
    BY <1>4 DEF Permitir
  <2>2. hits' \in [Subjects -> Counter]
    BY <1>1, <1>3, <2>1
  <2> QED BY <2>2 DEF TypeOK, StoresOK, Fading
<1>5. CASE WindowEnds(u)
  <2>1. hits' \in [Subjects -> Counter]
    BY <1>1, <1>2, <1>5 DEF WindowEnds
  <2> QED BY <2>1 DEF TypeOK, StoresOK, Fading
<1> QED BY <1>4, <1>5

\* One hash changes: what it was, and what it becomes.
LEMMA HashStep ==
    ASSUME TypeOK, NEW s \in Sessions, NEW x \in Session, cache' = [cache EXCEPT ![s] = x],
           cache[s].at # "unused", x.at # "unused", x.user = cache[s].user,
           x.at = "live" => cache[s].at = "live",
           UNCHANGED <<user, index, rows, orphaned, hits>>
    PROVE  StoresOK /\ Fading
<1>1. cache \in [Sessions -> Session]
  BY DEF TypeOK
<1>2. cache' \in [Sessions -> Session] /\ cache'[s] = x /\ \A o \in Sessions \ {s} : cache'[o] = cache[o]
  BY <1>1
<1>3. Fading
  BY <1>2 DEF Fading
<1>4. \A o \in Sessions : cache'[o].at = "unused" <=> cache'[o].user = None
  BY <1>2 DEF TypeOK
<1>5. \A u \in Users : \A o \in index'[u] : cache'[o].user = u
  BY <1>2 DEF TypeOK
<1> QED BY <1>2, <1>3, <1>4, <1>5 DEF TypeOK, StoresOK

\* Hashes are deleted.
LEMMA DeletedStep ==
    ASSUME TypeOK, NEW keys, cache' = Deleted(keys), UNCHANGED <<user, index, rows, orphaned, hits>>
    PROVE  StoresOK /\ Fading
<1>1. ASSUME NEW s \in Sessions
      PROVE  /\ cache'[s] \in Session /\ cache'[s].user = cache[s].user
             /\ cache'[s].at = "unused" <=> cache[s].at = "unused"
             /\ cache'[s].at = "live" => cache[s].at = "live"
  <2>1. cache'[s] = IF s \in keys /\ cache[s].at # "unused" THEN [cache[s] EXCEPT !.at = "gone"]
                                                            ELSE cache[s]
    BY DEF Deleted
  <2>2. cache[s] \in Session
    BY DEF TypeOK
  <2> QED BY <2>1, <2>2 DEF Session
<1>2. cache' \in [Sessions -> Session]
  <2>1. cache' = [s \in Sessions |-> cache'[s]]
    BY DEF Deleted
  <2> QED BY <1>1, <2>1
<1>3. Fading
  BY <1>1 DEF Fading
<1>4. \A s \in Sessions : cache'[s].at = "unused" <=> cache'[s].user = None
  BY <1>1 DEF TypeOK
<1>5. \A u \in Users : \A s \in index'[u] : cache'[s].user = u
  BY <1>1 DEF TypeOK
<1> QED BY <1>2, <1>3, <1>4, <1>5 DEF TypeOK, StoresOK

\* Sessions leave an index.
LEMMA IndexStep ==
    ASSUME TypeOK, NEW u, NEW rest, index' = [index EXCEPT ![u] = rest],
           u \in Users => rest \subseteq index[u],
           orphaned \subseteq orphaned', orphaned' \subseteq Sessions,
           UNCHANGED <<user, cache, rows, hits>>
    PROVE  StoresOK /\ Fading
<1>1. index \in [Users -> SUBSET Sessions]
  BY DEF TypeOK
<1>2. \A v \in Users : index'[v] \subseteq index[v]
  BY <1>1
<1>3. index' \in [Users -> SUBSET Sessions]
  BY <1>1, <1>2
<1>4. \A v \in Users : \A s \in index'[v] : cache'[s].user = v
  BY <1>2 DEF TypeOK
<1>5. Fading
  BY DEF Fading
<1> QED BY <1>3, <1>4, <1>5 DEF TypeOK, StoresOK

\* A session is made.
LEMMA SessionStep ==
    ASSUME Typed, NEW r \in Requests, NEW s \in Sessions, CreateSession(r, s)
    PROVE  /\ StoresOK /\ Fading /\ cache[s].at = "unused" /\ cache'[s].at = "live"
           /\ cache'[s].user = req[r].u /\ req[r].u \in Users
           /\ \A o \in Sessions \ {s} : cache'[o] = cache[o]
           /\ s \in index'[req[r].u] /\ \A u \in Users : index[u] \subseteq index'[u]
<1> DEFINE u == req[r].u
           x == [at |-> "live", user |-> u, role |-> req[r].row.role,
                 raced |-> user[u].status # "active"]
<1>1. u \in Users /\ req[r].row \in User
  BY DEF CreateSession, At, Typed, TypeOK, Wanted, Request
<1>2. x \in Session /\ x.at = "live" /\ x.user = u
  <2>1. (user[u].status # "active") \in BOOLEAN
    BY Zenon
  <2> QED BY <1>1, <2>1 DEF Session, User
<1>3. cache' = [cache EXCEPT ![s] = x] /\ cache[s] = NoHash
  BY DEF CreateSession
<1>4. cache[s].at = "unused" /\ cache[s].user = None
  BY <1>3, Records
<1>5. index' = [index EXCEPT ![u] = index[u] \union {s}] /\ UNCHANGED <<user, rows, orphaned, hits>>
  BY DEF CreateSession
<1> HIDE DEF x, u
<1>6. cache \in [Sessions -> Session] /\ index \in [Users -> SUBSET Sessions]
  BY DEF Typed, TypeOK
<1>7. /\ cache' \in [Sessions -> Session] /\ cache'[s] = x
      /\ \A o \in Sessions \ {s} : cache'[o] = cache[o]
  BY <1>2, <1>3, <1>6
<1>8. /\ index' \in [Users -> SUBSET Sessions] /\ index'[u] = index[u] \union {s}
      /\ \A v \in Users \ {u} : index'[v] = index[v]
  BY <1>1, <1>5, <1>6
<1>9. Fading
  BY <1>4, <1>5, <1>7 DEF Fading
<1>10. \A o \in Sessions : cache'[o].at = "unused" <=> cache'[o].user = None
  BY <1>1, <1>2, <1>7, AccountsAssumption DEF Typed, TypeOK
<1>11. ASSUME NEW v \in Users, NEW o \in index'[v] PROVE cache'[o].user = v
  <2>1. o \in Sessions /\ (o \in index[v] \/ (o = s /\ v = u))
    BY <1>8
  <2>2. CASE o \in index[v]
    <3>1. cache[o].user = v /\ v # None
      BY <2>2, AccountsAssumption DEF Typed, TypeOK
    <3> QED BY <1>4, <1>7, <2>1, <3>1
  <2> QED BY <1>2, <1>7, <2>1, <2>2
<1>12. StoresOK
  BY <1>5, <1>7, <1>8, <1>10, <1>11 DEF Typed, TypeOK, StoresOK
<1> QED BY <1>1, <1>2, <1>4, <1>7, <1>8, <1>9, <1>12 DEF u

-----------------------------------------------------------------------------
(* Types. *)

\* Every variable begins with its type.
LEMMA TypedInit == Init => Typed
<1> SUFFICES ASSUME Init PROVE Typed
  OBVIOUS
<1>1. left \in [Kinds -> Nat]
  BY AccountsAssumption DEF Init
<1>2. user \in [Users -> User]
  BY Records DEF Init
<1>3. hits \in [Subjects -> Counter]
  <2>1. NoKey \in Counter
    BY RateLimitAssumption DEF NoKey, Counter
  <2> QED BY <2>1 DEF Init, InitHits
<1>4. /\ cache \in [Sessions -> Session] /\ index \in [Users -> SUBSET Sessions]
      /\ rows \in [Sessions -> {"none", "open", "revoked"}] /\ req \in [Requests -> Request]
      /\ orphaned \subseteq Sessions
  BY Records DEF Init
<1>5. \A s \in Sessions : cache[s].at = "unused" <=> cache[s].user = None
  BY Records DEF Init
<1>6. \A u \in Users : \A s \in index[u] : cache[s].user = u
  BY DEF Init
<1>7. \A r \in Requests : Wanted(req[r], cache)
  BY Records DEF Init, Wanted
<1> QED BY <1>1, <1>2, <1>3, <1>4, <1>5, <1>6, <1>7 DEF TypeOK, Typed

\* Requests that arrive.
LEMMA ArrivesTyped == ASSUME Typed, NEW r \in Requests, Arrives(r) PROVE Typed' /\ Fading
<1>1. CASE \E u \in Users : Register(r, u)
  <2>1. PICK u \in Users : Register(r, u)
    BY <1>1
  <2> DEFINE x == [Idle EXCEPT !.op = "register", !.at = "insert", !.u = u]
  <2>2. x \in Request /\ x.at = "insert"
    BY DEF Idle, Request, Ops, Absent, User, Roles, Statuses
  <2>3. Becomes(r, x) /\ Spend("register") /\ UNCHANGED stored
    BY <2>1 DEF Register, Asks
  <2> HIDE DEF x
  <2>4. Wanted(x, cache')
    BY <2>2 DEF Wanted
  <2> QED BY <2>2, <2>3, <2>4, StoredStep, BudgetStep, TypedStep DEF Typed
<1>2. CASE \E u \in Users : LoginCounted(r, u) \/ LoginUncounted(r, u)
  <2>1. PICK u \in Users : LoginCounted(r, u) \/ LoginUncounted(r, u)
    BY <1>2
  <2> DEFINE x == [Idle EXCEPT !.op = "login", !.at = "create", !.u = u, !.row = user[u]]
  <2>2. user[u] \in User
    BY DEF Typed, TypeOK
  <2>3. x \in Request /\ x.at = "create" /\ x.u = u
    BY <2>2 DEF Idle, Request, Ops
  <2>4. Becomes(r, x) /\ Spend("login")
    BY <2>1 DEF LoginCounted, LoginUncounted, Login, Asks
  <2>5. StoresOK /\ Fading
    BY <2>1, StoredStep, HitsStep DEF LoginCounted, LoginUncounted, Typed
  <2> HIDE DEF x
  <2>6. Wanted(x, cache')
    BY <2>3 DEF Wanted
  <2> QED BY <2>3, <2>4, <2>5, <2>6, BudgetStep, TypedStep DEF Typed
<1>3. CASE \E u \in Users : RevocarSesiones(r, u)
  <2>1. PICK u \in Users : RevocarSesiones(r, u)
    BY <1>3
  <2> DEFINE x == [Idle EXCEPT !.op = "revoke", !.at = "members", !.u = u, !.found = SessionsOf(u)]
  <2>2. SessionsOf(u) \subseteq Sessions
    BY DEF SessionsOf
  <2>3. x \in Request /\ x.at = "members" /\ x.u = u
    BY <2>2 DEF Idle, Request, Ops, Absent, User, Roles, Statuses
  <2>4. Becomes(r, x) /\ Spend("revoke") /\ UNCHANGED stored
    BY <2>1 DEF RevocarSesiones, Asks
  <2> HIDE DEF x
  <2>5. Wanted(x, cache')
    BY <2>3 DEF Wanted
  <2> QED BY <2>3, <2>4, <2>5, StoredStep, BudgetStep, TypedStep DEF Typed
<1>4. CASE \E u \in Users, c \in Changes : ReadsActual(r, u, c)
  <2>1. PICK u \in Users, c \in Changes : ReadsActual(r, u, c)
    BY <1>4
  <2> DEFINE x == [Idle EXCEPT !.op = "update", !.at = "count", !.u = u, !.change = c, !.row = user[u]]
  <2>2. user[u] \in User
    BY DEF Typed, TypeOK
  <2>3. x \in Request /\ x.at = "count" /\ x.u = u /\ x.change = c
    BY <2>2 DEF Idle, Request, Ops
  <2>4. Becomes(r, x) /\ Spend(c) /\ UNCHANGED stored
    BY <2>1 DEF ReadsActual, Asks
  <2> HIDE DEF x
  <2>5. Wanted(x, cache')
    BY <2>3 DEF Wanted
  <2> QED BY <2>3, <2>4, <2>5, StoredStep, BudgetStep, TypedStep DEF Typed
<1>5. CASE \E s \in Sessions : Logout(r, s)
  <2>1. PICK s \in Sessions : Logout(r, s)
    BY <1>5
  <2> DEFINE x == [Idle EXCEPT !.op = "logout", !.at = "unindex", !.s = s]
  <2>2. x \in Request /\ x.at = "unindex" /\ x.s = s
    BY DEF Idle, Request, Ops, Absent, User, Roles, Statuses
  <2>3. Becomes(r, x) /\ Spend("logout") /\ UNCHANGED stored /\ cache[s].at = "live"
    BY <2>1 DEF Logout, Asks, Live
  <2> HIDE DEF x
  <2>4. Wanted(x, cache')
    BY <2>2, <2>3 DEF Wanted, stored
  <2> QED BY <2>2, <2>3, <2>4, StoredStep, BudgetStep, TypedStep DEF Typed
<1>6. CASE \E s \in Sessions : LookupReads(r, s)
  <2>1. PICK s \in Sessions : LookupReads(r, s)
    BY <1>6
  <2> DEFINE x == [Idle EXCEPT !.op = "lookup", !.at = "touch", !.s = s]
  <2>2. x \in Request /\ x.at = "touch" /\ x.s = s
    BY DEF Idle, Request, Ops, Absent, User, Roles, Statuses
  <2>3. Becomes(r, x) /\ UNCHANGED stored /\ UNCHANGED left /\ cache[s].at = "live"
    BY <2>1 DEF LookupReads, Live
  <2>4. left' \in [Kinds -> Nat]
    BY <2>3 DEF Typed, TypeOK
  <2> HIDE DEF x
  <2>5. Wanted(x, cache')
    BY <2>2, <2>3 DEF Wanted, stored
  <2> QED BY <2>2, <2>3, <2>4, <2>5, StoredStep, TypedStep DEF Typed
<1> QED BY <1>1, <1>2, <1>3, <1>4, <1>5, <1>6 DEF Arrives

\* Steps that fail.
LEMMA FailsTyped == ASSUME Typed, NEW r \in Requests, Fails(r) PROVE Typed' /\ Fading
<1>1. CASE InsertSessionFails(r)
  <2>1. Moves(r, "unindex") /\ Spend("postgres") /\ UNCHANGED stored /\ req[r].at = "row"
    BY <1>1 DEF InsertSessionFails, At
  <2> QED BY <2>1, StoredStep, BudgetStep, MovesStep DEF Typed, Places
<1>2. CASE CreateFails(r) \/ DeleteFails(r) \/ RevokeRowsFails(r) \/ DeleteAllFails(r) \/ Lost(r)
  <2>1. Ends(r) /\ UNCHANGED stored /\ (Spend("redis") \/ Spend("postgres") \/ Spend("lost"))
    BY <1>2 DEF CreateFails, DeleteFails, RevokeRowsFails, DeleteAllFails, Lost
  <2> QED BY <2>1, StoredStep, BudgetStep, EndsStep DEF Typed
<1> QED BY <1>1, <1>2 DEF Fails

\* What happens to a user or a session by itself.
LEMMA ByThemselvesTyped ==
    ASSUME Typed, \/ \E s \in Sessions : Expires(s)
                  \/ \E u \in Users : OfUser(u)
    PROVE  Typed' /\ Fading
<1>1. ASSUME NEW s \in Sessions, Expires(s) PROVE Typed' /\ Fading
  <2> DEFINE x == [cache[s] EXCEPT !.at = "gone"]
  <2>1. cache[s] \in Session /\ cache[s].at = "live"
    BY <1>1 DEF Typed, TypeOK, Expires, Live
  <2>2. x \in Session /\ x.at = "gone" /\ x.user = cache[s].user
    BY <2>1 DEF Session
  <2>3. cache' = [cache EXCEPT ![s] = x] /\ UNCHANGED <<user, index, rows, req, orphaned, left, hits>>
    BY <1>1 DEF Expires
  <2> HIDE DEF x
  <2> QED BY <2>1, <2>2, <2>3, HashStep, TypedStutter DEF Typed, TypeOK
<1>2. ASSUME NEW u \in Users, VerifyEmail(u) \/ TokenExpires(u) PROVE Typed' /\ Fading
  <2>1. user[u] \in User /\ user \in [Users -> User]
    BY DEF Typed, TypeOK
  <2>2. /\ [user[u] EXCEPT !.token = "used", !.verified = TRUE] \in User
        /\ [user[u] EXCEPT !.token = "expired"] \in User
    BY <2>1 DEF User
  <2>3. user' \in [Users -> User] /\ UNCHANGED <<cache, index, rows, req, orphaned, hits>>
    <3>1. CASE VerifyEmail(u)
      <4>1. user' = [user EXCEPT ![u] = [user[u] EXCEPT !.token = "used", !.verified = TRUE]]
        BY <2>1, <3>1 DEF VerifyEmail, User
      <4> QED BY <2>1, <2>2, <3>1, <4>1 DEF VerifyEmail
    <3>2. CASE TokenExpires(u)
      <4>1. user' = [user EXCEPT ![u] = [user[u] EXCEPT !.token = "expired"]]
        BY <2>1, <3>2 DEF TokenExpires, User
      <4> QED BY <2>1, <2>2, <3>2, <4>1 DEF TokenExpires
    <3> QED BY <1>2, <3>1, <3>2
  <2>4. left' \in [Kinds -> Nat]
    BY <1>2, BudgetStep DEF VerifyEmail, TokenExpires, Typed
  <2> QED BY <2>3, <2>4, UsersStep, TypedStutter DEF Typed
<1>3. ASSUME NEW u \in Users, NEW role \in Roles, CrearUsuario(u, role) PROVE Typed' /\ Fading
  <2> DEFINE x == [Absent EXCEPT !.role = role, !.status = "active", !.verified = TRUE]
  <2>1. x \in User
    BY DEF Absent, User, Statuses
  <2>2. user' = Inserted(u, x) /\ UNCHANGED <<cache, index, rows, req, orphaned, hits>> /\ Spend("invite")
    BY <1>3 DEF CrearUsuario
  <2> HIDE DEF x
  <2> QED BY <2>1, <2>2, InsertedUser, UsersStep, BudgetStep, TypedStutter DEF Typed
<1>4. ASSUME NEW u \in Users, LoginRefused(u) \/ NextWindow(u) PROVE Typed' /\ Fading
  <2>1. StoresOK /\ Fading /\ UNCHANGED req
    BY <1>4, HitsStep DEF LoginRefused, NextWindow, Typed
  <2>2. left' \in [Kinds -> Nat]
    BY <1>4, BudgetStep DEF LoginRefused, NextWindow, Typed, TypeOK
  <2> QED BY <2>1, <2>2, TypedStutter
<1>5. ASSUME NEW u \in Users, IndexExpires(u) PROVE Typed' /\ Fading
  <2>1. index' = [index EXCEPT ![u] = {}] /\ UNCHANGED <<user, cache, rows, req, orphaned, left, hits>>
    BY <1>5 DEF IndexExpires
  <2> QED BY <2>1, IndexStep, TypedStutter DEF Typed, TypeOK
<1> QED BY <1>1, <1>2, <1>3, <1>4, <1>5 DEF OfUser

\* Steps of a login, a logout and a lookup.
LEMMA SessionStepsTyped ==
    ASSUME Typed, NEW r \in Requests,
           \/ InsertUser(r) \/ InsertSession(r) \/ Unindex(r) \/ DeleteSession(r) \/ RevokeRows(r)
           \/ Touch(r) \/ \E s \in Sessions : CreateSession(r, s)
    PROVE  Typed' /\ Fading
<1>0. req[r] \in Request /\ left \in [Kinds -> Nat]
  BY DEF Typed, TypeOK
<1>1. CASE InsertUser(r)
  <2> DEFINE x == [Absent EXCEPT !.status = "active", !.known = TRUE, !.token = "open"]
  <2>1. x \in User
    BY DEF Absent, User, Roles, Statuses
  <2>2. user' = Inserted(req[r].u, x) /\ UNCHANGED <<cache, index, rows, orphaned, left, hits>> /\ Ends(r)
    BY <1>1 DEF InsertUser
  <2> HIDE DEF x
  <2> QED BY <1>0, <2>1, <2>2, InsertedUser, UsersStep, EndsStep DEF Typed
<1>2. CASE InsertSession(r)
  <2>1. rows' \in [Sessions -> {"none", "open", "revoked"}]
    BY <1>2 DEF InsertSession, Typed, TypeOK
  <2>2. UNCHANGED <<user, cache, index, orphaned, left, hits>> /\ Ends(r)
    BY <1>2 DEF InsertSession
  <2> QED BY <1>0, <2>1, <2>2, RowsStep, EndsStep DEF Typed
<1>3. CASE Unindex(r)
  <2> DEFINE s == req[r].s
             u == cache[s].user
  <2>1. s \in Sessions /\ req[r].at = "unindex"
    BY <1>3 DEF Unindex, Typed, Wanted
  <2>2. Moves(r, "delete") /\ UNCHANGED <<user, cache, rows, left, hits>>
    BY <1>3 DEF Unindex
  <2>3. CASE Live(s)
    <3>1. index' = [index EXCEPT ![u] = index[u] \ {s}] /\ orphaned' = orphaned \union {s}
      BY <1>3, <2>3 DEF Unindex
    <3>2. orphaned \subseteq orphaned' /\ orphaned' \subseteq Sessions
      BY <2>1, <3>1 DEF Typed, TypeOK
    <3> HIDE DEF u, s
    <3> QED BY <1>0, <2>1, <2>2, <3>1, <3>2, IndexStep, MovesStep DEF Typed, Places
  <2>4. CASE ~Live(s)
    <3>1. UNCHANGED stored
      BY <1>3, <2>2, <2>4 DEF Unindex, stored
    <3> QED BY <1>0, <2>1, <2>2, <3>1, StoredStep, MovesStep DEF Typed, Places
  <2> QED BY <2>3, <2>4
<1>4. CASE DeleteSession(r)
  <2>1. cache' = Deleted({req[r].s}) /\ UNCHANGED <<user, index, rows, orphaned, left, hits>>
    BY <1>4 DEF DeleteSession
  <2>2. Moves(r, "history") \/ Ends(r)
    BY <1>4 DEF DeleteSession
  <2> QED BY <1>0, <2>1, <2>2, DeletedStep, MovesStep, EndsStep DEF Typed, Places
<1>5. CASE RevokeRows(r)
  <2>1. rows' \in [Sessions -> {"none", "open", "revoked"}]
    BY <1>5 DEF RevokeRows, Typed, TypeOK
  <2>2. UNCHANGED <<user, cache, index, orphaned, left, hits>> /\ Ends(r)
    BY <1>5 DEF RevokeRows
  <2> QED BY <1>0, <2>1, <2>2, RowsStep, EndsStep DEF Typed
<1>6. CASE Touch(r)
  <2> DEFINE s == req[r].s
             x == [cache[s] EXCEPT !.at = IF cache[s].at = "live" THEN "live" ELSE "touched"]
  <2>1. s \in Sessions /\ cache[s].at # "unused" /\ cache[s] \in Session
    BY <1>6 DEF Touch, At, Typed, TypeOK, Wanted
  <2>2. x \in Session /\ x.at # "unused" /\ x.user = cache[s].user /\ (x.at = "live" => cache[s].at = "live")
    BY <2>1 DEF Session
  <2>3. cache' = [cache EXCEPT ![s] = x] /\ UNCHANGED <<user, index, rows, orphaned, left, hits>> /\ Ends(r)
    BY <1>6 DEF Touch
  <2> HIDE DEF x, s
  <2> QED BY <1>0, <2>1, <2>2, <2>3, HashStep, EndsStep DEF Typed
<1>7. CASE \E s \in Sessions : CreateSession(r, s)
  <2>1. PICK s \in Sessions : CreateSession(r, s)
    BY <1>7
  <2> DEFINE x == [req[r] EXCEPT !.at = "row", !.s = s]
  <2>2. x \in Request /\ x.at = "row" /\ x.s = s
    BY <1>0 DEF Request
  <2>3. Becomes(r, x) /\ UNCHANGED left
    BY <2>1 DEF CreateSession
  <2> HIDE DEF x
  <2>4. StoresOK /\ Fading /\ cache'[s].at = "live"
    BY <2>1, SessionStep
  <2>5. Wanted(x, cache')
    BY <2>2, <2>4 DEF Wanted
  <2> QED BY <1>0, <2>2, <2>3, <2>4, <2>5, TypedStep
<1> QED BY <1>1, <1>2, <1>3, <1>4, <1>5, <1>6, <1>7

\* Steps of a change of a user and of a revocation.
LEMMA ChangeStepsTyped ==
    ASSUME Typed, NEW r \in Requests,
           \/ CountBegins(r) \/ Decides(r) \/ UpdateUser(r) \/ DeadlockVictim(r)
           \/ \E a \in Users : LocksOther(r, a)
           \/ Members(r) \/ DeleteKeys(r) \/ DeleteIndex(r)
    PROVE  Typed' /\ Fading
<1>0. req[r] \in Request /\ left \in [Kinds -> Nat]
  BY DEF Typed, TypeOK
<1>1. CASE CountBegins(r)
  <2> DEFINE x == [req[r] EXCEPT !.at = "lock", !.todo = {a \in Users \ {req[r].u} : ActiveAdmin(a)}]
  <2>1. x \in Request /\ x.at = "lock" /\ x.u = req[r].u /\ x.change = req[r].change
    BY <1>0 DEF Request
  <2>2. Becomes(r, x) /\ UNCHANGED <<stored, left>> /\ req[r].at = "count"
    BY <1>1 DEF CountBegins, At
  <2> HIDE DEF x
  <2>3. Wanted(x, cache')
    BY <2>1, <2>2 DEF Wanted, Typed
  <2> QED BY <1>0, <2>1, <2>2, <2>3, StoredStep, TypedStep DEF Typed
<1>2. CASE Decides(r)
  <2>1. (Ends(r) \/ Moves(r, "update")) /\ UNCHANGED <<stored, left>> /\ req[r].at = "lock"
    BY <1>2 DEF Decides, At
  <2> QED BY <1>0, <2>1, StoredStep, EndsStep, MovesStep DEF Typed, Places
<1>3. CASE UpdateUser(r)
  <2> DEFINE u == req[r].u
             n == Changed(user[u], req[r].change)
             x == [req[r] EXCEPT !.at = "members", !.held = {}, !.found = SessionsOf(u)]
  <2>1. user' \in [Users -> User]
    <3>1. user' = [user EXCEPT ![u] = n] /\ user \in [Users -> User]
      BY <1>3 DEF UpdateUser, Typed, TypeOK
    <3>2. ASSUME u \in Users PROVE n \in User
      <4>1. user[u] \in User /\ None \notin Roles /\ None \notin Statuses
        BY <3>2, AccountsAssumption DEF Typed, TypeOK
      <4>2. /\ Change[req[r].change].role \in Roles \union {None}
            /\ Change[req[r].change].status \in Statuses \union {None}
        <5>1. req[r].change \in Changes
          BY <1>3 DEF UpdateUser, At, Typed, Wanted
        <5> QED BY <5>1, AccountsAssumption
      <4>3. /\ Coalesce(Change[req[r].change].role, user[u].role) \in Roles
            /\ Coalesce(Change[req[r].change].status, user[u].status) \in Statuses \union {"absent"}
        BY <4>1, <4>2 DEF Coalesce, User
      <4> QED BY <4>1, <4>3 DEF Changed, User
    <3> HIDE DEF n, u
    <3> QED BY <3>1, <3>2
  <2>2. UNCHANGED <<cache, index, rows, orphaned, left, hits>> /\ (Becomes(r, x) \/ Ends(r))
    BY <1>3 DEF UpdateUser
  <2>3. SessionsOf(u) \subseteq Sessions
    BY DEF SessionsOf
  <2>4. x \in Request /\ x.at = "members" /\ x.u = u
    BY <1>0, <2>3 DEF Request
  <2>5. StoresOK /\ Fading
    BY <2>1, <2>2, UsersStep DEF Typed
  <2>6. ASSUME Becomes(r, x) PROVE Typed'
    <3>1. u \in Users
      BY <1>3 DEF UpdateUser, At, Typed, Wanted
    <3> HIDE DEF x, u
    <3>2. Wanted(x, cache')
      BY <2>4, <3>1 DEF Wanted
    <3> QED BY <1>0, <2>2, <2>4, <2>5, <2>6, <3>2, TypedStep
  <2> QED BY <1>0, <2>2, <2>5, <2>6, EndsStep
<1>4. CASE DeadlockVictim(r)
  BY <1>0, <1>4, StoredStep, EndsStep DEF DeadlockVictim, Typed
<1>5. CASE \E a \in Users : LocksOther(r, a)
  <2>1. PICK a \in Users : LocksOther(r, a)
    BY <1>5
  <2> DEFINE x == [req[r] EXCEPT !.todo = req[r].todo \ {a}, !.held = req[r].held \union {a}]
  <2>2. /\ x \in Request /\ x.at = "lock" /\ x.u = req[r].u /\ x.change = req[r].change
        /\ req[r].at = "lock"
    BY <1>0, <2>1 DEF Request, LocksOther, At
  <2>3. Becomes(r, x) /\ UNCHANGED <<stored, left>>
    BY <2>1 DEF LocksOther
  <2> HIDE DEF x
  <2>4. Wanted(x, cache')
    BY <2>2 DEF Wanted, Typed
  <2> QED BY <1>0, <2>2, <2>3, <2>4, StoredStep, TypedStep DEF Typed
<1>6. CASE Members(r)
  <2> DEFINE u == req[r].u
             x == [req[r] EXCEPT !.at = "keys", !.keys = index[u]]
  <2>1. u \in Users /\ index[u] \subseteq Sessions
    BY <1>6 DEF Members, Typed, TypeOK, Wanted
  <2>2. x \in Request /\ x.at = "keys" /\ x.u = u
    BY <1>0, <2>1 DEF Request
  <2>3. Becomes(r, x) /\ UNCHANGED <<stored, left>>
    BY <1>6 DEF Members
  <2> HIDE DEF x, u
  <2>4. Wanted(x, cache')
    BY <2>1, <2>2 DEF Wanted
  <2> QED BY <1>0, <2>2, <2>3, <2>4, StoredStep, TypedStep DEF Typed
<1>7. CASE DeleteKeys(r)
  <2>1. /\ cache' = Deleted(req[r].keys) /\ UNCHANGED <<user, index, rows, orphaned, left, hits>>
        /\ Moves(r, "index") /\ req[r].at = "keys"
    BY <1>7 DEF DeleteKeys
  <2> QED BY <1>0, <2>1, DeletedStep, MovesStep DEF Typed, Places
<1>8. CASE DeleteIndex(r)
  <2>1. req[r].u \in Users /\ index \in [Users -> SUBSET Sessions] /\ orphaned \subseteq Sessions
    BY <1>8 DEF DeleteIndex, Typed, TypeOK, Wanted
  <2>2. /\ orphaned' = orphaned \union {s \in index[req[r].u] : Live(s)}
        /\ index' = [index EXCEPT ![req[r].u] = {}] /\ UNCHANGED <<user, cache, rows, left, hits>>
        /\ Moves(r, "history") \/ Ends(r)
    BY <1>8 DEF DeleteIndex
  <2>3. orphaned \subseteq orphaned' /\ orphaned' \subseteq Sessions
    BY <2>1, <2>2
  <2> QED BY <1>0, <2>2, <2>3, IndexStep, MovesStep, EndsStep DEF Typed, Places
<1> QED BY <1>1, <1>2, <1>3, <1>4, <1>5, <1>6, <1>7, <1>8

\* Every step keeps the types and undoes nothing of what only fades.
LEMMA TypedInductive == Typed /\ [Next]_vars => Typed' /\ Fading
<1> SUFFICES ASSUME Typed, [Next]_vars PROVE Typed' /\ Fading
  OBVIOUS
<1>1. ASSUME NEW r \in Requests, Steps(r) PROVE Typed' /\ Fading
  BY <1>1, SessionStepsTyped, ChangeStepsTyped DEF Steps
<1>2. CASE UNCHANGED vars
  <2>1. UNCHANGED stored /\ UNCHANGED req /\ left' \in [Kinds -> Nat]
    BY <1>2 DEF vars, stored, Typed, TypeOK
  <2> QED BY <2>1, StoredStep, TypedStutter DEF Typed
<1> QED BY <1>1, <1>2, ArrivesTyped, FailsTyped, ByThemselvesTyped DEF Next

\* The types, for every behaviour.
LEMMA TypedHolds == Spec => []Typed
BY TypedInit, TypedInductive, PTL DEF Spec

\* Every variable keeps its type, and an index lists sessions of its own user.
THEOREM TypeCorrect == Spec => []TypeOK
<1>1. Typed => TypeOK
  BY DEF Typed
<1> QED BY <1>1, TypedHolds, PTL

\* A session that ended never opens a route again, however late the lookups that
\* write its last activity (Lookup, Delete).
THEOREM EndedSessionsStayEnded == Spec => ClosedStaysClosed
<1>1. Typed /\ [Next]_vars
      => [\A s \in Sessions : cache[s].at \in {"touched", "gone"} => cache'[s].at # "live"]_vars
  BY TypedInductive DEF Fading
<1> QED BY <1>1, TypedHolds, PTL DEF Spec, ClosedStaysClosed

-----------------------------------------------------------------------------
(* Revocations. *)

\* A session that is live is in its user's index, unless it was dropped from it; what
\* a revocation found is in what it is about to delete, and then deleted.
Indexed == \A s \in Sessions : Live(s) => s \in orphaned \/ s \in index[cache[s].user]

Found(x, c, o) ==
    x.at \in {"members", "keys", "index"} =>
        \A s \in x.found \intersect Sessions :
            /\ c[s].at # "unused" /\ c[s].user = x.u
            /\ x.at = "keys" /\ c[s].at = "live" => s \in x.keys \/ s \in o
            /\ x.at = "index" /\ c[s].at = "live" => s \in o

Covered == Indexed /\ \A r \in Requests : Found(req[r], cache, orphaned)

\* What a revocation found stays covered.
LEMMA FoundFades ==
    ASSUME Fading, NEW x, Found(x, cache, orphaned)
    PROVE  Found(x, cache', orphaned')
BY DEF Found, Fading

\* One request changes: it is enough to look at that one.
LEMMA FoundStep ==
    ASSUME Typed, Covered, Fading, NEW r \in Requests, NEW x, Becomes(r, x),
           Found(x, cache', orphaned')
    PROVE  \A q \in Requests : Found(req'[q], cache', orphaned')
<1> SUFFICES ASSUME NEW q \in Requests PROVE Found(req'[q], cache', orphaned')
  OBVIOUS
<1>1. req'[q] = IF q = r THEN x ELSE req[q]
  BY DEF Typed, TypeOK, Becomes
<1>2. CASE q = r
  BY <1>1, <1>2
<1>3. CASE q # r
  <2>1. Found(req[q], cache, orphaned)
    BY DEF Covered
  <2> QED BY <1>1, <1>3, <2>1, FoundFades
<1> QED BY <1>2, <1>3

\* Nothing is created, and what leaves an index is dropped from it.
LEMMA IndexedStep ==
    ASSUME Indexed, Fading,
           \A s \in Sessions : cache[s].at = "unused" => cache'[s].at = "unused",
           \A s \in Sessions : Live(s) /\ s \in index[cache[s].user] =>
               cache'[s].at # "live" \/ s \in orphaned' \/ s \in index'[cache[s].user]
    PROVE  Indexed'
<1> SUFFICES ASSUME NEW s \in Sessions, cache'[s].at = "live"
             PROVE  s \in orphaned' \/ s \in index'[cache'[s].user]
  BY DEF Indexed, Live
<1>1. cache[s].at # "unused" /\ cache[s].at = "live" /\ cache'[s].user = cache[s].user
  BY DEF Fading
<1> QED BY <1>1 DEF Indexed, Live, Fading

\* Only a login makes a session.
LEMMA Unborn ==
    ASSUME Typed, [Next]_vars, ~ \E r \in Requests, s \in Sessions : CreateSession(r, s)
    PROVE  \A s \in Sessions : cache[s].at = "unused" => cache'[s].at = "unused"
<1>0. cache \in [Sessions -> Session]
  BY DEF Typed, TypeOK
<1>1. ASSUME NEW r \in Requests, Arrives(r) \/ Fails(r) PROVE UNCHANGED cache
  BY <1>1 DEF Arrives, Fails, Register, LoginCounted, LoginUncounted, RevocarSesiones, ReadsActual,
              Logout, LookupReads, CreateFails, InsertSessionFails, DeleteFails, RevokeRowsFails,
              DeleteAllFails, Lost, stored
<1>2. ASSUME NEW u \in Users, OfUser(u) PROVE UNCHANGED cache
  BY <1>2 DEF OfUser, VerifyEmail, TokenExpires, LoginRefused, IndexExpires, NextWindow, CrearUsuario
<1>3. ASSUME NEW r \in Requests, Steps(r), ~(Touch(r) \/ DeleteSession(r) \/ DeleteKeys(r))
      PROVE  UNCHANGED cache
  BY <1>3 DEF Steps, InsertUser, InsertSession, Unindex, RevokeRows, CountBegins, Decides, UpdateUser,
              DeadlockVictim, LocksOther, Members, DeleteIndex, stored
<1>4. ASSUME NEW r \in Requests, DeleteSession(r) \/ DeleteKeys(r)
      PROVE  \A s \in Sessions : cache[s].at = "unused" => cache'[s].at = "unused"
  BY <1>4 DEF DeleteSession, DeleteKeys, Deleted
<1>5. ASSUME NEW r \in Requests, Touch(r)
      PROVE  \A s \in Sessions : cache[s].at = "unused" => cache'[s].at = "unused"
  <2>1. req[r].s \in Sessions /\ cache[req[r].s].at # "unused"
    BY <1>5 DEF Touch, At, Typed, Wanted
  <2>2. \A s \in Sessions \ {req[r].s} : cache'[s] = cache[s]
    BY <1>0, <1>5 DEF Touch
  <2> QED BY <2>1, <2>2
<1>6. ASSUME NEW o \in Sessions, Expires(o)
      PROVE  \A s \in Sessions : cache[s].at = "unused" => cache'[s].at = "unused"
  <2>1. cache[o].at = "live" /\ \A s \in Sessions \ {o} : cache'[s] = cache[s]
    BY <1>0, <1>6 DEF Expires, Live
  <2> QED BY <2>1
<1>7. CASE UNCHANGED vars
  BY <1>7 DEF vars
<1> QED BY <1>1, <1>2, <1>3, <1>4, <1>5, <1>6, <1>7 DEF Next

\* Every step keeps each live session where a revocation looks for it, or among those
\* that left the index before they were deleted.
LEMMA IndexedInductive ==
    ASSUME Typed, Indexed, [Next]_vars
    PROVE  Indexed'
<1>0. Fading /\ index \in [Users -> SUBSET Sessions]
  BY TypedInductive DEF Typed, TypeOK
<1>1. ASSUME NEW r \in Requests, NEW s \in Sessions, CreateSession(r, s) PROVE Indexed'
  <2>1. /\ cache[s].at = "unused" /\ cache'[s].user = req[r].u /\ s \in index'[req[r].u]
        /\ \A o \in Sessions \ {s} : cache'[o] = cache[o]
        /\ \A u \in Users : index[u] \subseteq index'[u]
    BY <1>1, SessionStep
  <2>2. ASSUME NEW o \in Sessions, o # s, cache'[o].at = "live"
        PROVE  o \in orphaned' \/ o \in index'[cache'[o].user]
    <3>1. cache[o].at = "live" /\ cache'[o] = cache[o] /\ cache[o] \in Session
      BY <2>1, <2>2 DEF Typed, TypeOK
    <3>2. cache[o].user \in Users
      BY <3>1 DEF Session, Typed, TypeOK
    <3> QED BY <1>0, <2>1, <3>1, <3>2 DEF Indexed, Live, Fading
  <2> QED BY <2>1, <2>2 DEF Indexed, Live
<1>2. ASSUME ~ \E r \in Requests, s \in Sessions : CreateSession(r, s),
             \A s \in Sessions : Live(s) /\ s \in index[cache[s].user] =>
                 cache'[s].at # "live" \/ s \in orphaned' \/ s \in index'[cache[s].user]
      PROVE  Indexed'
  BY <1>0, <1>2, Unborn, IndexedStep
<1>3. ASSUME ~ \E r \in Requests, s \in Sessions : CreateSession(r, s), UNCHANGED index
      PROVE  Indexed'
  BY <1>2, <1>3
<1>4. ASSUME NEW r \in Requests, Arrives(r) \/ Fails(r)
      PROVE  UNCHANGED index
  BY <1>4 DEF Arrives, Fails, Register, LoginCounted, LoginUncounted, RevocarSesiones, ReadsActual,
              Logout, LookupReads, CreateFails, InsertSessionFails, DeleteFails, RevokeRowsFails,
              DeleteAllFails, Lost, stored
<1>5. ASSUME NEW u \in Users, OfUser(u), ~IndexExpires(u) PROVE UNCHANGED index
  BY <1>5 DEF OfUser, VerifyEmail, TokenExpires, LoginRefused, NextWindow, CrearUsuario
<1>6. ASSUME NEW r \in Requests, Steps(r), ~(Unindex(r) \/ DeleteIndex(r)),
             ~ \E s \in Sessions : CreateSession(r, s)
      PROVE  UNCHANGED index
  BY <1>6 DEF Steps, InsertUser, InsertSession, RevokeRows, CountBegins, Decides, UpdateUser, Touch,
              DeadlockVictim, LocksOther, Members, DeleteKeys, DeleteSession, stored
<1>7. ASSUME NEW s \in Sessions, Expires(s) PROVE UNCHANGED index
  BY <1>7 DEF Expires
\* The three steps by which a session leaves an index.
<1>8. ASSUME NEW r \in Requests, Unindex(r), NEW s \in Sessions, Live(s), s \in index[cache[s].user]
      PROVE  s \in orphaned' \/ s \in index'[cache[s].user]
  <2> DEFINE d == req[r].s
  <2>1. CASE Live(d)
    <3>1. index' = [index EXCEPT ![cache[d].user] = index[cache[d].user] \ {d}]
             /\ orphaned' = orphaned \union {d}
      BY <1>8, <2>1 DEF Unindex
    <3> HIDE DEF d
    <3>2. CASE s = d
      BY <3>1, <3>2
    <3>3. CASE s # d
      <4>1. cache[s].user \in Users
        BY <1>8 DEF Typed, TypeOK, Session, Live
      <4> QED BY <1>0, <1>8, <3>1, <3>3, <4>1
    <3> QED BY <3>2, <3>3
  <2>2. CASE ~Live(d)
    BY <1>8, <2>2 DEF Unindex
  <2> QED BY <2>1, <2>2
<1>9. ASSUME NEW r \in Requests, DeleteIndex(r), NEW s \in Sessions, Live(s), s \in index[cache[s].user]
      PROVE  s \in orphaned' \/ s \in index'[cache[s].user]
  <2>1. /\ orphaned' = orphaned \union {o \in index[req[r].u] : Live(o)}
        /\ index' = [index EXCEPT ![req[r].u] = {}]
    BY <1>9 DEF DeleteIndex
  <2>2. cache[s].user \in Users
    BY <1>9 DEF Typed, TypeOK, Session, Live
  <2> QED BY <1>0, <1>9, <2>1, <2>2
<1>10. ASSUME NEW u \in Users, IndexExpires(u), NEW s \in Sessions, Live(s), s \in index[cache[s].user]
       PROVE  s \in index'[cache[s].user]
  <2>1. index' = [index EXCEPT ![u] = {}] /\ SessionsOf(u) = {}
    BY <1>10 DEF IndexExpires
  <2>2. cache[s].user # u
    BY <1>10, <2>1 DEF SessionsOf
  <2>3. cache[s].user \in Users
    BY <1>10 DEF Typed, TypeOK, Session, Live
  <2> QED BY <1>0, <1>10, <2>1, <2>2, <2>3
<1>11. CASE \E r \in Requests, s \in Sessions : CreateSession(r, s)
  BY <1>1, <1>11
<1>12. CASE ~ \E r \in Requests, s \in Sessions : CreateSession(r, s)
  <2>1. CASE UNCHANGED vars
    BY <1>3, <1>12, <2>1 DEF vars
  <2>2. CASE Next
    BY <1>2, <1>3, <1>4, <1>5, <1>6, <1>7, <1>8, <1>9, <1>10, <1>12, <2>2 DEF Next
  <2> QED BY <2>1, <2>2
<1> QED BY <1>11, <1>12

\* Every step keeps what each revocation has found in view of what is live.
LEMMA CoveredInductive ==
    ASSUME Typed, Covered, [Next]_vars
    PROVE  Covered'
<1>0. Fading /\ Indexed' /\ Typed'
  BY TypedInductive, IndexedInductive DEF Covered
<1>1. ASSUME NEW r \in Requests, NEW x, Becomes(r, x), x.at \notin {"members", "keys", "index"}
      PROVE  Covered'
  <2>1. Found(x, cache', orphaned')
    BY <1>1 DEF Found
  <2> QED BY <1>0, <1>1, <2>1, FoundStep DEF Covered
<1>2. ASSUME UNCHANGED req PROVE Covered'
  <2>1. \A q \in Requests : Found(req[q], cache', orphaned')
    BY <1>0, FoundFades DEF Covered
  <2> QED BY <1>0, <1>2, <2>1 DEF Covered
<1>3. ASSUME NEW r \in Requests, Ends(r) PROVE Covered'
  BY <1>1, <1>3, Records DEF Ends
<1>4. ASSUME NEW r \in Requests, NEW at \in Places \ {"members", "keys", "index"}, Moves(r, at)
      PROVE  Covered'
  <2>1. [req[r] EXCEPT !.at = at].at = at
    BY Moved
  <2> QED BY <1>1, <1>4, <2>1 DEF Moves
\* A revocation begins,
<1>5. ASSUME NEW r \in Requests, NEW u \in Users, RevocarSesiones(r, u) PROVE Covered'
  <2> DEFINE x == [Idle EXCEPT !.op = "revoke", !.at = "members", !.u = u, !.found = SessionsOf(u)]
  <2>1. x.at = "members" /\ x.u = u /\ x.found = SessionsOf(u)
    BY DEF Idle
  <2>2. Becomes(r, x) /\ UNCHANGED cache
    BY <1>5 DEF RevocarSesiones, Asks, stored
  <2> HIDE DEF x
  <2>3. Found(x, cache', orphaned')
    BY <2>1, <2>2 DEF Found, SessionsOf, Live
  <2> QED BY <1>0, <2>2, <2>3, FoundStep DEF Covered
\* or follows a change of a user;
<1>6. ASSUME NEW r \in Requests, UpdateUser(r) PROVE Covered'
  <2> DEFINE u == req[r].u
             x == [req[r] EXCEPT !.at = "members", !.held = {}, !.found = SessionsOf(u)]
  <2>1. x.at = "members" /\ x.u = u /\ x.found = SessionsOf(u)
    BY DEF Typed, TypeOK, Request
  <2>2. (Becomes(r, x) \/ Ends(r)) /\ UNCHANGED cache
    BY <1>6 DEF UpdateUser
  <2> HIDE DEF x, u
  <2>3. Found(x, cache', orphaned')
    BY <2>1, <2>2 DEF Found, SessionsOf, Live
  <2> QED BY <1>0, <1>3, <2>2, <2>3, FoundStep DEF Covered
\* reads the index;
<1>7. ASSUME NEW r \in Requests, Members(r) PROVE Covered'
  <2> DEFINE x == [req[r] EXCEPT !.at = "keys", !.keys = index[req[r].u]]
  <2>1. x.at = "keys" /\ x.u = req[r].u /\ x.found = req[r].found /\ x.keys = index[req[r].u]
    BY DEF Typed, TypeOK, Request
  <2>2. Becomes(r, x) /\ UNCHANGED <<cache, orphaned>> /\ req[r].at = "members"
    BY <1>7 DEF Members, stored
  <2>3. Found(req[r], cache, orphaned)
    BY DEF Covered
  <2> HIDE DEF x
  <2>4. Found(x, cache', orphaned')
    BY <2>1, <2>2, <2>3 DEF Found, Covered, Indexed, Live
  <2> QED BY <1>0, <2>2, <2>4, FoundStep DEF Covered
\* and deletes what it read there.
<1>8. ASSUME NEW r \in Requests, DeleteKeys(r) PROVE Covered'
  <2> DEFINE x == [req[r] EXCEPT !.at = "index"]
  <2>1. x.at = "index" /\ x.u = req[r].u /\ x.found = req[r].found
    BY Moved DEF Places
  <2>2. Becomes(r, x) /\ cache' = Deleted(req[r].keys) /\ UNCHANGED orphaned /\ req[r].at = "keys"
    BY <1>8 DEF DeleteKeys, Moves
  <2>3. Found(req[r], cache, orphaned)
    BY DEF Covered
  <2> HIDE DEF x
  <2>4. ASSUME NEW s \in Sessions, s \in req[r].keys PROVE cache'[s].at # "live"
    <3>1. cache[s] \in Session
      BY DEF Typed, TypeOK
    <3> QED BY <2>2, <2>4, <3>1 DEF Deleted, Session
  <2>5. Found(x, cache', orphaned')
    BY <1>0, <2>1, <2>2, <2>3, <2>4 DEF Found, Fading
  <2> QED BY <1>0, <2>2, <2>5, FoundStep DEF Covered
\* The rest is somewhere else when the step is over.
<1>9. ASSUME NEW r \in Requests, Arrives(r), ~ \E u \in Users : RevocarSesiones(r, u) PROVE Covered'
  <2>1. ASSUME NEW x, Becomes(r, x), x.at \in {"insert", "create", "count", "unindex", "touch"} PROVE Covered'
    BY <1>1, <2>1
  <2>2. ASSUME NEW u \in Users, Register(r, u) \/ LoginCounted(r, u) \/ LoginUncounted(r, u) PROVE Covered'
    <3> DEFINE x == [Idle EXCEPT !.op = "register", !.at = "insert", !.u = u]
               y == [Idle EXCEPT !.op = "login", !.at = "create", !.u = u, !.row = user[u]]
    <3>1. x.at = "insert" /\ y.at = "create" /\ (Becomes(r, x) \/ Becomes(r, y))
      BY <2>2 DEF Idle, Register, LoginCounted, LoginUncounted, Login, Asks
    <3> HIDE DEF x, y
    <3> QED BY <2>1, <3>1
  <2>3. ASSUME NEW u \in Users, NEW c \in Changes, ReadsActual(r, u, c) PROVE Covered'
    <3> DEFINE x == [Idle EXCEPT !.op = "update", !.at = "count", !.u = u, !.change = c, !.row = user[u]]
    <3>1. x.at = "count" /\ Becomes(r, x)
      BY <2>3 DEF Idle, ReadsActual, Asks
    <3> HIDE DEF x
    <3> QED BY <2>1, <3>1
  <2>4. ASSUME NEW s \in Sessions, Logout(r, s) \/ LookupReads(r, s) PROVE Covered'
    <3> DEFINE x == [Idle EXCEPT !.op = "logout", !.at = "unindex", !.s = s]
               y == [Idle EXCEPT !.op = "lookup", !.at = "touch", !.s = s]
    <3>1. x.at = "unindex" /\ y.at = "touch" /\ (Becomes(r, x) \/ Becomes(r, y))
      BY <2>4 DEF Idle, Logout, LookupReads, Asks
    <3> HIDE DEF x, y
    <3> QED BY <2>1, <3>1
  <2> QED BY <1>9, <2>2, <2>3, <2>4 DEF Arrives
<1>10. ASSUME NEW r \in Requests, Fails(r) PROVE Covered'
  <2>1. Ends(r) \/ Moves(r, "unindex")
    BY <1>10 DEF Fails, InsertSessionFails, CreateFails, DeleteFails, RevokeRowsFails, DeleteAllFails, Lost
  <2> QED BY <1>3, <1>4, <2>1 DEF Places
<1>11. ASSUME NEW r \in Requests, InsertUser(r) \/ InsertSession(r) \/ RevokeRows(r) \/ Touch(r)
                                  \/ Unindex(r) \/ DeleteSession(r) \/ Decides(r) \/ DeadlockVictim(r)
                                  \/ DeleteIndex(r)
       PROVE  Covered'
  <2>1. Ends(r) \/ Moves(r, "delete") \/ Moves(r, "history") \/ Moves(r, "update")
    BY <1>11 DEF InsertUser, InsertSession, RevokeRows, Touch, Unindex, DeleteSession, Decides,
                 DeadlockVictim, DeleteIndex
  <2> QED BY <1>3, <1>4, <2>1 DEF Places
<1>12. ASSUME NEW r \in Requests, NEW s \in Sessions, CreateSession(r, s) PROVE Covered'
  <2>1. [req[r] EXCEPT !.at = "row", !.s = s].at = "row"
    BY DEF Typed, TypeOK, Request
  <2> QED BY <1>1, <1>12, <2>1 DEF CreateSession
<1>13. ASSUME NEW r \in Requests, CountBegins(r) PROVE Covered'
  <2> DEFINE x == [req[r] EXCEPT !.at = "lock", !.todo = {a \in Users \ {req[r].u} : ActiveAdmin(a)}]
  <2>1. x.at = "lock" /\ Becomes(r, x)
    BY <1>13 DEF CountBegins, Typed, TypeOK, Request
  <2> HIDE DEF x
  <2> QED BY <1>1, <2>1
<1>14. ASSUME NEW r \in Requests, NEW a \in Users, LocksOther(r, a) PROVE Covered'
  <2> DEFINE x == [req[r] EXCEPT !.todo = req[r].todo \ {a}, !.held = req[r].held \union {a}]
  <2>1. x.at = "lock" /\ Becomes(r, x)
    BY <1>14 DEF LocksOther, At, Typed, TypeOK, Request
  <2> HIDE DEF x
  <2> QED BY <1>1, <2>1
<1>15. ASSUME NEW r \in Requests, Steps(r) PROVE Covered'
  BY <1>6, <1>7, <1>8, <1>11, <1>12, <1>13, <1>14, <1>15 DEF Steps
<1>16. CASE (\E s \in Sessions : Expires(s)) \/ (\E u \in Users : OfUser(u)) \/ UNCHANGED vars
  <2>1. UNCHANGED req
    BY <1>16 DEF Expires, OfUser, VerifyEmail, TokenExpires, LoginRefused, IndexExpires, NextWindow,
                 CrearUsuario, vars
  <2> QED BY <1>2, <2>1
<1> QED BY <1>5, <1>9, <1>10, <1>15, <1>16 DEF Next

\* Index and revocations, for every behaviour.
LEMMA CoveredHolds == Spec => []Covered
<1>1. Init => Covered
  BY Records DEF Init, Covered, Indexed, Found, Live
<1>2. Typed /\ Covered /\ [Next]_vars => Covered'
  BY CoveredInductive
<1> QED BY <1>1, <1>2, TypedHolds, PTL DEF Spec

\* A revocation that reaches its end has cut every session that was open when it began,
\* but for one that something else had dropped from the index (DeleteAllForUser).
THEOREM RevocationsCut == Spec => RevocationCuts
<1>1. Typed /\ Covered /\ [Next]_vars
      => [\A r \in Requests :
            req[r].at = "index" /\ left' = left /\ req'[r].at # "index" =>
                \A s \in req[r].found : cache'[s].at = "live" => s \in orphaned]_vars
  <2> SUFFICES ASSUME Typed, Covered, [Next]_vars, NEW r \in Requests, req[r].at = "index",
                      NEW s \in req[r].found, cache'[s].at = "live"
               PROVE  s \in orphaned
    OBVIOUS
  <2>1. s \in Sessions /\ Found(req[r], cache, orphaned)
    BY DEF Typed, TypeOK, Request, Covered
  <2>2. cache[s].at = "live"
    BY <2>1, TypedInductive DEF Found, Fading
  <2> QED BY <2>1, <2>2 DEF Found
<1> QED BY <1>1, TypedHolds, CoveredHolds, PTL DEF Spec, RevocationCuts

-----------------------------------------------------------------------------
(* The last administrator. *)

\* Whoever it is asked for is no active administrator afterwards.
Lowers(c) == \/ Change[c].role # None /\ Change[c].role # "admin"
             \/ Change[c].status # None /\ Change[c].status # "active"

\* Without it a user read before becoming an administrator, or active again, escapes
\* the count (ActualizarUsuario looks at what it read).
NobodyBecomesAdmin == \A start \in Starts : /\ \A c \in Changes : Lowers(c) \/ start.left[c] = 0
                                            /\ start.seeded # {}

\* What a change knows of the user it changes, and of the administrators it has locked.
Guarded(x, t) ==
    /\ x.at \in {"count", "lock", "update"} =>
         /\ x.u \in Users /\ t[x.u].status # "absent" /\ x.change \in Changes /\ Lowers(x.change)
         /\ IsActiveAdmin(t[x.u]) => IsActiveAdmin(x.row)
         /\ x.u \notin x.held
    /\ x.at = "lock" => x.u \notin x.todo
    /\ x.at = "update" /\ IsActiveAdmin(x.row) =>
         \E a \in x.held \intersect Users : IsActiveAdmin(t[a])

Watched ==
    /\ \A c \in Changes : Lowers(c) \/ left[c] = 0
    /\ \E u \in Users : IsActiveAdmin(user[u])
    /\ \A r \in Requests : Guarded(req[r], user)

\* What ran out stays so.
LEMMA NoMoreIsLeft ==
    ASSUME Typed, left' = left \/ \E k \in Kinds : Spend(k), NEW c \in Changes, left[c] = 0
    PROVE  left'[c] = 0
<1>1. c \in Kinds /\ left \in [Kinds -> Nat]
  BY DEF Kinds, Typed, TypeOK
<1> QED BY <1>1 DEF Spend

\* Steps that leave users as they are.
LEMMA WatchedStep ==
    ASSUME Typed, Watched, UNCHANGED user, left' = left \/ \E k \in Kinds : Spend(k),
           NEW r \in Requests, NEW x, Becomes(r, x), Guarded(x, user)
    PROVE  Watched'
<1>1. \A c \in Changes : Lowers(c) \/ left'[c] = 0
  BY NoMoreIsLeft DEF Watched
<1>2. \A q \in Requests : req'[q] = IF q = r THEN x ELSE req[q]
  BY DEF Becomes, Typed, TypeOK
<1>3. ASSUME NEW q \in Requests PROVE Guarded(req'[q], user')
  BY <1>2 DEF Watched
<1> QED BY <1>1, <1>3 DEF Watched, Guarded, IsActiveAdmin

\* No user comes to be an administrator who was known before, and none ceases to be one.
Tame(t, n) ==
    \A u \in Users : t[u].status # "absent" =>
        n[u].status # "absent" /\ (IsActiveAdmin(n[u]) => IsActiveAdmin(t[u]))
Stays(t, n) == \A u \in Users : IsActiveAdmin(t[u]) => IsActiveAdmin(n[u])

\* What a change knows outlasts a step that makes no administrator of a known user and
\* unmakes none.
LEMMA GuardedFades ==
    ASSUME NEW x, NEW t, NEW n, Guarded(x, t), Tame(t, n), Stays(t, n)
    PROVE  Guarded(x, n)
BY DEF Guarded, Tame, Stays

\* Users change, but not the administrators; one request may answer.
LEMMA TameStep ==
    ASSUME Typed, Watched, Tame(user, user'), Stays(user, user'), left' = left \/ \E k \in Kinds : Spend(k),
           UNCHANGED req \/ \E r \in Requests : Ends(r)
    PROVE  Watched'
<1>1. \A c \in Changes : Lowers(c) \/ left'[c] = 0
  BY NoMoreIsLeft DEF Watched
<1>2. ASSUME NEW q \in Requests PROVE Guarded(req'[q], user')
  <2>1. Guarded(req[q], user')
    <3>1. Guarded(req[q], user)
      BY DEF Watched
    <3> QED BY <3>1, GuardedFades
  <2>2. Guarded(Idle, user')
    BY Records DEF Guarded
  <2>3. req'[q] = req[q] \/ req'[q] = Idle
    BY DEF Ends, Becomes, Typed, TypeOK
  <2> QED BY <2>1, <2>2, <2>3
<1> QED BY <1>1, <1>2 DEF Watched, Stays

\* Inserting a user neither makes an administrator of a known one nor unmakes one.
LEMMA InsertedIsTame ==
    ASSUME NEW u, NEW x, user' = Inserted(u, x), user \in [Users -> User]
    PROVE  Tame(user, user') /\ Stays(user, user')
BY DEF Inserted, Tame, Stays, IsActiveAdmin

\* Who loses the role, or is suspended or deleted, is no active administrator.
LEMMA ChangedIsNoAdmin ==
    ASSUME NEW y \in User, NEW c \in Changes, Lowers(c)
    PROVE  /\ ~IsActiveAdmin(Changed(y, c))
           /\ y.status # "absent" => Changed(y, c).status # "absent"
<1>1. Change[c].status \in Statuses \union {None}
  BY AccountsAssumption
<1>2. /\ Changed(y, c).role = Coalesce(Change[c].role, y.role)
      /\ Changed(y, c).status = Coalesce(Change[c].status, y.status)
  BY DEF Changed, User
<1> QED BY <1>1, <1>2 DEF Lowers, Coalesce, IsActiveAdmin, Statuses

\* The step that may take an administrator away.
LEMMA UpdateWatched == ASSUME Typed, Watched, NEW r \in Requests, UpdateUser(r) PROVE Watched'
<1> DEFINE u == req[r].u
           n == Changed(user[u], req[r].change)
<1>1. u \in Users /\ user[u].status # "absent" /\ req[r].change \in Changes /\ Lowers(req[r].change)
      /\ u \notin req[r].held /\ req[r].at = "update"
      /\ (IsActiveAdmin(user[u]) => \E a \in req[r].held \intersect Users : IsActiveAdmin(user[a]))
  <2>1. Guarded(req[r], user) /\ req[r].at = "update"
    BY DEF Watched, UpdateUser, At
  <2> QED BY <2>1 DEF Guarded
<1>2. user \in [Users -> User] /\ user' = [user EXCEPT ![u] = n]
  BY DEF Typed, TypeOK, UpdateUser
<1>3. n.status # "absent" /\ ~IsActiveAdmin(n)
  BY <1>1, <1>2, ChangedIsNoAdmin
<1>4. UNCHANGED left
  BY DEF UpdateUser
<1>5. ASSUME NEW q \in Requests \ {r} PROVE req'[q] = req[q] /\ u \notin req[q].held
  BY <1>5 DEF UpdateUser, Free, Ends, Becomes, Typed, TypeOK
<1>6. req'[r].at \notin {"count", "lock", "update"}
  <2> DEFINE x == [req[r] EXCEPT !.at = "members", !.held = {}, !.found = SessionsOf(u)]
  <2>1. req[r] \in Request /\ req \in [Requests -> Request]
    BY DEF Typed, TypeOK
  <2>2. Becomes(r, x) \/ Becomes(r, Idle)
    BY DEF UpdateUser, Ends
  <2>3. x.at = "members" /\ Idle.at = "idle"
    BY <2>1, Records DEF Request
  <2> HIDE DEF x
  <2> QED BY <2>1, <2>2, <2>3 DEF Becomes
<1> HIDE DEF u, n
<1>7. user'[u] = n /\ \A a \in Users \ {u} : user'[a] = user[a]
  BY <1>1, <1>2
<1>8. Tame(user, user')
  BY <1>3, <1>7 DEF Tame
<1>9. ASSUME NEW q \in Requests PROVE Guarded(req'[q], user')
  <2>1. CASE q = r
    BY <1>6, <2>1 DEF Guarded
  <2>2. CASE q # r
    <3>1. Guarded(req[q], user) /\ req'[q] = req[q] /\ u \notin req[q].held
      BY <1>5, <2>2 DEF Watched
    <3>2. ASSUME NEW a \in req[q].held \intersect Users, IsActiveAdmin(user[a])
          PROVE  IsActiveAdmin(user'[a])
      BY <1>7, <3>1, <3>2
    <3> QED BY <1>8, <3>1, <3>2 DEF Guarded, Tame
  <2> QED BY <2>1, <2>2
<1>10. \E a \in Users : IsActiveAdmin(user'[a])
  <2>1. PICK a \in Users : IsActiveAdmin(user[a]) /\ a # u
    <3>1. CASE IsActiveAdmin(user[u])
      BY <1>1, <3>1
    <3>2. CASE ~IsActiveAdmin(user[u])
      BY <3>2 DEF Watched
    <3> QED BY <3>1, <3>2
  <2> QED BY <1>7, <2>1
<1> QED BY <1>4, <1>9, <1>10 DEF Watched

\* Every step keeps an active administrator and what each change knows of the others.
LEMMA WatchedInductive ==
    ASSUME Typed, Watched, [Next]_vars
    PROVE  Watched'
<1>0. user \in [Users -> User] /\ \A r \in Requests : req[r] \in Request
  BY DEF Typed, TypeOK
\* Requests that arrive; only the change of a user matters.
<1>1. ASSUME NEW r \in Requests, NEW u \in Users, NEW c \in Changes, ReadsActual(r, u, c) PROVE Watched'
  <2> DEFINE x == [Idle EXCEPT !.op = "update", !.at = "count", !.u = u, !.change = c, !.row = user[u]]
  <2>1. x.at = "count" /\ x.u = u /\ x.change = c /\ x.row = user[u] /\ x.held = {}
    BY DEF Idle
  <2>2. Becomes(r, x) /\ Spend(c) /\ UNCHANGED user /\ user[u].status # "absent" /\ c \in Kinds
    BY <1>1 DEF ReadsActual, Asks, stored, Kinds
  <2>3. Lowers(c)
    BY <2>2 DEF Watched, Spend
  <2> HIDE DEF x
  <2>4. Guarded(x, user)
    BY <2>1, <2>2, <2>3 DEF Guarded
  <2> QED BY <2>2, <2>4, WatchedStep
<1>2. ASSUME NEW r \in Requests, NEW x, Becomes(r, x), x.at \notin {"count", "lock", "update"},
             UNCHANGED user, left' = left \/ \E k \in Kinds : Spend(k)
      PROVE  Watched'
  <2>1. Guarded(x, user)
    BY <1>2 DEF Guarded
  <2> QED BY <1>2, <2>1, WatchedStep
<1>3. ASSUME NEW r \in Requests, Arrives(r), ~ \E u \in Users, c \in Changes : ReadsActual(r, u, c)
      PROVE  Watched'
  <2>0. UNCHANGED user
    BY <1>3 DEF Arrives, Register, LoginCounted, LoginUncounted, RevocarSesiones, Logout, LookupReads, stored
  <2>1. ASSUME NEW u \in Users, Register(r, u) PROVE Watched'
    <3> DEFINE x == [Idle EXCEPT !.op = "register", !.at = "insert", !.u = u]
    <3>1. x.at = "insert" /\ Becomes(r, x) /\ Spend("register") /\ "register" \in Kinds
      BY <2>1 DEF Idle, Register, Asks, Kinds, Ops
    <3> HIDE DEF x
    <3> QED BY <1>2, <2>0, <3>1
  <2>2. ASSUME NEW u \in Users, LoginCounted(r, u) \/ LoginUncounted(r, u) PROVE Watched'
    <3> DEFINE x == [Idle EXCEPT !.op = "login", !.at = "create", !.u = u, !.row = user[u]]
    <3>1. x.at = "create" /\ Becomes(r, x) /\ Spend("login") /\ "login" \in Kinds
      BY <2>2 DEF Idle, LoginCounted, LoginUncounted, Login, Asks, Kinds, Ops
    <3> HIDE DEF x
    <3> QED BY <1>2, <2>0, <3>1
  <2>3. ASSUME NEW u \in Users, RevocarSesiones(r, u) PROVE Watched'
    <3> DEFINE x == [Idle EXCEPT !.op = "revoke", !.at = "members", !.u = u, !.found = SessionsOf(u)]
    <3>1. x.at = "members" /\ Becomes(r, x) /\ Spend("revoke") /\ "revoke" \in Kinds
      BY <2>3 DEF Idle, RevocarSesiones, Asks, Kinds, Ops
    <3> HIDE DEF x
    <3> QED BY <1>2, <2>0, <3>1
  <2>4. ASSUME NEW s \in Sessions, Logout(r, s) \/ LookupReads(r, s) PROVE Watched'
    <3> DEFINE x == [Idle EXCEPT !.op = "logout", !.at = "unindex", !.s = s]
               y == [Idle EXCEPT !.op = "lookup", !.at = "touch", !.s = s]
    <3>1. x.at = "unindex" /\ y.at = "touch" /\ (Becomes(r, x) \/ Becomes(r, y))
      BY <2>4 DEF Idle, Logout, LookupReads, Asks
    <3>2. left' = left \/ (Spend("logout") /\ "logout" \in Kinds)
      BY <2>4 DEF Logout, LookupReads, Asks, Kinds, Ops
    <3> HIDE DEF x, y
    <3> QED BY <1>2, <2>0, <3>1, <3>2
  <2> QED BY <1>3, <2>1, <2>2, <2>3, <2>4 DEF Arrives
\* Steps of a change: the count begins, locks, and decides.
<1>4. ASSUME NEW r \in Requests, CountBegins(r) PROVE Watched'
  <2> DEFINE x == [req[r] EXCEPT !.at = "lock", !.todo = {a \in Users \ {req[r].u} : ActiveAdmin(a)}]
  <2>1. x.at = "lock" /\ x.u = req[r].u /\ x.change = req[r].change /\ x.row = req[r].row
        /\ x.held = req[r].held /\ x.u \notin x.todo
    BY <1>0 DEF Request
  <2>2. Becomes(r, x) /\ UNCHANGED <<user, left>> /\ req[r].at = "count" /\ Guarded(req[r], user)
    BY <1>4 DEF CountBegins, At, stored, Watched
  <2> HIDE DEF x
  <2>3. Guarded(x, user)
    BY <2>1, <2>2 DEF Guarded
  <2> QED BY <2>2, <2>3, WatchedStep
<1>5. ASSUME NEW r \in Requests, NEW a \in Users, LocksOther(r, a) PROVE Watched'
  <2> DEFINE x == [req[r] EXCEPT !.todo = req[r].todo \ {a}, !.held = req[r].held \union {a}]
  <2>1. x.at = req[r].at /\ x.u = req[r].u /\ x.change = req[r].change /\ x.row = req[r].row
        /\ x.held = req[r].held \union {a} /\ x.todo = req[r].todo \ {a}
    BY <1>0 DEF Request
  <2>2. Becomes(r, x) /\ UNCHANGED <<user, left>> /\ req[r].at = "lock" /\ a \in req[r].todo
        /\ Guarded(req[r], user)
    BY <1>5 DEF LocksOther, At, stored, Watched
  <2> HIDE DEF x
  <2>3. Guarded(x, user)
    BY <2>1, <2>2 DEF Guarded
  <2> QED BY <2>2, <2>3, WatchedStep
<1>6. ASSUME NEW r \in Requests, NEW at \in Places \ {"count", "lock", "update"}, Moves(r, at),
             UNCHANGED user, left' = left \/ \E k \in Kinds : Spend(k)
      PROVE  Watched'
  <2> DEFINE x == [req[r] EXCEPT !.at = at]
  <2>1. x.at = at
    BY Moved
  <2>2. Becomes(r, x)
    BY <1>6 DEF Moves
  <2> HIDE DEF x
  <2> QED BY <1>2, <1>6, <2>1, <2>2
<1>7. ASSUME NEW r \in Requests, Ends(r), UNCHANGED user, left' = left \/ \E k \in Kinds : Spend(k)
      PROVE  Watched'
  BY <1>2, <1>7, Records DEF Ends
<1>8. ASSUME NEW r \in Requests, Decides(r) PROVE Watched'
  <2> DEFINE others == {a \in req[r].held : ActiveAdmin(a)}
             x == [req[r] EXCEPT !.at = "update"]
  <2>1. req[r].at = "lock" /\ UNCHANGED <<user, left>> /\ Guarded(req[r], user)
    BY <1>8 DEF Decides, At, stored, Watched
  <2>2. CASE DejaSinAdministrador(req[r].row, req[r].change, Cardinality(others))
    BY <1>7, <1>8, <2>1, <2>2 DEF Decides
  <2>3. CASE ~DejaSinAdministrador(req[r].row, req[r].change, Cardinality(others))
    <3>1. Becomes(r, x)
      BY <1>8, <2>3 DEF Decides, Moves
    <3>2. x.at = "update" /\ x.u = req[r].u /\ x.change = req[r].change /\ x.row = req[r].row
          /\ x.held = req[r].held
      BY Moved DEF Places
    <3>3. ASSUME IsActiveAdmin(req[r].row)
          PROVE  \E a \in req[r].held \intersect Users : IsActiveAdmin(user[a])
      <4>1. req[r].row \in User /\ req[r].change \in Changes /\ Lowers(req[r].change) /\ req[r].held \subseteq Users
        BY <1>0, <2>1 DEF Guarded, Request
      <4>2. Cardinality(others) # 0
        BY <2>3, <3>3, <4>1, ChangedIsNoAdmin DEF DejaSinAdministrador
      <4>3. others # {}
        BY <4>2, FS_EmptySet
      <4> QED BY <4>1, <4>3 DEF ActiveAdmin, IsActiveAdmin
    <3> HIDE DEF x
    <3>4. Guarded(x, user)
      BY <2>1, <3>2, <3>3 DEF Guarded
    <3> QED BY <2>1, <3>1, <3>4, WatchedStep
  <2> QED BY <2>2, <2>3
<1>9. ASSUME NEW r \in Requests, NEW s \in Sessions, CreateSession(r, s) PROVE Watched'
  <2> DEFINE x == [req[r] EXCEPT !.at = "row", !.s = s]
  <2>1. x.at = "row" /\ Becomes(r, x) /\ UNCHANGED <<user, left>>
    BY <1>0, <1>9 DEF CreateSession, Request
  <2> HIDE DEF x
  <2> QED BY <1>2, <2>1
<1>10. ASSUME NEW r \in Requests, Members(r) PROVE Watched'
  <2> DEFINE x == [req[r] EXCEPT !.at = "keys", !.keys = index[req[r].u]]
  <2>1. x.at = "keys" /\ Becomes(r, x) /\ UNCHANGED <<user, left>>
    BY <1>0, <1>10 DEF Members, Request, stored
  <2> HIDE DEF x
  <2> QED BY <1>2, <2>1
<1>11. ASSUME NEW r \in Requests, InsertUser(r) PROVE Watched'
  BY <1>0, <1>11, InsertedIsTame, TameStep DEF InsertUser
<1>12. ASSUME NEW r \in Requests, InsertSession(r) \/ RevokeRows(r) \/ Touch(r) \/ Unindex(r)
                                  \/ DeleteSession(r) \/ DeadlockVictim(r) \/ DeleteKeys(r) \/ DeleteIndex(r)
       PROVE  Watched'
  <2>1. UNCHANGED <<user, left>> /\ \/ Ends(r) \/ Moves(r, "delete") \/ Moves(r, "history") \/ Moves(r, "index")
    BY <1>12 DEF InsertSession, RevokeRows, Touch, Unindex, DeleteSession, DeadlockVictim, DeleteKeys,
                 DeleteIndex, stored
  <2> QED BY <1>6, <1>7, <2>1 DEF Places
<1>13. ASSUME NEW r \in Requests, Fails(r) PROVE Watched'
  <2>1. (Ends(r) \/ Moves(r, "unindex")) /\ UNCHANGED user
    BY <1>13 DEF Fails, InsertSessionFails, CreateFails, DeleteFails, RevokeRowsFails, DeleteAllFails, Lost, stored
  <2>2. \E k \in Kinds : Spend(k)
    BY <1>13 DEF Fails, InsertSessionFails, CreateFails, DeleteFails, RevokeRowsFails, DeleteAllFails, Lost, Kinds
  <2> QED BY <1>6, <1>7, <2>1, <2>2 DEF Places
\* What happens to a user or a session by itself.
<1>14. ASSUME UNCHANGED <<user, req>>, left' = left \/ \E k \in Kinds : Spend(k) PROVE Watched'
  <2>1. Tame(user, user') /\ Stays(user, user')
    BY <1>14 DEF Tame, Stays
  <2> QED BY <1>14, <2>1, TameStep
<1>15. ASSUME NEW u \in Users, VerifyEmail(u) \/ TokenExpires(u) PROVE Watched'
  <2>1. \A a \in Users : user'[a].role = user[a].role /\ user'[a].status = user[a].status
    BY <1>0, <1>15 DEF VerifyEmail, TokenExpires, User
  <2>2. Tame(user, user') /\ Stays(user, user')
    BY <2>1 DEF Tame, Stays, IsActiveAdmin
  <2>3. UNCHANGED req /\ \E k \in Kinds : Spend(k)
    BY <1>15 DEF VerifyEmail, TokenExpires, Kinds
  <2> QED BY <2>2, <2>3, TameStep
<1>16. ASSUME NEW u \in Users, NEW role \in Roles, CrearUsuario(u, role) PROVE Watched'
  <2>1. UNCHANGED req /\ \E k \in Kinds : Spend(k)
    BY <1>16 DEF CrearUsuario, Kinds
  <2> QED BY <1>0, <1>16, <2>1, InsertedIsTame, TameStep DEF CrearUsuario
<1>17. ASSUME NEW u \in Users, LoginRefused(u) \/ IndexExpires(u) \/ NextWindow(u) PROVE Watched'
  <2>1. UNCHANGED <<user, req>> /\ (left' = left \/ \E k \in Kinds : Spend(k))
    BY <1>17 DEF LoginRefused, IndexExpires, NextWindow, Kinds, Ops
  <2> QED BY <1>14, <2>1
<1>18. CASE (\E s \in Sessions : Expires(s)) \/ UNCHANGED vars
  BY <1>14, <1>18 DEF Expires, vars
<1>19. ASSUME NEW r \in Requests, Steps(r) PROVE Watched'
  BY <1>4, <1>5, <1>8, <1>9, <1>10, <1>11, <1>12, <1>19, UpdateWatched DEF Steps
<1> QED BY <1>1, <1>3, <1>13, <1>15, <1>16, <1>17, <1>18, <1>19 DEF Next, OfUser

\* The system keeps an active administrator, whatever suspensions and demotions overlap,
\* deadlock or die: the locks are enough (OtrosAdminsActivos, DejaSinAdministrador).
THEOREM AnAdminRemains ==
    ASSUME NobodyBecomesAdmin
    PROVE  Spec => []AdminRemains
<1>1. Init => Watched
  <2> SUFFICES ASSUME Init PROVE Watched
    OBVIOUS
  <2>1. PICK start \in Starts : /\ user = [u \in Users |-> IF u \in start.seeded THEN Admin ELSE Absent]
                                /\ left = start.left
    BY DEF Init
  <2>2. \A c \in Changes : Lowers(c) \/ left[c] = 0
    BY <2>1 DEF NobodyBecomesAdmin
  <2>3. \E u \in Users : IsActiveAdmin(user[u])
    <3>1. PICK u \in start.seeded : u \in Users
      BY AccountsAssumption DEF NobodyBecomesAdmin
    <3>2. user[u] = Admin
      BY <2>1, <3>1
    <3> QED BY <3>1, <3>2 DEF Admin, Absent, IsActiveAdmin
  <2>4. \A r \in Requests : Guarded(req[r], user)
    BY Records DEF Init, Guarded
  <2> QED BY <2>2, <2>3, <2>4 DEF Watched
<1>2. Typed /\ Watched /\ [Next]_vars => Watched'
  BY WatchedInductive
<1>3. Watched => AdminRemains
  BY DEF Watched, AdminRemains, ActiveAdmin, IsActiveAdmin
<1> QED BY <1>1, <1>2, <1>3, TypedHolds, PTL DEF Spec

-----------------------------------------------------------------------------
(* The limiter.                                                            *)

\* A counter that counts anything has an expiry.
CountersExpire == \A u \in Subjects : hits[u].n > 0 => hits[u].timed

\* The limiter's script counts and sets the expiry at once, so that no account is
\* shut out for good: the safety that LimiterLetsGo needs besides fairness.
THEOREM NoCounterWithoutExpiry == Spec => []CountersExpire
<1>1. Init => CountersExpire
  BY RateLimitAssumption DEF Init, InitHits, NoKey, CountersExpire
<1>2. Typed /\ CountersExpire /\ [Next]_vars => CountersExpire'
  <2> SUFFICES ASSUME Typed, CountersExpire, [Next]_vars PROVE CountersExpire'
    OBVIOUS
  <2>1. hits \in [Subjects -> Counter] /\ Limit \in Nat \ {0}
    BY RateLimitAssumption DEF Typed, TypeOK
  <2>2. CASE UNCHANGED hits
    BY <2>2 DEF CountersExpire
  <2>3. ASSUME NEW u \in Users, Permitir(u) PROVE CountersExpire'
    <3>1. hits' = [hits EXCEPT ![u] = [n |-> More(hits[u].n), timed |-> hits[u].timed \/ hits[u].n = 0]]
      BY <2>3 DEF Permitir
    <3>2. ASSUME NEW v \in Subjects, v # u PROVE hits'[v].n > 0 => hits'[v].timed
      BY <2>1, <3>1, <3>2 DEF CountersExpire
    <3>3. ASSUME u \in Subjects PROVE hits'[u].timed
      <4>1. hits[u].n \in Nat
        BY <2>1, <3>3 DEF Counter
      <4>2. hits[u].timed \/ hits[u].n = 0
        BY <4>1, <3>3 DEF CountersExpire
      <4>3. hits'[u].timed = (hits[u].timed \/ hits[u].n = 0)
        BY <2>1, <3>1, <3>3
      <4> QED BY <4>2, <4>3, Zenon
    <3> QED BY <3>2, <3>3 DEF CountersExpire
  <2>4. ASSUME NEW u \in Users, WindowEnds(u) PROVE CountersExpire'
    BY <2>1, <2>4 DEF WindowEnds, NoKey, CountersExpire
  <2>5. ASSUME NEW r \in Requests, Arrives(r)
        PROVE  UNCHANGED hits \/ \E u \in Users : Permitir(u)
    BY <2>5 DEF Arrives, Register, LoginCounted, LoginUncounted, RevocarSesiones, ReadsActual,
                Logout, LookupReads, stored
  <2>6. ASSUME NEW r \in Requests, Steps(r) \/ Fails(r) PROVE UNCHANGED hits
    <3>1. CASE Fails(r)
      BY <3>1 DEF Fails, CreateFails, InsertSessionFails, DeleteFails, RevokeRowsFails,
                  DeleteAllFails, Lost, stored
    <3>2. CASE Steps(r)
      BY <3>2 DEF Steps, InsertUser, InsertSession, CreateSession, Unindex, DeleteSession, RevokeRows,
                  Touch, CountBegins, Decides, UpdateUser, DeadlockVictim, LocksOther, Members,
                  DeleteKeys, DeleteIndex, stored
    <3> QED BY <2>6, <3>1, <3>2
  <2>7. ASSUME \/ \E s \in Sessions : Expires(s)
               \/ \E u \in Users : OfUser(u)
        PROVE  UNCHANGED hits \/ \E u \in Users : Permitir(u) \/ WindowEnds(u)
    BY <2>7 DEF Expires, OfUser, VerifyEmail, TokenExpires, LoginRefused, IndexExpires,
                NextWindow, CrearUsuario
  <2>8. CASE UNCHANGED vars
    BY <2>2, <2>8 DEF vars
  <2> QED BY <2>2, <2>3, <2>4, <2>5, <2>6, <2>7, <2>8 DEF Next
<1> QED BY <1>1, <1>2, TypedHolds, PTL DEF Spec
=============================================================================
