-------------------------- MODULE AuthoringProofs ---------------------------
(***************************************************************************)
(* Theorems about Authoring for any number of requests, versions, nodes of *)
(* the tree and failures.                                                  *)
(***************************************************************************)
EXTENDS AuthoringProps, TLAPS

\* What the steps between a request's reads and writes rely on is written for a
\* request x, a table of statuses st and the tree t of x's version.

HasRes(t) == \E y \in ResourceIds : t.res[y] # None

\* No draft is open, and v is the last version.
IsLast(v, st) == \A w \in Versions : st[w] # "draft" /\ (st[w] # "none" => w <= v)

Clones(x) == x.op = "version" /\ x.at \in {"mods", "units", "res"}

\* The version x works on exists; one that is being withdrawn has been published; what
\* a clone saw of the drafts still holds as long as its number is free.
Dated(x, st) ==
    /\ x.op \in Ops \ {"version"} => st[x.v] # "none"
    /\ x.op = "unpublish" /\ x.at = "commit" => st[x.v] \in {"published", "unpublished"}
    /\ x.op = "version" => \E w \in Versions : st[w] # "none"
    /\ x.op = "version" /\ x.at # "asked" =>
          /\ st[x.v] # "none"
          /\ x.v < MaxVersion /\ st[x.v + 1] = "none" => IsLast(x.v, st)
    /\ Clones(x) => x.v < MaxVersion /\ st[x.v + 1] = "none"

\* A tree that grows keeps what it had where it was.
Grows(t, t2) == /\ t.mods \subseteq t2.mods
                /\ \A u \in UnitIds : t.units[u] # None => t2.units[u] = t.units[u]
                /\ \A y \in ResourceIds : t.res[y] # None =>
                      t2.res[y] # None /\ t2.res[y].unit = t.res[y].unit

\* The rows of c that a publication has validated are in order, and one is visible.
Sound(c, seen) ==
    /\ seen \subseteq ResIn(c, UnitIds)
    /\ \E y \in seen : c.res[y].visible
    /\ \A y \in seen : c.res[y].visible => ~BadRow(c.res[y])

\* A publication x has found, as far as it has got, the nodes that there were when it
\* was asked for.
Looks(x, t) ==
    /\ x.at # "commit" => Whole(x.copy) /\ Grows(x.copy, t)
    /\ x.at = "units" => x.copy.mods \subseteq x.seen
    /\ x.at = "res" => \A u \in UnitIds : x.copy.units[u] # None => u \in x.seen
    /\ x.at = "commit" => HasRes(t) /\ Sound(x.copy, x.seen)

\* The nodes that x found in the tree are in it.
Hangs(x, t) ==
    /\ x.op = "publish" => Looks(x, t)
    /\ x.op = "addUnit" => x.id \in t.mods
    /\ x.op = "addResource" => x.want # None /\ t.units[x.want.unit] # None
    /\ x.op \in Updates \union {"quiz"} =>
          x.id \in ResourceIds /\ t.res[x.id] # None /\ x.want # None
    /\ x.op \in Updates /\ x.at \in {"guard", "write", "commit"} =>
          x.row # None /\ x.row.unit = t.res[x.id].unit

\* What a clone saw when it began is in its copy as far as it has got.
Copied(x, t) ==
    /\ Clones(x) => /\ \A m \in ModuleIds : m \in x.seen => m \in t.mods
                    /\ \A u \in UnitIds : u \in x.seen => t.units[u] # None
                    /\ \A y \in ResourceIds : y \in x.seen => t.res[y] # None
    /\ Clones(x) /\ x.at # "mods" =>
          /\ x.copy.mods \subseteq t.mods
          /\ \A m \in ModuleIds : m \in x.seen => m \in x.copy.mods
          /\ \A u \in UnitIds : u \in x.seen => t.units[u] \in x.copy.mods
          /\ \A y \in ResourceIds : y \in x.seen => t.units[t.res[y].unit] \in x.copy.mods
    /\ Clones(x) /\ x.at = "res" =>
          /\ \A u \in UnitIds : x.copy.units[u] # None =>
                x.copy.units[u] = t.units[u] /\ x.copy.units[u] \in x.copy.mods
          /\ \A u \in UnitIds : u \in x.seen => x.copy.units[u] # None
          /\ \A y \in ResourceIds : y \in x.seen => x.copy.units[t.res[y].unit] # None

Fits(x, st, tr) == Dated(x, st) /\ Hangs(x, tr[x.v]) /\ Copied(x, tr[x.v])

Tardy(x, st) == x.op \in WriteOps /\ st[x.v] = "published" /\ x.at # "commit"

\* Versions are numbered without gaps, and the course shows one of them.
Chain(c, st) ==
    /\ \E n \in 0..MaxVersion : \A w \in Versions : st[w] # "none" <=> w <= n
    /\ c = NoCourse => \A w \in Versions : st[w] = "none"
    /\ c # NoCourse => c.current \in Versions /\ c.status = st[c.current] /\ c.status # "none"

Trees(st, tr) == \A v \in Versions : st[v] = "none" => tr[v] = NoTree

OneCloner == \A q, r \in Requests : Clones(req[q]) /\ Clones(req[r]) /\ req[q].v = req[r].v => q = r

IInv == /\ TypeOK
        /\ Chain(course, status)
        /\ OneDraft
        /\ Trees(status, tree)
        /\ \A r \in Requests : Fits(req[r], status, tree)
        /\ \A r \in late : Tardy(req[r], status)
        /\ OneCloner

-----------------------------------------------------------------------------
\* An idle request relies on nothing.
LEMMA IdleFits ==
    ASSUME NEW st, NEW tr
    PROVE  Idle \in Request /\ Fits(Idle, st, tr) /\ ~Clones(Idle)
<1>1. NoTree \in Tree /\ 1 \in Versions
  BY AuthoringAssumption DEF NoTree, Tree, Versions
<1>2. Idle \in Request /\ Idle.op = "none"
  BY <1>1 DEF Idle, Request
<1> QED BY <1>2 DEF Fits, Dated, Hangs, Copied, Clones, Ops, WriteOps, RowOps, Adds, Updates

\* A budget stays one.
LEMMA BudgetStep == ASSUME TypeOK, NEW k, Spend(k) PROVE left' \in [Kinds -> Nat]
<1>1. left \in [Kinds -> Nat] /\ left' = [left EXCEPT ![k] = @ - 1] /\ left[k] > 0
  BY DEF TypeOK, Spend
<1>2. CASE k \in Kinds
  BY <1>1, <1>2
<1>3. CASE k \notin Kinds
  BY <1>1, <1>3
<1> QED BY <1>2, <1>3

\* A version that is published or withdrawn takes nothing from a request.
Calmer(st, st2) == \A v \in Versions : /\ st2[v] = "none" <=> st[v] = "none"
                                       /\ st2[v] = "draft" => st[v] = "draft"
                                       /\ st[v] \in {"published", "unpublished"}
                                            => st2[v] \in {"published", "unpublished"}

\* What a request remembers of its version stays true.
LEMMA DatedKept ==
    ASSUME NEW x \in Request, NEW st, NEW st2, Calmer(st, st2), Dated(x, st)
    PROVE  Dated(x, st2)
<1>1. x.v \in Versions /\ MaxVersion \in Nat
  BY AuthoringAssumption DEF Request
<1>2. x.v < MaxVersion => x.v + 1 \in Versions
  BY <1>1 DEF Versions
<1>3. IsLast(x.v, st) => IsLast(x.v, st2)
  BY DEF IsLast, Calmer
<1> QED BY <1>1, <1>2, <1>3 DEF Dated, Calmer

\* Nor does a tree that grows: the unit under which a request writes stays where it
\* was, and a publication still finds what there was.
LEMMA HangsKept ==
    ASSUME NEW x \in Request, NEW t \in Tree, NEW t2 \in Tree, Grows(t, t2), Hangs(x, t)
    PROVE  Hangs(x, t2)
<1>1. x.want # None => x.want.unit \in UnitIds
  BY DEF Request, Resource
<1>2. HasRes(t) => HasRes(t2)
  BY DEF HasRes, Grows
<1>3. Grows(x.copy, t) => Grows(x.copy, t2)
  BY DEF Grows
<1>4. x.op = "publish" => Looks(x, t2)
  BY <1>2, <1>3 DEF Hangs, Looks
<1> QED BY <1>1, <1>4 DEF Hangs, Grows, Updates

\* What a clone has copied so far stays a copy.
LEMMA CopiedKept ==
    ASSUME NEW x \in Request, NEW t \in Tree, NEW t2 \in Tree, Grows(t, t2), Copied(x, t)
    PROVE  Copied(x, t2)
<1>1. \A y \in ResourceIds : t.res[y] # None => t.res[y].unit \in UnitIds
  BY DEF Tree, Resource
<1>2. None \notin x.copy.mods
  BY AuthoringAssumption DEF Request, Tree, StableIds
<1> QED BY <1>1, <1>2 DEF Copied, Grows, Clones

\* A request takes a step that changes no table.
LEMMA Stepped ==
    ASSUME IInv, NEW r \in Requests, NEW x \in Request, Becomes(r, x),
           UNCHANGED <<course, status, tree, ready>>, left' \in [Kinds -> Nat],
           Fits(x, status, tree),
           late' \subseteq late \union {r}, r \in late' => Tardy(x, status),
           Clones(x) => \A q \in Requests : Clones(req[q]) /\ req[q].v = x.v => q = r
    PROVE  IInv'
<1>1. req' = [req EXCEPT ![r] = x] /\ req' \in [Requests -> Request]
  BY DEF Becomes, IInv, TypeOK
<1>2. TypeOK'
  BY <1>1 DEF IInv, TypeOK
<1>3. Chain(course, status)' /\ OneDraft' /\ Trees(status, tree)'
  BY DEF IInv, Chain, OneDraft, Trees
<1>4. (\A q \in Requests : Fits(req[q], status, tree))'
  BY <1>1 DEF IInv, TypeOK
<1>5. (\A q \in late : Tardy(req[q], status))'
  BY <1>1 DEF IInv, TypeOK
<1>6. OneCloner'
  BY <1>1 DEF IInv, TypeOK, OneCloner
<1> QED BY <1>2, <1>3, <1>4, <1>5, <1>6 DEF IInv

\* It answers without having changed a table.
LEMMA Ended ==
    ASSUME IInv, NEW r \in Requests, Ends(r), UNCHANGED <<course, status, tree, ready>>,
           left' \in [Kinds -> Nat]
    PROVE  IInv'
<1>1. Becomes(r, Idle) /\ late' \subseteq late \union {r} /\ r \notin late'
  BY DEF Ends, Becomes
<1>2. Idle \in Request /\ Fits(Idle, status, tree) /\ ~Clones(Idle)
  BY IdleFits
<1> QED BY <1>1, <1>2, Stepped

\* A step of one request leaves the others as they were.
LEMMA NextRequests ==
    ASSUME TypeOK, NEW r \in Requests, NEW x \in Request, Becomes(r, x)
    PROVE  req' \in [Requests -> Request] /\ req'[r] = x /\ \A q \in Requests \ {r} : req'[q] = req[q]
BY DEF TypeOK, Becomes

\* A write commits: the tree of its version grows.
LEMMA Grown ==
    ASSUME IInv, NEW r \in Requests, NEW t \in Tree,
           req[r].op \in WriteOps, Grows(tree[req[r].v], t), Whole(t),
           tree' = [tree EXCEPT ![req[r].v] = t], Ends(r),
           UNCHANGED <<course, status, ready, left>>
    PROVE  IInv'
<1> DEFINE v == req[r].v
<1>1. req[r] \in Request /\ v \in Versions /\ tree \in [Versions -> Tree]
  BY DEF IInv, TypeOK, Request
<1>2. \A w \in Versions : Grows(tree[w], tree'[w]) /\ tree'[w] \in Tree
  BY <1>1 DEF Grows
<1>3. Idle \in Request /\ ~Clones(Idle) /\ Fits(Idle, status', tree')
  BY IdleFits
<1>4. /\ req' \in [Requests -> Request] /\ req'[r] = Idle
      /\ \A q \in Requests \ {r} : req'[q] = req[q]
      /\ late' = late \ {r}
  BY <1>3, NextRequests DEF Ends, Becomes, IInv
<1>5. TypeOK'
  <2>1. \A w \in Versions : Whole(tree'[w])
    BY <1>1 DEF IInv, TypeOK
  <2> QED BY <1>1, <1>4, <2>1 DEF IInv, TypeOK
<1>6. Chain(course, status)' /\ OneDraft'
  BY DEF IInv, Chain, OneDraft
<1>7. Trees(status, tree)'
  <2>1. \A w \in Versions : status[w] = "none" => tree'[w] = tree[w]
    BY <1>1 DEF IInv, Fits, Dated, Ops, WriteOps, RowOps, Adds, Updates
  <2> QED BY <2>1 DEF IInv, Trees
<1>8. (\A q \in Requests : Fits(req[q], status, tree))'
  <2>1. ASSUME NEW q \in Requests, q # r PROVE Fits(req[q], status', tree')
    <3>1. req[q] \in Request /\ req[q].v \in Versions /\ Fits(req[q], status, tree)
      BY DEF IInv, TypeOK, Request
    <3>2. Hangs(req[q], tree'[req[q].v]) /\ Copied(req[q], tree'[req[q].v])
      BY <1>1, <1>2, <3>1, HangsKept, CopiedKept DEF Fits
    <3> QED BY <3>1, <3>2 DEF Fits
  <2> QED BY <1>3, <1>4, <2>1
<1>9. (\A q \in late : Tardy(req[q], status))' /\ OneCloner'
  BY <1>3, <1>4 DEF IInv, TypeOK, OneCloner
<1> QED BY <1>5, <1>6, <1>7, <1>8, <1>9 DEF IInv

\* A version is published or withdrawn.
LEMMA Turned ==
    ASSUME IInv, NEW r \in Requests, NEW s \in {"published", "unpublished"},
           req[r].op \in {"publish", "unpublish"}, status[req[r].v] # "none",
           status' = [status EXCEPT ![req[r].v] = s],
           course' = [course EXCEPT !.current = req[r].v, !.status = s],
           req' = [req EXCEPT ![r] = Idle],
           late' = IF s = "published" THEN late \union Pending(req[r].v)
                                      ELSE late \ {q \in Requests : req[q].v = req[r].v},
           UNCHANGED <<tree, ready, left>>
    PROVE  IInv'
<1> DEFINE v == req[r].v
<1>1. req[r] \in Request /\ v \in Versions /\ status[v] # "none"
      /\ status \in [Versions -> {"none", "draft", "published", "unpublished"}]
  BY DEF IInv, TypeOK, Request
<1>2. Calmer(status, status')
  BY <1>1 DEF Calmer
<1>3. Idle \in Request /\ ~Clones(Idle) /\ Fits(Idle, status', tree')
  BY IdleFits
<1>4. /\ req' \in [Requests -> Request] /\ req'[r] = Idle
      /\ \A q \in Requests \ {r} : req'[q] = req[q]
  BY <1>3, NextRequests DEF Becomes, IInv
<1>5. course # NoCourse /\ v \in 0..MaxVersion
  BY <1>1, AuthoringAssumption DEF IInv, Chain, Versions
<1>6. TypeOK'
  <2>1. course' \in [current : 0..MaxVersion, complete : BOOLEAN,
                     status : {"absent", "draft", "published", "unpublished"}]
    BY <1>5 DEF IInv, TypeOK
  <2>2. late' \subseteq Requests
    BY DEF IInv, TypeOK, Pending
  <2>3. status' \in [Versions -> {"none", "draft", "published", "unpublished"}]
    BY <1>1
  <2> QED BY <1>4, <2>1, <2>2, <2>3 DEF IInv, TypeOK
<1>7. Chain(course', status')
  <2>1. course'.current = v /\ course'.status = s /\ status'[v] = s
    BY <1>1 DEF IInv, TypeOK
  <2>2. course' # NoCourse
    BY <1>1, <2>1, AuthoringAssumption DEF NoCourse, Versions
  <2>3. PICK n \in 0..MaxVersion : \A w \in Versions : status[w] # "none" <=> w <= n
    BY DEF IInv, Chain
  <2>4. \A w \in Versions : status'[w] # "none" <=> w <= n
    BY <2>3, <1>2 DEF Calmer
  <2> QED BY <1>1, <2>1, <2>2, <2>3, <2>4 DEF Chain
<1>8. OneDraft' /\ Trees(status', tree')
  BY <1>1, <1>2 DEF IInv, OneDraft, Trees, Calmer
<1>9. (\A q \in Requests : Fits(req[q], status, tree))'
  <2>1. ASSUME NEW q \in Requests, q # r PROVE Fits(req[q], status', tree')
    <3>1. req[q] \in Request /\ Fits(req[q], status, tree)
      BY DEF IInv, TypeOK
    <3> QED BY <3>1, <1>2, DatedKept DEF Fits
  <2> QED BY <1>3, <1>4, <2>1
<1>10. (\A q \in late : Tardy(req[q], status))'
  <2> SUFFICES ASSUME NEW q \in late' PROVE Tardy(req'[q], status')
    OBVIOUS
  <2>1. q \in Requests /\ q # r /\ req'[q] = req[q]
    <3>1. q \in late => req[q].op \in WriteOps
      BY DEF IInv, Tardy
    <3>2. q \in Pending(v) => req[q].op \in RowOps /\ q \in Requests
      BY DEF Pending
    <3> QED BY <1>4, <3>1, <3>2 DEF IInv, TypeOK, WriteOps, RowOps, Adds, Updates
  <2>2. CASE q \in late
    <3>1. Tardy(req[q], status) /\ req[q].v \in Versions
      BY <2>1, <2>2 DEF IInv, TypeOK, Request
    <3>2. s = "unpublished" => req[q].v # v
      BY <2>1
    <3> QED BY <1>1, <2>1, <3>1, <3>2 DEF Tardy
  <2>3. CASE q \in Pending(v) /\ s = "published"
    BY <1>1, <2>1, <2>3 DEF Pending, Tardy, WriteOps
  <2> QED BY <2>2, <2>3
<1>11. OneCloner'
  BY <1>3, <1>4 DEF IInv, OneCloner
<1> QED BY <1>6, <1>7, <1>8, <1>9, <1>10, <1>11 DEF IInv

\* No tree has a node twice in its resources; those copied hang from units copied.
LEMMA CopyTyped ==
    ASSUME NEW t \in Tree, NEW us \in SUBSET UnitIds
    PROVE  /\ CopyOfResources(t, us) \in [ResourceIds -> Resource \union {None}]
           /\ \A y \in ResourceIds :
                 /\ CopyOfResources(t, us)[y] # None <=> y \in ResIn(t, us)
                 /\ y \in ResIn(t, us) => CopyOfResources(t, us)[y].unit = t.res[y].unit
<1> DEFINE n(y) == [t.res[y] EXCEPT !.quiz = "missing"]
<1>1. \A y \in ResIn(t, us) : y \in ResourceIds /\ t.res[y] \in Resource
  BY DEF Tree, ResIn
<1>2. \A y \in ResIn(t, us) : n(y) \in Resource /\ n(y).unit = t.res[y].unit
  BY <1>1 DEF Resource
<1>3. None \notin Resource
  BY AuthoringAssumption
<1>4. CopyOfResources(t, us) = [y \in ResourceIds |-> IF y \in ResIn(t, us) THEN n(y) ELSE None]
  BY DEF CopyOfResources
<1> HIDE DEF n
<1> QED BY <1>1, <1>2, <1>3, <1>4

\* The clone of version v commits: nothing else speaks of its number.
LEMMA Cloned ==
    ASSUME IInv, NEW r \in Requests, CloneResources(r)
    PROVE  IInv'
<1> DEFINE v == req[r].v
           n == v + 1
           c == req[r].copy
           us == UnitsIn(c, ModuleIds)
           t == [c EXCEPT !.res = CopyOfResources(tree[v], us)]
<1>1. /\ req[r] \in Request /\ v \in Versions /\ c \in Tree /\ Clones(req[r])
      /\ Fits(req[r], status, tree) /\ us \subseteq UnitIds /\ tree[v] \in Tree
      /\ tree \in [Versions -> Tree]
      /\ status \in [Versions -> {"none", "draft", "published", "unpublished"}]
  BY DEF IInv, TypeOK, Request, CloneResources, At, Clones, UnitsIn
<1>2. MaxVersion \in Nat /\ v \in Nat
  BY <1>1, AuthoringAssumption DEF Versions
<1>3. /\ v < MaxVersion /\ n \in Versions /\ n # v /\ n \in Nat
      /\ status[v] # "none" /\ status[n] = "none" /\ IsLast(v, status)
  <2>1. v < MaxVersion /\ status[n] = "none"
    BY <1>1 DEF Fits, Dated
  <2>2. req[r].op = "version" /\ req[r].at # "asked"
    BY DEF CloneResources, At
  <2>3. n \in Versions
    BY <2>1, <1>1, <1>2 DEF Versions
  <2> QED BY <1>1, <1>2, <2>1, <2>2, <2>3 DEF Fits, Dated
<1>4. t \in Tree /\ t.mods = c.mods /\ t.units = c.units /\ t.res = CopyOfResources(tree[v], us)
  BY <1>1, CopyTyped DEF Tree
<1>5. Idle \in Request /\ ~Clones(Idle) /\ Fits(Idle, status', tree')
  BY <1>1, IdleFits
<1>6. /\ status' = [status EXCEPT ![n] = "draft"] /\ tree' = [tree EXCEPT ![n] = t]
      /\ late' = late \ {r} /\ UNCHANGED <<course, ready, left>> /\ Becomes(r, Idle)
  BY DEF CloneResources, Ends, Becomes
<1>7. /\ req' \in [Requests -> Request] /\ req'[r] = Idle
      /\ \A q \in Requests \ {r} : req'[q] = req[q]
  BY <1>5, <1>6, NextRequests DEF IInv
<1>8. Whole(t)
  <2>1. \A u \in UnitIds : c.units[u] # None => c.units[u] \in c.mods /\ u \in us
    BY <1>1 DEF Fits, Copied, CloneResources, At, UnitsIn, Tree
  <2>2. \A y \in ResourceIds : t.res[y] # None => t.res[y].unit \in us
    BY <1>1, <1>4, CopyTyped DEF ResIn
  <2>3. \A u \in us : c.units[u] # None
    BY AuthoringAssumption DEF UnitsIn, StableIds
  <2> QED BY <2>1, <2>2, <2>3, <1>4 DEF Whole
<1> HIDE DEF t, c, us
<1>9. TypeOK'
  <2>1. \A w \in Versions : Whole(tree'[w])
    BY <1>1, <1>6, <1>8 DEF IInv, TypeOK
  <2> QED BY <1>1, <1>4, <1>6, <1>7, <2>1 DEF IInv, TypeOK
<1>10. Trees(status', tree')
  BY <1>1, <1>3, <1>6 DEF IInv, Trees
<1>11. OneDraft'
  BY <1>1, <1>2, <1>3, <1>6 DEF IInv, OneDraft, IsLast, Versions
<1>12. Chain(course', status')
  <2>1. PICK m \in 0..MaxVersion : \A w \in Versions : status[w] # "none" <=> w <= m
    BY DEF IInv, Chain
  <2>2. m = v
    BY <2>1, <1>1, <1>2, <1>3 DEF IsLast, Versions
  <2>3. \A w \in Versions : status'[w] # "none" <=> w <= n
    BY <2>1, <2>2, <1>1, <1>2, <1>3, <1>6 DEF Versions
  <2>4. n \in 0..MaxVersion
    BY <1>3 DEF Versions
  <2>5. course # NoCourse
    BY <1>1, <1>3 DEF IInv, Chain
  <2>6. course.current # n
    BY <2>5, <1>3 DEF IInv, Chain
  <2> QED BY <2>3, <2>4, <2>5, <2>6, <1>1, <1>6 DEF IInv, Chain
<1>13. (\A q \in Requests : Fits(req[q], status, tree))'
  <2>0. status'[n] # "none"
    BY <1>1, <1>3, <1>6
  <2>1. ASSUME NEW q \in Requests, q # r PROVE Fits(req[q], status', tree')
    <3> DEFINE x == req[q]
    <3>1. x \in Request /\ x.v \in Versions /\ Fits(x, status, tree)
      BY DEF IInv, TypeOK, Request
    <3>2. CASE x.op \notin Ops \/ (x.op = "version" /\ x.at = "asked")
      BY <3>1, <3>2, <2>0, <1>3 DEF Fits, Dated, Hangs, Copied, Clones, Ops, WriteOps, RowOps, Adds, Updates
    <3>3. CASE x.op \in Ops /\ ~(x.op = "version" /\ x.at = "asked")
      <4>1. status[x.v] # "none" /\ x.v # n
        BY <3>1, <3>3, <1>3 DEF Fits, Dated
      <4>2. status'[x.v] = status[x.v] /\ tree'[x.v] = tree[x.v]
        BY <1>1, <1>6, <3>1, <4>1
      <4>3. ~Clones(x)
        <5> SUFFICES ASSUME Clones(x) PROVE FALSE
          OBVIOUS
        <5>1. x.v < MaxVersion /\ status[x.v + 1] = "none"
          BY <3>1 DEF Fits, Dated
        <5>2. IsLast(x.v, status)
          BY <5>1, <3>1, <3>3 DEF Fits, Dated, Clones
        <5>3. x.v = v
          BY <5>2, <4>1, <3>1, <1>1, <1>2, <1>3 DEF IsLast, Versions
        <5> QED BY <5>3, <1>1, <2>1 DEF IInv, OneCloner
      <4>4. x.v < MaxVersion /\ status'[x.v + 1] = "none" /\ x.op = "version" => FALSE
        <5> SUFFICES ASSUME x.v < MaxVersion, status'[x.v + 1] = "none", x.op = "version"
                     PROVE  FALSE
          OBVIOUS
        <5>1. x.v + 1 \in Versions /\ x.v \in Nat
          BY <3>1, <1>2 DEF Versions
        <5>2. status[x.v + 1] = "none" /\ x.v + 1 # n
          BY <5>1, <1>1, <1>6
        <5>3. IsLast(x.v, status)
          BY <5>2, <3>1, <3>3 DEF Fits, Dated
        <5> QED BY <5>1, <5>2, <5>3, <4>1, <3>1, <1>1, <1>2, <1>3 DEF IsLast, Versions
      <4> QED BY <2>0, <1>3, <3>1, <4>1, <4>2, <4>3, <4>4 DEF Fits, Dated, Hangs, Copied
    <3> QED BY <3>2, <3>3
  <2> QED BY <1>5, <1>7, <2>1
<1>14. (\A q \in late : Tardy(req[q], status))'
  <2> SUFFICES ASSUME NEW q \in late' PROVE Tardy(req'[q], status')
    OBVIOUS
  <2>1. q \in Requests /\ req'[q] = req[q] /\ Tardy(req[q], status) /\ req[q].v \in Versions
    BY <1>6, <1>7 DEF IInv, TypeOK, Request
  <2>2. status'[req[q].v] = status[req[q].v]
    BY <2>1, <1>1, <1>3, <1>6 DEF Tardy
  <2> QED BY <2>1, <2>2 DEF Tardy
<1>15. OneCloner'
  BY <1>5, <1>7 DEF IInv, OneCloner
<1> QED BY <1>9, <1>10, <1>11, <1>12, <1>13, <1>14, <1>15 DEF IInv

\* The course and its first draft appear.
LEMMA Created ==
    ASSUME IInv, NEW complete \in BOOLEAN, CreateCourse(complete)
    PROVE  IInv'
<1>1. /\ \A w \in Versions : status[w] = "none"
      /\ status \in [Versions -> {"none", "draft", "published", "unpublished"}]
      /\ MaxVersion \in Nat \ {0} /\ 1 \in Versions /\ Versions \subseteq Nat
      /\ \A w \in Versions : w >= 1
  BY AuthoringAssumption DEF CreateCourse, IInv, Chain, TypeOK, Versions
<1>2. /\ course' = [current |-> 1, status |-> "draft", complete |-> complete]
      /\ status' = [status EXCEPT ![1] = "draft"]
      /\ UNCHANGED <<tree, ready, req, late, left>>
  BY DEF CreateCourse
<1>3. TypeOK'
  BY <1>1, <1>2 DEF IInv, TypeOK
<1>4. Chain(course', status')
  <2>1. 1 \in 0..MaxVersion /\ \A w \in Versions : status'[w] # "none" <=> w <= 1
    BY <1>1, <1>2
  <2>2. course' # NoCourse /\ course'.current = 1 /\ course'.status = "draft"
    BY <1>2 DEF NoCourse
  <2> QED BY <2>1, <2>2, <1>1, <1>2 DEF Chain
<1>5. OneDraft' /\ Trees(status', tree')
  BY <1>1, <1>2 DEF IInv, OneDraft, Trees
<1>6. (\A q \in Requests : Fits(req[q], status, tree))'
  <2> SUFFICES ASSUME NEW q \in Requests PROVE Fits(req[q], status', tree')
    BY <1>2
  <2>1. req[q] \in Request /\ req[q].v \in Versions /\ Fits(req[q], status, tree)
    BY DEF IInv, TypeOK, Request
  <2>2. req[q].op \notin Ops
    BY <1>1, <2>1 DEF Fits, Dated
  <2> QED BY <2>2 DEF Fits, Dated, Hangs, Copied, Clones, Ops, WriteOps, RowOps, Adds, Updates
<1>7. (\A q \in late : Tardy(req[q], status))' /\ OneCloner'
  <2>1. late = {}
    <3> SUFFICES ASSUME NEW q \in late PROVE FALSE
      OBVIOUS
    <3>1. q \in Requests /\ req[q].v \in Versions /\ status[req[q].v] = "published"
      BY DEF IInv, TypeOK, Request, Tardy
    <3> QED BY <3>1, <1>1
  <2> QED BY <2>1, <1>2 DEF IInv, OneCloner
<1> QED BY <1>3, <1>4, <1>5, <1>6, <1>7 DEF IInv

\* The invariant holds before the first request.
LEMMA IInvInit == Init => IInv
<1> SUFFICES ASSUME Init PROVE IInv
  OBVIOUS
<1>1. NoTree \in Tree /\ MaxVersion \in Nat \ {0} /\ Whole(NoTree)
  BY AuthoringAssumption DEF NoTree, Tree, Whole
<1>2. Idle \in Request /\ ~Clones(Idle) /\ Fits(Idle, status, tree)
  BY IdleFits
<1>3. left \in [Kinds -> Nat]
  BY AuthoringAssumption DEF Init
<1>4. TypeOK
  BY <1>1, <1>2, <1>3 DEF Init, TypeOK, NoCourse
<1>5. Chain(course, status)
  BY <1>1 DEF Init, Chain, Versions
<1> QED BY <1>1, <1>2, <1>4, <1>5 DEF Init, IInv, OneDraft, Trees, OneCloner

-----------------------------------------------------------------------------
(* The actions. *)

\* A request that has just been made, and is true to its version, keeps the invariant.
LEMMA Asked ==
    ASSUME IInv, NEW r \in Requests, NEW x \in Request, Asks(r, x), x.at = "asked",
           Dated(x, status), Hangs(x, tree[x.v])
    PROVE  IInv'
<1>1. /\ Becomes(r, x) /\ UNCHANGED <<course, status, tree, ready>>
      /\ late' = IF x.op \in WriteOps /\ status[x.v] = "published" THEN late \union {r} ELSE late
      /\ req[r] = Idle
  BY DEF Asks
<1>2. left' \in [Kinds -> Nat]
  BY BudgetStep DEF Asks, IInv
<1>3. r \notin late
  BY <1>1 DEF IInv, Tardy, Idle, WriteOps, RowOps, Adds, Updates
<1>4. ~Clones(x) /\ Copied(x, tree[x.v])
  BY DEF Copied, Clones
<1>5. r \in late' => Tardy(x, status)
  BY <1>1, <1>3 DEF Tardy
<1> QED BY <1>1, <1>2, <1>4, <1>5, Stepped DEF Fits

\* A write arrives for a node of a version.
LEMMA AskedWrite ==
    ASSUME IInv, NEW r \in Requests, NEW x \in Request, Asks(r, x), x.at = "asked",
           x.op \in WriteOps, status[x.v] # "none",
           x.op = "addUnit" => x.id \in tree[x.v].mods,
           x.op = "addResource" => x.want # None /\ tree[x.v].units[x.want.unit] # None,
           x.op \in Updates \union {"quiz"} =>
               x.id \in ResourceIds /\ tree[x.v].res[x.id] # None /\ x.want # None
    PROVE  IInv'
<1>1. x.op \notin {"publish", "unpublish", "version"}
  BY DEF WriteOps, RowOps, Adds, Updates
<1>2. Dated(x, status) /\ Hangs(x, tree[x.v])
  BY <1>1 DEF Dated, Hangs, Clones
<1> QED BY <1>2, Asked

\* Z3 does not see that a boolean field keeps its type.
LEMMA Revised ==
    ASSUME NEW row \in Resource, NEW visible \in BOOLEAN, NEW link \in Links \union {None}
    PROVE  [row EXCEPT !.visible = visible, !.link = link] \in Resource
BY Zenon DEF Resource

\* Every request that can be made is such a one.
LEMMA AskStep ==
    ASSUME IInv, NEW r \in Requests, Ask(r)
    PROVE  IInv'
<1>1. /\ Idle \in Request /\ tree \in [Versions -> Tree]
      /\ None \notin StableIds \union Resource
  BY IdleFits, AuthoringAssumption DEF IInv, TypeOK
<1>2. \A v \in Versions : status[v] = "none" => tree[v] = NoTree
  BY DEF IInv, Trees
<1>3. ASSUME NEW v \in Versions, NEW y \in ResourceIds, tree[v].res[y] # None
      PROVE  tree[v].res[y] \in Resource /\ status[v] # "none" /\ y \in StableIds
  BY <1>1, <1>2, <1>3 DEF Tree, NoTree, StableIds
<1>4. CASE AskVersion(r)
  <2> DEFINE x == [Idle EXCEPT !.op = "version", !.at = "asked"]
  <2>1. x \in Request /\ x.op = "version" /\ x.at = "asked" /\ Asks(r, x)
    BY <1>1, <1>4 DEF AskVersion, Request, Idle, Ops
  <2> HIDE DEF x
  <2>2. \E w \in Versions : status[w] # "none"
    BY <1>4 DEF AskVersion, IInv, Chain
  <2>3. Dated(x, status) /\ Hangs(x, tree[x.v])
    BY <2>1, <2>2 DEF Dated, Hangs, Clones, Updates
  <2> QED BY <2>1, <2>3, Asked
<1>5. ASSUME NEW v \in Versions, NEW op \in Ops, AskTransition(r, op, v) PROVE IInv'
  <2> DEFINE c == IF op = "publish" THEN tree[v] ELSE NoTree
             x == [Idle EXCEPT !.op = op, !.at = "asked", !.v = v, !.copy = c]
  <2>1. Asks(r, x) /\ op \in {"publish", "unpublish"} /\ status[v] # "none"
    BY <1>5 DEF AskTransition
  <2>2. c \in Tree /\ (op = "publish" => c = tree[v])
    BY <1>1 DEF Request, Idle
  <2> HIDE DEF c
  <2>3. x \in Request /\ x.op = op /\ x.at = "asked" /\ x.v = v /\ x.copy = c
    BY <1>1, <2>1, <2>2 DEF Request, Idle, Ops
  <2> HIDE DEF x
  <2>4. Whole(tree[v]) /\ Grows(tree[v], tree[v])
    BY DEF Grows, IInv, TypeOK
  <2>5. x.op = "publish" => Looks(x, tree[x.v])
    BY <2>2, <2>3, <2>4 DEF Looks
  <2>6. Dated(x, status) /\ Hangs(x, tree[x.v])
    BY <2>1, <2>3, <2>5 DEF Dated, Hangs, Clones, Updates
  <2> QED BY <2>1, <2>3, <2>6, Asked
<1>6. ASSUME NEW v \in Versions, AskModule(r, v) PROVE IInv'
  <2> DEFINE x == [Idle EXCEPT !.op = "addModule", !.at = "asked", !.v = v]
  <2>1. /\ x \in Request /\ x.op = "addModule" /\ x.at = "asked" /\ x.v = v /\ Asks(r, x)
        /\ status[v] # "none"
    BY <1>1, <1>6 DEF AskModule, Request, Idle, Ops, WriteOps, RowOps, Adds
  <2> HIDE DEF x
  <2> QED BY <2>1, AskedWrite DEF WriteOps, RowOps, Adds, Updates
<1>7. ASSUME NEW v \in Versions, NEW m \in ModuleIds, AskUnit(r, v, m) PROVE IInv'
  <2> DEFINE x == [Idle EXCEPT !.op = "addUnit", !.at = "asked", !.v = v, !.id = m]
  <2>1. /\ x \in Request /\ x.op = "addUnit" /\ x.at = "asked" /\ x.v = v /\ x.id = m
        /\ Asks(r, x) /\ m \in tree[v].mods
    BY <1>1, <1>7 DEF AskUnit, Request, Idle, Ops, WriteOps, RowOps, Adds, StableIds
  <2>2. status[v] # "none"
    BY <1>2, <2>1 DEF NoTree
  <2> HIDE DEF x
  <2> QED BY <2>1, <2>2, AskedWrite DEF WriteOps, RowOps, Adds, Updates
<1>8. ASSUME NEW v \in Versions, NEW u \in UnitIds, NEW in \in Inputs, AskResource(r, v, u, in)
      PROVE  IInv'
  <2> DEFINE w == [unit |-> u, type |-> in.type, visible |-> in.visible, text |-> in.text,
                   link |-> in.link, quiz |-> "missing"]
             x == [Idle EXCEPT !.op = "addResource", !.at = "asked", !.v = v, !.want = w]
  <2>1. w \in Resource /\ w.unit = u
    BY AuthoringAssumption DEF Input, Resource
  <2>2. Asks(r, x) /\ tree[v].units[u] # None
    BY <1>8 DEF AskResource
  <2>3. status[v] # "none"
    BY <1>2, <2>2 DEF NoTree
  <2> HIDE DEF w
  <2>4. /\ x \in Request /\ x.op = "addResource" /\ x.at = "asked" /\ x.v = v /\ x.want = w
        /\ w # None
    BY <1>1, <2>1 DEF Request, Idle, Ops, WriteOps, RowOps, Adds
  <2> HIDE DEF x
  <2> QED BY <2>1, <2>2, <2>3, <2>4, AskedWrite DEF WriteOps, RowOps, Adds, Updates
<1>9. ASSUME NEW v \in Versions, NEW y \in ResourceIds, NEW text \in Texts,
             NEW base \in Texts \union {None, AnyTag}, AskSave(r, v, y, text, base)
      PROVE  IInv'
  <2> DEFINE w == [tree[v].res[y] EXCEPT !.text = text]
             x == [Idle EXCEPT !.op = "save", !.at = "asked", !.v = v, !.id = y, !.base = base,
                               !.want = w]
  <2>1. tree[v].res[y] # None /\ Asks(r, x)
    BY <1>9 DEF AskSave
  <2>2. w \in Resource
    BY <1>3, <2>1 DEF Resource
  <2> HIDE DEF w
  <2>3. /\ x \in Request /\ x.op = "save" /\ x.at = "asked" /\ x.v = v /\ x.id = y /\ x.want = w
        /\ w # None
    BY <1>1, <1>3, <2>1, <2>2 DEF Request, Idle, Ops, WriteOps, RowOps, Updates
  <2> HIDE DEF x
  <2> QED BY <1>3, <2>1, <2>3, AskedWrite DEF WriteOps, RowOps, Adds, Updates
<1>10. ASSUME NEW v \in Versions, NEW y \in ResourceIds, NEW visible \in BOOLEAN,
              NEW link \in Links \union {None}, AskUpdate(r, v, y, visible, link)
       PROVE  IInv'
  <2> DEFINE w == [tree[v].res[y] EXCEPT !.visible = visible, !.link = link]
             x == [Idle EXCEPT !.op = "update", !.at = "asked", !.v = v, !.id = y, !.want = w]
  <2>1. tree[v].res[y] # None /\ Asks(r, x)
    BY <1>10 DEF AskUpdate
  <2>2. w \in Resource
    BY <1>3, <2>1, Revised
  <2> HIDE DEF w
  <2>3. /\ x \in Request /\ x.op = "update" /\ x.at = "asked" /\ x.v = v /\ x.id = y
        /\ x.want = w /\ w # None
    BY <1>1, <1>3, <2>1, <2>2 DEF Request, Idle, Ops, WriteOps, RowOps, Updates
  <2> HIDE DEF x
  <2> QED BY <1>3, <2>1, <2>3, AskedWrite DEF WriteOps, RowOps, Adds, Updates
<1>11. ASSUME NEW v \in Versions, NEW y \in ResourceIds, NEW quiz \in Quizzes,
              AskQuiz(r, v, y, quiz)
       PROVE  IInv'
  <2> DEFINE w == [tree[v].res[y] EXCEPT !.quiz = quiz]
             x == [Idle EXCEPT !.op = "quiz", !.at = "asked", !.v = v, !.id = y, !.want = w]
  <2>1. tree[v].res[y] # None /\ Asks(r, x)
    BY <1>11 DEF AskQuiz
  <2>2. w \in Resource
    BY <1>3, <2>1 DEF Resource
  <2> HIDE DEF w
  <2>3. /\ x \in Request /\ x.op = "quiz" /\ x.at = "asked" /\ x.v = v /\ x.id = y /\ x.want = w
        /\ w # None
    BY <1>1, <1>3, <2>1, <2>2 DEF Request, Idle, Ops, WriteOps
  <2> HIDE DEF x
  <2> QED BY <1>3, <2>1, <2>3, AskedWrite DEF WriteOps, RowOps, Adds, Updates
<1> QED BY <1>4, <1>5, <1>6, <1>7, <1>8, <1>9, <1>10, <1>11 DEF Ask

\* A request reads, or goes on, with what it knows.
LEMMA Passed ==
    ASSUME IInv, NEW r \in Requests, NEW x \in Request, Becomes(r, x),
           UNCHANGED <<course, status, tree, ready, late, left>>,
           x.op = req[r].op, x.v = req[r].v, x.op # "version",
           Hangs(x, tree[x.v]), Dated(x, status),
           x.op \in WriteOps /\ status[x.v] = "published" => x.at # "commit"
    PROVE  IInv'
<1>1. left' \in [Kinds -> Nat]
  BY DEF IInv, TypeOK
<1>2. ~Clones(x) /\ Copied(x, tree[x.v])
  BY DEF Clones, Copied
<1>3. r \in late' => Tardy(x, status)
  BY DEF IInv, Tardy
<1> QED BY <1>1, <1>2, <1>3, Stepped DEF Fits

\* What a publication that validates its rows has looked at.
LEMMA Validated ==
    ASSUME IInv, NEW r \in Requests, At(r, "publish", "res")
    PROVE  LET t  == tree[req[r].v]
               xs == ResIn(t, req[r].seen)
           IN  /\ ResIn(req[r].copy, UnitIds) \subseteq xs
               /\ Publishable(req[r].complete, {t.res[y] : y \in xs}) => HasRes(t) /\ Sound(t, xs)
<1> DEFINE t  == tree[req[r].v]
           c  == req[r].copy
           xs == ResIn(t, req[r].seen)
<1>1. Looks(req[r], t) /\ req[r].at = "res"
  BY DEF At, IInv, Fits, Hangs
<1>2. c \in Tree /\ t \in Tree
  BY DEF IInv, TypeOK, Request
<1>3. \A y \in ResourceIds : c.res[y] # None => t.res[y] # None /\ t.res[y].unit \in req[r].seen
  <2>1. \A y \in ResourceIds : c.res[y] # None => c.res[y].unit \in UnitIds
    BY <1>2 DEF Tree, Resource
  <2> QED BY <1>1, <2>1 DEF Looks, Grows, Whole
<1>4. ResIn(c, UnitIds) \subseteq xs
  BY <1>3 DEF ResIn
<1>5. xs \subseteq ResIn(t, UnitIds)
  <2>1. \A y \in ResourceIds : t.res[y] # None => t.res[y].unit \in UnitIds
    BY <1>2 DEF Tree, Resource
  <2> QED BY <2>1 DEF ResIn
<1>6. ASSUME Publishable(req[r].complete, {t.res[y] : y \in xs}) PROVE HasRes(t) /\ Sound(t, xs)
  <2>1. \E y \in xs : t.res[y].visible
    BY <1>6, Zenon DEF Publishable
  <2>2. \A y \in xs : t.res[y].visible => ~BadRow(t.res[y])
    BY <1>6, Zenon DEF Publishable, BadResource
  <2>3. HasRes(t)
    BY <2>1 DEF HasRes, ResIn
  <2> HIDE DEF xs
  <2> QED BY <1>5, <2>1, <2>2, <2>3, Zenon DEF Sound
<1> QED BY <1>4, <1>6

\* The reads of Publish, its validation and its transaction keep the invariant.
LEMMA PublishSteps ==
    ASSUME IInv, NEW r \in Requests,
           \/ PublishReadsCourse(r) \/ PublishReadsVersion(r) \/ PublishReadsModules(r)
           \/ PublishReadsUnits(r) \/ PublishValidates(r) \/ PublishCommits(r)
    PROVE  IInv'
<1> DEFINE t == tree[req[r].v]
<1>1. /\ req[r] \in Request /\ Fits(req[r], status, tree) /\ t \in Tree
      /\ req[r].op = "publish" /\ status[req[r].v] # "none" /\ left \in [Kinds -> Nat]
      /\ course.complete \in BOOLEAN /\ Looks(req[r], t)
  BY DEF IInv, TypeOK, Request, PublishReadsCourse, PublishReadsVersion, PublishReadsModules,
         PublishReadsUnits, PublishValidates, PublishCommits, At, Fits, Dated, Hangs, Ops
<1>2. ASSUME NEW x \in Request, x.op = "publish", x.v = req[r].v, Looks(x, t), Becomes(r, x),
             UNCHANGED <<course, status, tree, ready, late, left>>
      PROVE  IInv'
  <2>1. Dated(x, status) /\ Hangs(x, tree[x.v])
    BY <1>1, <1>2 DEF Dated, Hangs, Clones, Updates
  <2>2. x.op \notin WriteOps
    BY <1>2 DEF WriteOps, RowOps, Adds, Updates
  <2> QED BY <1>1, <1>2, <2>1, <2>2, Passed
<1>3. CASE Ends(r) /\ UNCHANGED <<course, status, tree, ready, left>>
  BY <1>1, <1>3, Ended
<1>4. CASE PublishReadsCourse(r)
  <2> DEFINE x == [req[r] EXCEPT !.at = "course", !.complete = course.complete]
  <2>1. x \in Request
    BY <1>1, Zenon DEF Request
  <2>2. /\ x.op = "publish" /\ x.v = req[r].v /\ x.at = "course" /\ x.copy = req[r].copy
        /\ req[r].at = "asked" /\ Becomes(r, x)
    BY <1>1, <1>4 DEF Request, PublishReadsCourse, At
  <2> HIDE DEF x
  <2>3. Looks(x, t)
    BY <1>1, <2>2 DEF Looks
  <2> QED BY <1>2, <1>4, <2>1, <2>2, <2>3 DEF PublishReadsCourse
<1>5. CASE PublishReadsVersion(r)
  <2> DEFINE x == [req[r] EXCEPT !.at = "mods"]
  <2>1. /\ x \in Request /\ x.op = "publish" /\ x.v = req[r].v /\ x.at = "mods"
        /\ x.copy = req[r].copy /\ req[r].at = "course"
    BY <1>1, <1>5 DEF Request, PublishReadsVersion, At
  <2>2. Moves(r, "mods") => Becomes(r, x)
    BY DEF Moves
  <2> HIDE DEF x
  <2>3. Looks(x, t)
    BY <1>1, <2>1 DEF Looks
  <2> QED BY <1>2, <1>3, <1>5, <2>1, <2>2, <2>3 DEF PublishReadsVersion
<1>6. CASE PublishReadsModules(r)
  <2> DEFINE ms == t.mods
             x == [req[r] EXCEPT !.at = "units", !.seen = ms]
  <2>1. /\ x \in Request /\ x.op = "publish" /\ x.v = req[r].v /\ x.at = "units"
        /\ x.copy = req[r].copy /\ x.seen = ms /\ req[r].at = "mods"
    BY <1>1, <1>6 DEF Request, Tree, StableIds, PublishReadsModules, At
  <2>2. IF ms = {} THEN Ends(r) ELSE Becomes(r, x) /\ UNCHANGED late
    BY <1>6 DEF PublishReadsModules
  <2>3. UNCHANGED <<course, status, tree, ready, left>>
    BY <1>6 DEF PublishReadsModules
  <2> HIDE DEF x
  <2>4. Looks(x, t)
    BY <1>1, <2>1 DEF Looks, Grows
  <2> QED BY <1>2, <1>3, <2>1, <2>2, <2>3, <2>4
<1>7. CASE PublishReadsUnits(r)
  <2> DEFINE us == UnitsIn(t, req[r].seen)
             x == [req[r] EXCEPT !.at = "res", !.seen = us]
  <2>1. us \in SUBSET StableIds /\ req[r].at = "units"
    BY <1>7 DEF UnitsIn, StableIds, PublishReadsUnits, At
  <2>2. Becomes(r, x)
    BY <1>1, <1>7 DEF PublishReadsUnits, Request, Becomes
  <2>3. \A u \in UnitIds : req[r].copy.units[u] # None => u \in us
    BY <1>1, <2>1 DEF Looks, Whole, Grows, UnitsIn
  <2> HIDE DEF us
  <2>4. /\ x \in Request /\ x.op = "publish" /\ x.v = req[r].v /\ x.at = "res"
        /\ x.copy = req[r].copy /\ x.seen = us
    BY <1>1, <2>1 DEF Request
  <2> HIDE DEF x
  <2>5. Looks(x, t)
    BY <1>1, <2>1, <2>3, <2>4 DEF Looks
  <2> QED BY <1>2, <1>7, <2>2, <2>4, <2>5 DEF PublishReadsUnits
<1>8. CASE PublishValidates(r)
  <2> DEFINE xs == ResIn(t, req[r].seen)
             x == [req[r] EXCEPT !.at = "commit", !.seen = xs, !.copy = t]
  <2>1. xs \in SUBSET StableIds
    BY DEF ResIn, StableIds
  <2>2. UNCHANGED <<course, status, tree, ready, left>>
    BY <1>8 DEF PublishValidates
  <2>3. \/ Ends(r)
        \/ Becomes(r, x) /\ UNCHANGED late /\ Publishable(req[r].complete, {t.res[y] : y \in xs})
    BY <1>8 DEF PublishValidates
  <2>4. Publishable(req[r].complete, {t.res[y] : y \in xs}) => HasRes(t) /\ Sound(t, xs)
    BY <1>8, Validated DEF PublishValidates
  <2> HIDE DEF xs
  <2>5. /\ x \in Request /\ x.op = "publish" /\ x.v = req[r].v /\ x.at = "commit"
        /\ x.copy = t /\ x.seen = xs
    BY <1>1, <2>1 DEF Request
  <2> HIDE DEF x
  <2>6. HasRes(t) /\ Sound(t, xs) => Looks(x, t)
    BY <2>5 DEF Looks
  <2> QED BY <1>2, <1>3, <2>2, <2>3, <2>4, <2>5, <2>6
<1>9. CASE PublishCommits(r)
  BY <1>1, <1>9, Turned DEF PublishCommits
<1> QED BY <1>4, <1>5, <1>6, <1>7, <1>8, <1>9

\* So do those of Unpublish.
LEMMA UnpublishSteps ==
    ASSUME IInv, NEW r \in Requests, UnpublishReads(r) \/ UnpublishCommits(r)
    PROVE  IInv'
<1>1. /\ req[r] \in Request /\ Fits(req[r], status, tree) /\ req[r].op = "unpublish"
      /\ status[req[r].v] # "none" /\ left \in [Kinds -> Nat]
  BY DEF IInv, TypeOK, UnpublishReads, UnpublishCommits, At, Fits, Dated, Ops
<1>2. CASE UnpublishReads(r)
  <2> DEFINE x == [req[r] EXCEPT !.at = "commit"]
  <2>1. x \in Request /\ x.op = "unpublish" /\ x.v = req[r].v
    BY <1>1 DEF Request
  <2>2. UNCHANGED <<course, status, tree, ready, left>>
    BY <1>2 DEF UnpublishReads
  <2>3. Ends(r) \/ (Becomes(r, x) /\ UNCHANGED late /\ status[req[r].v] = "published")
    BY <1>2 DEF UnpublishReads, Moves
  <2> HIDE DEF x
  <2>4. status[req[r].v] = "published" => Dated(x, status) /\ Hangs(x, tree[x.v])
    BY <2>1 DEF Dated, Hangs, Clones, Updates
  <2>5. x.op \notin WriteOps
    BY <2>1 DEF WriteOps, RowOps, Adds, Updates
  <2> QED BY <1>1, <2>1, <2>2, <2>3, <2>4, <2>5, Ended, Passed
<1>3. CASE UnpublishCommits(r)
  BY <1>1, <1>3, Turned DEF UnpublishCommits
<1> QED BY <1>2, <1>3

\* A clone goes on.
LEMMA Cloner ==
    ASSUME IInv, NEW r \in Requests, NEW x \in Request, Becomes(r, x),
           UNCHANGED <<course, status, tree, ready, late, left>>,
           req[r].op = "version", x.op = "version", Dated(x, status), Copied(x, tree[x.v]),
           Clones(x) => \A q \in Requests : Clones(req[q]) /\ req[q].v = x.v => q = r
    PROVE  IInv'
<1>1. left' \in [Kinds -> Nat]
  BY DEF IInv, TypeOK
<1>2. Hangs(x, tree[x.v])
  BY DEF Hangs, Updates
<1>3. r \notin late
  BY DEF IInv, Tardy, WriteOps, RowOps, Adds, Updates
<1> QED BY <1>1, <1>2, <1>3, Stepped DEF Fits

\* So does every statement of NewVersion's transaction.
LEMMA VersionSteps ==
    ASSUME IInv, NEW r \in Requests,
           NewVersionReads(r) \/ InsertVersion(r) \/ CloneModules(r) \/ CloneUnits(r)
    PROVE  IInv'
<1> DEFINE v == req[r].v
           t == tree[v]
<1>1. /\ req[r] \in Request /\ v \in Versions /\ Fits(req[r], status, tree) /\ t \in Tree
      /\ req[r].op = "version" /\ left \in [Kinds -> Nat] /\ MaxVersion \in Nat
      /\ None \notin ModuleIds /\ Whole(t)
      /\ status \in [Versions -> {"none", "draft", "published", "unpublished"}]
  BY AuthoringAssumption DEF IInv, TypeOK, Request, NewVersionReads, InsertVersion, CloneModules,
         CloneUnits, At, StableIds, Trees
<1>2. \A y \in ResourceIds : t.res[y] # None => t.res[y].unit \in UnitIds /\ t.units[t.res[y].unit] \in t.mods
  BY <1>1 DEF Whole, Tree, Resource
<1>3. \A u \in UnitIds : t.units[u] # None => t.units[u] \in t.mods
  BY <1>1 DEF Whole
<1>4. CASE NewVersionReads(r)
  <2>1. CASE \E w \in Versions : status[w] = "draft"
    BY <1>1, <1>4, <2>1, Ended DEF NewVersionReads
  <2>2. CASE \A w \in Versions : status[w] # "draft"
    <3> DEFINE x == [req[r] EXCEPT !.at = "number", !.v = Latest]
    <3>1. Becomes(r, x) /\ UNCHANGED <<course, status, tree, ready, late, left>>
      BY <1>4, <2>2 DEF NewVersionReads
    <3>2. PICK n \in 0..MaxVersion : \A w \in Versions : status[w] # "none" <=> w <= n
      BY DEF IInv, Chain
    <3>3. n \in Versions /\ status[n] # "none"
      BY <1>1, <3>2 DEF Fits, Dated, Versions
    <3>4. Latest \in Versions /\ status[Latest] # "none"
          /\ \A w \in Versions : status[w] # "none" => w <= Latest
      BY <3>2, <3>3 DEF Latest
    <3>5. IsLast(Latest, status)
      BY <2>2, <3>4 DEF IsLast
    <3>6. x \in Request /\ x.op = "version" /\ x.at = "number" /\ x.v = Latest
      BY <1>1, <3>4 DEF Request
    <3> HIDE DEF x
    <3>7. Dated(x, status) /\ Copied(x, tree[x.v]) /\ ~Clones(x)
      BY <3>4, <3>5, <3>6 DEF Dated, Copied, Clones
    <3> QED BY <1>1, <3>1, <3>6, <3>7, Cloner
  <2> QED BY <2>1, <2>2
<1>5. CASE InsertVersion(r)
  <2>1. CASE status[v + 1] # "none"
    BY <1>1, <1>5, <2>1, Ended DEF InsertVersion
  <2>2. CASE status[v + 1] = "none"
    <3> DEFINE x == [req[r] EXCEPT !.at = "mods", !.seen = IdsIn(t)]
    <3>1. /\ Becomes(r, x) /\ UNCHANGED <<course, status, tree, ready, late, left>>
          /\ v < MaxVersion /\ ~ \E q \in Requests : Clones(req[q]) /\ req[q].v = v
          /\ req[r].at = "number"
      BY <1>5, <2>2 DEF InsertVersion, Cloning, Clones, At
    <3>2. IdsIn(t) \subseteq StableIds
      BY <1>1 DEF IdsIn, UnitsIn, ResIn, StableIds, Tree
    <3>3. x \in Request /\ x.op = "version" /\ x.at = "mods" /\ x.v = v /\ x.seen = IdsIn(t)
      BY <1>1, <3>2 DEF Request
    <3> HIDE DEF x
    <3>4. Dated(x, status)
      BY <1>1, <2>2, <3>1, <3>3 DEF Fits, Dated, Clones
    <3>5. /\ \A m \in ModuleIds : m \in IdsIn(t) => m \in t.mods
          /\ \A u \in UnitIds : u \in IdsIn(t) => t.units[u] # None
          /\ \A y \in ResourceIds : y \in IdsIn(t) => t.res[y] # None
      BY <1>1, AuthoringAssumption DEF IdsIn, UnitsIn, ResIn, Tree
    <3>6. Copied(x, tree[x.v])
      BY <3>3, <3>5 DEF Copied, Clones
    <3> QED BY <1>1, <3>1, <3>3, <3>4, <3>6, Cloner
  <2> QED BY <2>1, <2>2
<1>6. CASE CloneModules(r)
  <2> DEFINE c == [req[r].copy EXCEPT !.mods = t.mods]
             x == [req[r] EXCEPT !.at = "units", !.copy = c]
  <2>1. /\ Becomes(r, x) /\ UNCHANGED <<course, status, tree, ready, late, left>>
        /\ req[r].at = "mods"
    BY <1>6 DEF CloneModules, At
  <2>2. c \in Tree /\ c.mods = t.mods
    BY <1>1 DEF Request, Tree
  <2> HIDE DEF c
  <2>3. /\ x \in Request /\ x.op = "version" /\ x.at = "units" /\ x.v = v /\ x.copy = c
        /\ x.seen = req[r].seen
    BY <1>1, <2>2 DEF Request
  <2> HIDE DEF x
  <2>4. Clones(req[r]) /\ Clones(x)
    BY <1>1, <2>1, <2>3 DEF Clones
  <2>5. Dated(x, status)
    BY <1>1, <2>1, <2>3, <2>4 DEF Fits, Dated
  <2>6. Copied(x, t)
    BY <1>1, <1>2, <1>3, <2>2, <2>3, <2>4 DEF Fits, Copied
  <2>7. \A q \in Requests : Clones(req[q]) /\ req[q].v = x.v => q = r
    BY <2>3, <2>4 DEF IInv, OneCloner
  <2> QED BY <1>1, <2>1, <2>3, <2>5, <2>6, <2>7, Cloner
<1>7. CASE CloneUnits(r)
  <2> DEFINE us == [u \in UnitIds |-> IF t.units[u] \in req[r].copy.mods THEN t.units[u] ELSE None]
             c == [req[r].copy EXCEPT !.units = us]
             x == [req[r] EXCEPT !.at = "res", !.copy = c]
  <2>1. /\ Becomes(r, x) /\ UNCHANGED <<course, status, tree, ready, late, left>>
        /\ req[r].at = "units"
    BY <1>7 DEF CloneUnits, At
  <2>2. c \in Tree /\ c.mods = req[r].copy.mods /\ c.units = us /\ c.mods \subseteq ModuleIds
    BY <1>1 DEF Request, Tree
  <2>3. \A u \in UnitIds : us[u] = IF t.units[u] \in c.mods THEN t.units[u] ELSE None
    BY <2>2
  <2> HIDE DEF c, us
  <2>4. /\ x \in Request /\ x.op = "version" /\ x.at = "res" /\ x.v = v /\ x.copy = c
        /\ x.seen = req[r].seen
    BY <1>1, <2>2 DEF Request
  <2> HIDE DEF x
  <2>5. Clones(req[r]) /\ Clones(x)
    BY <1>1, <2>1, <2>4 DEF Clones
  <2>6. Dated(x, status)
    BY <1>1, <2>1, <2>4, <2>5 DEF Fits, Dated
  <2>7. Copied(x, t)
    <3>1. Copied(req[r], t)
      BY <1>1 DEF Fits
    <3>2. \A u \in UnitIds : u \in x.seen => us[u] # None
      BY <1>1, <2>1, <2>2, <2>3, <2>4, <2>5, <3>1 DEF Copied
    <3>3. \A y \in ResourceIds : y \in x.seen => us[t.res[y].unit] # None
      BY <1>1, <1>2, <2>1, <2>2, <2>3, <2>4, <2>5, <3>1 DEF Copied
    <3>4. \A u \in UnitIds : us[u] # None => us[u] = t.units[u] /\ us[u] \in c.mods
      BY <2>3
    <3> QED BY <2>1, <2>2, <2>4, <2>5, <3>1, <3>2, <3>3, <3>4 DEF Copied
  <2>8. \A q \in Requests : Clones(req[q]) /\ req[q].v = x.v => q = r
    BY <2>4, <2>5 DEF IInv, OneCloner
  <2> QED BY <1>1, <2>1, <2>4, <2>6, <2>7, <2>8, Cloner
<1> QED BY <1>4, <1>5, <1>6, <1>7

\* So do the reads of a change, the check that the version is a draft, and the trigger.
LEMMA GuardSteps ==
    ASSUME IInv, NEW r \in Requests, ReadResource(r) \/ Guard(r) \/ Trigger(r)
    PROVE  IInv'
<1> DEFINE q == req[r]
           t == tree[q.v]
<1>1. /\ q \in Request /\ Fits(q, status, tree) /\ t \in Tree /\ left \in [Kinds -> Nat]
      /\ q.op \in WriteOps /\ q.op \notin {"publish", "unpublish", "version"}
  BY DEF IInv, TypeOK, Request, ReadResource, Guard, Trigger, WriteOps, RowOps, Updates, Adds
<1>2. CASE ReadResource(r)
  <2> DEFINE x == [q EXCEPT !.at = "guard", !.row = t.res[q.id]]
  <2>1. q.op \in Updates /\ q.id \in ResourceIds /\ t.res[q.id] # None
    BY <1>1, <1>2 DEF ReadResource, Fits, Hangs
  <2>2. t.res[q.id] \in Resource
    BY <1>1, <2>1 DEF Tree
  <2>3. /\ x \in Request /\ x.op = q.op /\ x.v = q.v /\ x.at = "guard" /\ x.row = t.res[q.id]
        /\ x.id = q.id /\ x.want = q.want
    BY <1>1, <2>2 DEF Request
  <2>4. Becomes(r, x) /\ UNCHANGED <<course, status, tree, ready, late, left>>
    BY <1>2 DEF ReadResource
  <2> HIDE DEF x
  <2>5. Dated(x, status) /\ Hangs(x, tree[x.v])
    BY <1>1, <2>1, <2>3 DEF Fits, Dated, Hangs, Clones
  <2> QED BY <1>1, <2>3, <2>4, <2>5, Passed
<1>3. ASSUME NEW at \in {"write", "commit"}, Moves(r, at), q.op \in Updates => q.at \in {"guard", "write"},
             UNCHANGED <<course, status, tree, ready, late, left>>,
             at = "commit" => status[q.v] # "published"
      PROVE  IInv'
  <2> DEFINE x == [q EXCEPT !.at = at]
  <2>1. /\ x \in Request /\ x.op = q.op /\ x.v = q.v /\ x.at = at /\ x.row = q.row
        /\ x.id = q.id /\ x.want = q.want
    BY <1>1 DEF Request
  <2>2. Becomes(r, x)
    BY <1>3 DEF Moves
  <2> HIDE DEF x
  <2>3. Dated(x, status) /\ Hangs(x, tree[x.v])
    BY <1>1, <1>3, <2>1 DEF Fits, Dated, Hangs, Clones
  <2> QED BY <1>1, <1>3, <2>1, <2>2, <2>3, Passed
<1>4. CASE Ends(r) /\ UNCHANGED <<course, status, tree, ready, left>>
  BY <1>1, <1>4, Ended
<1>5. CASE Guard(r)
  <2>1. /\ q.op \in Updates => q.at \in {"guard", "write"}
        /\ UNCHANGED <<course, status, tree, ready, left>>
    BY <1>5 DEF Guard
  <2>2. CASE Editable(q.v) /\ IfMatch(q)
    <3>1. Moves(r, IF q.op = "quiz" THEN "commit" ELSE "write") /\ UNCHANGED late
          /\ status[q.v] # "published"
      BY <1>5, <2>2 DEF Guard, Editable
    <3> QED BY <1>3, <2>1, <3>1
  <2>3. CASE ~(Editable(q.v) /\ IfMatch(q))
    BY <1>4, <1>5, <2>1, <2>3 DEF Guard
  <2> QED BY <2>2, <2>3
<1>6. CASE Trigger(r)
  BY <1>3, <1>4, <1>6 DEF Trigger
<1> QED BY <1>2, <1>5, <1>6

\* A node is added, a resource is rewritten.
LEMMA WriteSteps ==
    ASSUME IInv, NEW r \in Requests,
           \/ \E i \in StableIds : AddModule(r, i) \/ AddUnit(r, i) \/ AddResource(r, i)
           \/ SaveContent(r) \/ UpdateResource(r) \/ PutQuiz(r)
    PROVE  IInv'
<1> DEFINE q == req[r]
           t == tree[q.v]
<1>1. /\ q \in Request /\ Hangs(q, t) /\ t \in Tree /\ Whole(t) /\ q.v \in Versions
      /\ q.at = "commit" /\ q.op \in WriteOps
      /\ None \notin StableIds \union Resource
  BY AuthoringAssumption DEF IInv, TypeOK, Request, Fits, Trees, AddModule, AddUnit, AddResource,
         SaveContent, UpdateResource, PutQuiz, Rewrite, Commits, At, WriteOps, RowOps, Adds, Updates
<1>2. ASSUME NEW op, NEW t2 \in Tree, Commits(r, op, t2), Grows(t, t2), Whole(t2) PROVE IInv'
  BY <1>1, <1>2, Grown DEF Commits
<1>3. ASSUME NEW op, NEW row \in Resource, q.id \in ResourceIds, t.res[q.id] # None,
             row.unit = t.res[q.id].unit, Commits(r, op, [t EXCEPT !.res[q.id] = row])
      PROVE  IInv'
  <2> DEFINE t2 == [t EXCEPT !.res[q.id] = row]
  <2>1. /\ t2 \in Tree /\ t2.mods = t.mods /\ t2.units = t.units
        /\ \A y \in ResourceIds : t2.res[y] = IF y = q.id THEN row ELSE t.res[y]
    BY <1>1, <1>3 DEF Tree
  <2> HIDE DEF t2
  <2>2. Grows(t, t2) /\ Whole(t2)
    BY <1>1, <1>3, <2>1 DEF Grows, Whole
  <2> QED BY <1>2, <1>3, <2>1, <2>2 DEF t2
<1>4. ASSUME NEW m \in StableIds, AddModule(r, m) PROVE IInv'
  <2> DEFINE t2 == [t EXCEPT !.mods = @ \union {m}]
  <2>1. m \in ModuleIds /\ Commits(r, "addModule", t2)
    BY <1>4 DEF AddModule, Unused
  <2>2. t2 \in Tree /\ t2.mods = t.mods \union {m} /\ t2.units = t.units /\ t2.res = t.res
    BY <1>1, <2>1 DEF Tree
  <2> HIDE DEF t2
  <2>3. Grows(t, t2) /\ Whole(t2)
    BY <1>1, <2>2 DEF Grows, Whole
  <2> QED BY <1>2, <2>1, <2>2, <2>3
<1>5. ASSUME NEW u \in StableIds, AddUnit(r, u) PROVE IInv'
  <2> DEFINE t2 == [t EXCEPT !.units[u] = q.id]
  <2>1. u \in UnitIds /\ u \notin IdsIn(t) /\ Commits(r, "addUnit", t2) /\ q.op = "addUnit"
    BY <1>1, <1>5 DEF AddUnit, Unused, Commits, At
  <2>2. t.units[u] = None /\ q.id \in t.mods
    BY <1>1, <2>1 DEF IdsIn, UnitsIn, Tree, Hangs
  <2>3. /\ t2 \in Tree /\ t2.mods = t.mods /\ t2.res = t.res
        /\ \A w \in UnitIds : t2.units[w] = IF w = u THEN q.id ELSE t.units[w]
    BY <1>1, <2>1, <2>2 DEF Tree
  <2> HIDE DEF t2
  <2>4. q.id # None /\ \A y \in ResourceIds : t.res[y] # None => t.res[y].unit \in UnitIds
    BY <1>1, <2>2 DEF Tree, StableIds, Resource
  <2>5. Grows(t, t2) /\ Whole(t2)
    BY <1>1, <2>2, <2>3, <2>4 DEF Grows, Whole
  <2> QED BY <1>2, <2>1, <2>3, <2>5
<1>6. ASSUME NEW y \in StableIds, AddResource(r, y) PROVE IInv'
  <2> DEFINE t2 == [t EXCEPT !.res[y] = q.want]
  <2>1. y \in ResourceIds /\ y \notin IdsIn(t) /\ Commits(r, "addResource", t2) /\ q.op = "addResource"
    BY <1>1, <1>6 DEF AddResource, Unused, Commits, At
  <2>2. t.res[y] = None
    BY <2>1, <1>1 DEF IdsIn, ResIn, Tree, Resource
  <2>3. q.want \in Resource /\ q.want # None /\ t.units[q.want.unit] # None
    BY <1>1, <2>1 DEF Hangs, Request
  <2>4. /\ t2 \in Tree /\ t2.mods = t.mods /\ t2.units = t.units
        /\ \A z \in ResourceIds : t2.res[z] = IF z = y THEN q.want ELSE t.res[z]
    BY <1>1, <2>1, <2>3 DEF Tree
  <2> HIDE DEF t2
  <2>5. Grows(t, t2) /\ Whole(t2)
    BY <1>1, <2>2, <2>3, <2>4 DEF Grows, Whole
  <2> QED BY <1>2, <2>1, <2>4, <2>5
<1>7. ASSUME q.op \in Updates \union {"quiz"}
      PROVE  /\ q.id \in ResourceIds /\ t.res[q.id] \in Resource /\ t.res[q.id] # None
             /\ q.want \in Resource
             /\ q.op \in Updates => q.row \in Resource /\ q.row.unit = t.res[q.id].unit
  BY <1>1, <1>7 DEF Hangs, Tree, Request
<1>8. ASSUME NEW op \in Updates, NEW row \in Resource, q.op = op, row.unit = q.row.unit,
             Rewrite(r, op, row)
      PROVE  IInv'
  <2> DEFINE new == [row EXCEPT !.quiz = t.res[q.id].quiz]
  <2>1. new \in Resource /\ new.unit = t.res[q.id].unit
    BY <1>7, <1>8 DEF Resource
  <2>2. Commits(r, op, [t EXCEPT !.res[q.id] = new])
    BY <1>8 DEF Rewrite
  <2> HIDE DEF new
  <2> QED BY <1>3, <1>7, <1>8, <2>1, <2>2
<1>9. CASE SaveContent(r)
  <2> DEFINE row == [q.row EXCEPT !.text = q.want.text]
  <2>1. q.op = "save" /\ Rewrite(r, "save", row)
    BY <1>9 DEF SaveContent, Rewrite, Commits, At
  <2>2. row \in Resource /\ row.unit = q.row.unit
    BY <1>7, <2>1 DEF Resource, Updates
  <2> HIDE DEF row
  <2> QED BY <1>8, <2>1, <2>2 DEF Updates
<1>10. CASE UpdateResource(r)
  <2> DEFINE link == IF q.want.link = None THEN q.row.link ELSE q.want.link
             row == [q.row EXCEPT !.visible = q.want.visible, !.link = link]
  <2>1. q.op = "update" /\ Rewrite(r, "update", row)
    BY <1>10 DEF UpdateResource, Rewrite, Commits, At
  <2>2. q.row \in Resource /\ q.want \in Resource
    BY <1>7, <2>1 DEF Updates
  <2>3. q.want.visible \in BOOLEAN
    BY <2>2, Zenon DEF Resource
  <2>4. link \in Links \union {None}
    BY <2>2 DEF Resource
  <2> HIDE DEF link
  <2>5. row \in Resource /\ row.unit = q.row.unit
    BY <2>2, <2>3, <2>4, Revised DEF Resource
  <2> HIDE DEF row
  <2> QED BY <1>8, <2>1, <2>5 DEF Updates
<1>11. CASE PutQuiz(r)
  <2> DEFINE row == [t.res[q.id] EXCEPT !.quiz = q.want.quiz]
  <2>1. q.op = "quiz" /\ Commits(r, "quiz", [t EXCEPT !.res[q.id].quiz = q.want.quiz])
    BY <1>11 DEF PutQuiz, Commits, At
  <2>2. row \in Resource /\ row.unit = t.res[q.id].unit
    BY <1>7, <2>1 DEF Resource
  <2>3. [t EXCEPT !.res[q.id].quiz = q.want.quiz] = [t EXCEPT !.res[q.id] = row]
    BY <1>1, <1>7, <2>1 DEF Tree
  <2> HIDE DEF row
  <2> QED BY <1>3, <1>7, <2>1, <2>2, <2>3
<1> QED BY <1>4, <1>5, <1>6, <1>9, <1>10, <1>11

\* The invariant is inductive.
LEMMA IInvNext == IInv /\ [Next]_vars => IInv'
<1> SUFFICES ASSUME IInv, [Next]_vars PROVE IInv'
  OBVIOUS
<1>1. CASE UNCHANGED vars
  BY <1>1 DEF vars, IInv, TypeOK, Chain, OneDraft, Trees, OneCloner
<1>2. ASSUME NEW complete \in BOOLEAN, CreateCourse(complete) PROVE IInv'
  BY <1>2, Created
<1>3. CASE UpdateCourse
  <2>1. /\ course # NoCourse /\ course' = [course EXCEPT !.complete = ~@]
        /\ UNCHANGED <<status, tree, ready, req, late>>
        /\ course \in [current : 0..MaxVersion, complete : BOOLEAN,
                       status : {"absent", "draft", "published", "unpublished"}]
    BY <1>3 DEF UpdateCourse, IInv, TypeOK
  <2>2. left' \in [Kinds -> Nat]
    BY <1>3, BudgetStep DEF UpdateCourse, IInv
  <2>3. course'.current = course.current /\ course'.status = course.status
    BY <2>1
  <2>4. course' \in [current : 0..MaxVersion, complete : BOOLEAN,
                     status : {"absent", "draft", "published", "unpublished"}]
    BY <2>1, Zenon
  <2>5. TypeOK'
    BY <2>1, <2>2, <2>4 DEF IInv, TypeOK
  <2>6. 0 \notin Versions
    BY AuthoringAssumption DEF Versions
  <2>7. Chain(course', status')
    <3>1. course'.current \in Versions /\ course'.status = status'[course'.current]
          /\ course'.status # "none"
      BY <2>1, <2>3 DEF IInv, Chain
    <3>2. course' # NoCourse
      BY <3>1, <2>6 DEF NoCourse
    <3> QED BY <2>1, <3>1, <3>2 DEF IInv, Chain
  <2> QED BY <2>1, <2>5, <2>7 DEF IInv, OneDraft, Trees, OneCloner
<1>4. ASSUME NEW a \in Links, AssetChanges(a) PROVE IInv'
  <2>1. UNCHANGED <<course, status, tree, req, late>> /\ ready' \subseteq Links
    BY <1>4 DEF AssetChanges, IInv, TypeOK
  <2>2. left' \in [Kinds -> Nat]
    BY <1>4, BudgetStep DEF AssetChanges, IInv
  <2>3. TypeOK'
    BY <2>1, <2>2 DEF IInv, TypeOK
  <2> QED BY <2>1, <2>3 DEF IInv, Chain, OneDraft, Trees, OneCloner
<1>5. ASSUME NEW r \in Requests, Lost(r) PROVE IInv'
  <2>1. left' \in [Kinds -> Nat]
    BY <1>5, BudgetStep DEF Lost, IInv
  <2> QED BY <1>5, <2>1, Ended DEF Lost
<1>6. ASSUME NEW r \in Requests, Step(r) PROVE IInv'
  BY <1>6, PublishSteps, UnpublishSteps, VersionSteps, Cloned, GuardSteps, WriteSteps DEF Step
<1> QED BY <1>1, <1>2, <1>3, <1>4, <1>5, <1>6, AskStep DEF Next

\* The invariant, for every behaviour.
LEMMA Invariance == Spec => []IInv
<1> QED BY IInvInit, IInvNext, PTL DEF Spec

-----------------------------------------------------------------------------
(* The theorems. *)

\* The variables keep their types, and no unit or resource ever hangs from a node that
\* its own version lacks: neither a clone, which copies in three statements while its
\* origin grows, nor a write breaks a tree (authoring.go:440-472).
THEOREM TypeCorrect == Spec => []TypeOK
<1>1. IInv => TypeOK
  BY DEF IInv
<1> QED BY <1>1, Invariance, PTL

\* A course has at most one draft open, its last version: although NewVersion looks
\* for drafts and counts versions outside its transaction, whoever inserts the number
\* has seen every version there is (service.go:264-272, authoring.go:425-440).
THEOREM OneDraftAtATime == Spec => []OneDraft
<1>1. IInv => OneDraft
  BY DEF IInv
<1> QED BY <1>1, Invariance, PTL

\* A publication comes to its commit only by validating.
LEMMA ComesToCommit ==
    ASSUME IInv, [Next]_vars, NEW r \in Requests, req[r].op = "publish",
           req[r].at # "commit", req'[r].at = "commit"
    PROVE  PublishValidates(r) /\ req'[r].seen = ResIn(tree[req[r].v], req[r].seen)
<1>1. req \in [Requests -> Request] /\ req[r] \in Request /\ req'[r] # req[r]
  BY DEF IInv, TypeOK
<1>2. PICK q \in Requests : Ask(q) \/ Step(q) \/ Lost(q)
  BY <1>1 DEF Next, vars, CreateCourse, UpdateCourse, AssetChanges
<1>3. \A x : Becomes(q, x) => q = r /\ req'[r] = x
  BY <1>1 DEF Becomes
<1>4. Idle.op = "none" /\ Idle.at = "idle"
  BY DEF Idle
<1>5. ~Ask(q)
  <2>1. \A x : ~Asks(q, x)
    BY <1>3, <1>4 DEF Asks
  <2> QED BY <2>1 DEF Ask, AskVersion, AskTransition, AskModule, AskUnit, AskResource, AskSave,
                      AskUpdate, AskQuiz
<1>6. req' # [req EXCEPT ![q] = Idle]
  BY <1>1, <1>4
<1>7. Step(q)
  BY <1>2, <1>5, <1>6 DEF Lost, Ends
<1>8. \/ PublishReadsCourse(q) \/ PublishReadsVersion(q) \/ PublishReadsModules(q)
      \/ PublishReadsUnits(q) \/ PublishValidates(q) \/ UnpublishReads(q) \/ NewVersionReads(q)
      \/ InsertVersion(q) \/ CloneModules(q) \/ CloneUnits(q) \/ ReadResource(q) \/ Guard(q)
      \/ Trigger(q)
  BY <1>6, <1>7 DEF Step, PublishCommits, UnpublishCommits, CloneResources, SaveContent,
     UpdateResource, PutQuiz, AddModule, AddUnit, AddResource, Rewrite, Commits, Ends
<1>9. q = r
  BY <1>3, <1>6, <1>8 DEF PublishReadsCourse, PublishReadsVersion, PublishReadsModules,
     PublishReadsUnits, PublishValidates, UnpublishReads, NewVersionReads, InsertVersion,
     CloneModules, CloneUnits, ReadResource, Guard, Trigger, Moves, Ends
<1>10. /\ ~UnpublishReads(r) /\ ~NewVersionReads(r) /\ ~InsertVersion(r) /\ ~CloneModules(r)
       /\ ~CloneUnits(r) /\ ~ReadResource(r) /\ ~Guard(r) /\ ~Trigger(r)
  BY DEF UnpublishReads, NewVersionReads, InsertVersion, CloneModules, CloneUnits, ReadResource,
     Guard, Trigger, At, WriteOps, RowOps, Adds, Updates
<1>11. PublishValidates(r)
  <2>1. ~PublishReadsCourse(r)
    BY <1>1, Zenon DEF PublishReadsCourse, Becomes, Request
  <2>2. ~PublishReadsVersion(r)
    BY <1>1, <1>3, <1>6, <1>9 DEF PublishReadsVersion, Moves, Ends, Request
  <2>3. ~PublishReadsModules(r)
    BY <1>1, <1>6, <1>9 DEF PublishReadsModules, Ends, Becomes, Request
  <2>4. ~PublishReadsUnits(r)
    BY <1>1 DEF PublishReadsUnits, Becomes, Request
  <2> QED BY <1>8, <1>9, <1>10, <2>1, <2>2, <2>3, <2>4
<1>12. req'[r].seen = ResIn(tree[req[r].v], req[r].seen)
  BY <1>1, <1>6, <1>9, <1>11 DEF PublishValidates, Ends, Becomes, Request
<1> QED BY <1>11, <1>12

\* A publication validates every resource there was when it was asked for, however the
\* tree grows between its three queries, and what it commits is what it validated,
\* save for the writes that commit in between (service.go:171-203, authoring.go:206-219).
THEOREM PublicationsAreValidated == Spec => PublishedIsValidated
<1>1. ASSUME IInv, [Next]_vars, NEW r \in Requests, req[r].op = "publish"
      PROVE  LET c == req[r].copy
                 t == tree[req[r].v]
             IN  /\ req[r].at # "commit" /\ req'[r].at = "commit"
                    => ResIn(c, UnitIds) \subseteq req'[r].seen
                 /\ req[r].at = "commit"
                    => /\ \A x \in req[r].seen :
                             t.res[x] = c.res[x] /\ t.res[x].visible => ~BadRow(t.res[x])
                       /\ (\A x \in req[r].seen : t.res[x] = c.res[x])
                          => \E x \in ResIn(t, UnitIds) : t.res[x].visible
  <2> DEFINE c == req[r].copy
             t == tree[req[r].v]
  <2>1. ASSUME req[r].at # "commit", req'[r].at = "commit"
        PROVE  ResIn(c, UnitIds) \subseteq req'[r].seen
    <3>1. PublishValidates(r) /\ req'[r].seen = ResIn(t, req[r].seen)
      BY <1>1, <2>1, ComesToCommit
    <3>2. At(r, "publish", "res")
      BY <3>1 DEF PublishValidates
    <3> QED BY <1>1, <3>1, <3>2, Validated
  <2>2. ASSUME req[r].at = "commit"
        PROVE  /\ \A x \in req[r].seen :
                      t.res[x] = c.res[x] /\ t.res[x].visible => ~BadRow(t.res[x])
               /\ (\A x \in req[r].seen : t.res[x] = c.res[x])
                  => \E x \in ResIn(t, UnitIds) : t.res[x].visible
    <3>1. Sound(c, req[r].seen)
      BY <1>1, <2>2 DEF IInv, Fits, Hangs, Looks
    <3>2. \A x \in req[r].seen : x \in ResIn(c, UnitIds)
      BY <3>1 DEF Sound
    <3>3. ASSUME NEW x \in req[r].seen, t.res[x] = c.res[x] PROVE x \in ResIn(t, UnitIds)
      BY <3>2, <3>3 DEF ResIn
    <3>4. ASSUME NEW x \in req[r].seen, t.res[x] = c.res[x], t.res[x].visible
          PROVE  ~BadRow(t.res[x])
      BY <3>1, <3>4, Zenon DEF Sound
    <3>5. ASSUME \A x \in req[r].seen : t.res[x] = c.res[x]
          PROVE  \E x \in ResIn(t, UnitIds) : t.res[x].visible
      BY <3>1, <3>3, <3>5, Zenon DEF Sound
    <3> QED BY <3>4, <3>5
  <2> QED BY <2>1, <2>2
<1>2. IInv /\ [Next]_vars =>
        [\A r \in Requests : req[r].op = "publish" =>
           LET c == req[r].copy
               t == tree[req[r].v]
           IN  /\ req[r].at # "commit" /\ req'[r].at = "commit"
                  => ResIn(c, UnitIds) \subseteq req'[r].seen
               /\ req[r].at = "commit"
                  => /\ \A x \in req[r].seen :
                           t.res[x] = c.res[x] /\ t.res[x].visible => ~BadRow(t.res[x])
                     /\ (\A x \in req[r].seen : t.res[x] = c.res[x])
                        => \E x \in ResIn(t, UnitIds) : t.res[x].visible]_vars
  BY <1>1
<1> QED BY <1>2, Invariance, PTL DEF Spec, PublishedIsValidated

\* The course shows the version published or withdrawn last, with its status
\* (authoring.go:295-360).
THEOREM CourseFollows == Spec => []CourseFollowsItsVersion
<1>1. IInv => CourseFollowsItsVersion
  BY DEF IInv, Chain, CourseFollowsItsVersion
<1> QED BY <1>1, Invariance, PTL

\* What changes a tree is a request that commits, and no other request moves.
LEMMA TreeChanges ==
    ASSUME IInv, [Next]_vars, tree' # tree
    PROVE  \E q \in Requests : /\ req' = [req EXCEPT ![q] = Idle]
                               /\ \/ req[q].op \in WriteOps /\ req[q].at = "commit"
                                  \/ CloneResources(q)
<1>1. PICK q \in Requests : Ask(q) \/ Step(q) \/ Lost(q)
  BY DEF Next, vars, CreateCourse, UpdateCourse, AssetChanges
<1>2. ~Ask(q) /\ ~Lost(q)
  <2>1. \A x : ~Asks(q, x)
    BY DEF Asks
  <2> QED BY <2>1 DEF Ask, AskVersion, AskTransition, AskModule, AskUnit, AskResource, AskSave,
                      AskUpdate, AskQuiz, Lost
<1>3. \/ CloneResources(q) \/ SaveContent(q) \/ UpdateResource(q) \/ PutQuiz(q)
      \/ \E i \in StableIds : AddModule(q, i) \/ AddUnit(q, i) \/ AddResource(q, i)
  BY <1>1, <1>2 DEF Step, PublishReadsCourse, PublishReadsVersion, PublishReadsModules,
     PublishReadsUnits, PublishValidates, PublishCommits, UnpublishReads, UnpublishCommits,
     NewVersionReads, InsertVersion, CloneModules, CloneUnits, ReadResource, Guard, Trigger
<1>4. CASE CloneResources(q)
  BY <1>4 DEF CloneResources, Ends
<1>5. ASSUME NEW op \in WriteOps, NEW t, Commits(q, op, t)
      PROVE  req' = [req EXCEPT ![q] = Idle] /\ req[q].op \in WriteOps /\ req[q].at = "commit"
  BY <1>5 DEF Commits, Ends, At
<1>6. {"addModule", "addUnit", "addResource", "save", "update", "quiz"} \subseteq WriteOps
  BY DEF WriteOps, RowOps, Adds, Updates
<1>7. CASE ~CloneResources(q)
  BY <1>3, <1>5, <1>6, <1>7 DEF SaveContent, UpdateResource, PutQuiz, AddModule, AddUnit, AddResource,
     Rewrite
<1> QED BY <1>4, <1>7

\* A write whose statement starts once its version is published changes nothing: the
\* request is never between its trigger and its commit (migration 0002:165-188).
THEOREM LateWritesAreRefused == Spec => LateWriteIsRefused
<1>1. IInv /\ [Next]_vars => [\A r \in late : req'[r] # req[r] => tree' = tree]_vars
  <2> SUFFICES ASSUME IInv, [Next]_vars, NEW r \in late, tree' # tree PROVE req'[r] = req[r]
    OBVIOUS
  <2>1. r \in Requests /\ req \in [Requests -> Request] /\ Tardy(req[r], status)
    BY DEF IInv, TypeOK
  <2>2. PICK q \in Requests : /\ req' = [req EXCEPT ![q] = Idle]
                              /\ \/ req[q].op \in WriteOps /\ req[q].at = "commit"
                                 \/ CloneResources(q)
    BY TreeChanges
  <2>3. q # r
    BY <2>1, <2>2 DEF Tardy, CloneResources, At, WriteOps, RowOps, Adds, Updates
  <2> QED BY <2>1, <2>2, <2>3
<1> QED BY <1>1, Invariance, PTL DEF Spec, LateWriteIsRefused

\* The tree that a clone leaves has only nodes of the one before, and all of those it
\* had when the clone began (authoring.go:437-472, ADR-0007).
LEMMA Inherits ==
    ASSUME IInv, NEW r \in Requests, CloneResources(r)
    PROVE  /\ req[r].seen \subseteq IdsIn(tree'[req[r].v + 1])
           /\ IdsIn(tree'[req[r].v + 1]) \subseteq IdsIn(tree[req[r].v])
<1> DEFINE x == req[r]
           t == tree[x.v]
           c == x.copy
           us == UnitsIn(c, ModuleIds)
           t2 == [c EXCEPT !.res = CopyOfResources(t, us)]
<1>1. /\ x \in Request /\ x.v \in Versions /\ c \in Tree /\ t \in Tree /\ Clones(x)
      /\ x.at = "res" /\ Fits(x, status, tree) /\ us \subseteq UnitIds
      /\ MaxVersion \in Nat /\ None \notin ModuleIds /\ x.seen \subseteq StableIds
      /\ tree \in [Versions -> Tree]
  BY AuthoringAssumption DEF IInv, TypeOK, Request, CloneResources, At, Clones, UnitsIn, StableIds
<1>2. x.v + 1 \in Versions
  BY <1>1 DEF Fits, Dated, Versions
<1>3. tree'[x.v + 1] = t2
  BY <1>1, <1>2 DEF CloneResources
<1>4. /\ t2.mods = c.mods /\ t2.units = c.units
      /\ \A y \in ResourceIds : (t2.res[y] # None <=> y \in ResIn(t, us))
                                /\ (y \in ResIn(t, us) => t2.res[y].unit = t.res[y].unit)
  BY <1>1, CopyTyped DEF Tree
<1> HIDE DEF t2
<1>5. Copied(x, t)
  BY <1>1 DEF Fits
<1>6. \A u \in UnitIds : c.units[u] # None <=> u \in us
  BY <1>1 DEF UnitsIn, Tree
<1>7. \A y \in ResourceIds : t.res[y] # None => t.res[y].unit \in UnitIds
  BY <1>1 DEF Tree, Resource
<1>8. IdsIn(t2) = c.mods \union us \union ResIn(t, us)
  <2>1. UnitsIn(t2, ModuleIds) = us
    BY <1>4 DEF UnitsIn
  <2>2. ResIn(t2, UnitIds) = ResIn(t, us)
    BY <1>1, <1>4 DEF ResIn
  <2> QED BY <1>4, <2>1, <2>2 DEF IdsIn
<1> HIDE DEF us
<1>9. x.seen \subseteq IdsIn(t2)
  <2>1. \A m \in ModuleIds : m \in x.seen => m \in c.mods
    BY <1>1, <1>5 DEF Copied
  <2>2. \A u \in UnitIds : u \in x.seen => u \in us
    BY <1>1, <1>5, <1>6 DEF Copied
  <2>3. \A y \in ResourceIds : y \in x.seen => y \in ResIn(t, us)
    BY <1>1, <1>5, <1>6, <1>7 DEF Copied, ResIn
  <2> QED BY <1>1, <1>8, <2>1, <2>2, <2>3 DEF StableIds
<1>10. IdsIn(t2) \subseteq IdsIn(t)
  <2>1. c.mods \subseteq t.mods
    BY <1>1, <1>5 DEF Copied
  <2>2. us \subseteq UnitsIn(t, ModuleIds)
    <3>1. \A u \in us : u \in UnitIds /\ c.units[u] \in ModuleIds
      BY DEF us, UnitsIn
    <3>2. \A u \in us : c.units[u] = t.units[u]
      BY <1>1, <1>5, <1>6, <3>1 DEF Copied
    <3> QED BY <3>1, <3>2 DEF UnitsIn
  <2>3. ResIn(t, us) \subseteq ResIn(t, UnitIds)
    BY <1>1 DEF ResIn
  <2> QED BY <1>8, <2>1, <2>2, <2>3 DEF IdsIn
<1> QED BY <1>3, <1>9, <1>10

\* When NewVersion commits, the new version has every module, unit and resource that the
\* version before had when the clone began, with the same stable ids, and none that the
\* version before has not (CloneVersion).
THEOREM ClonesInherit == Spec => CloneInheritsAll
<1>1. IInv /\ [Next]_vars =>
        [\A r \in Requests : LET n == req[r].v + 1
                             IN  /\ Cloning(r) /\ req'[r] = Idle /\ tree' # tree
                                 => /\ req[r].seen \subseteq IdsIn(tree'[n])
                                    /\ IdsIn(tree'[n]) \subseteq IdsIn(tree[req[r].v])]_vars
  <2> SUFFICES ASSUME IInv, [Next]_vars, NEW r \in Requests,
                      Cloning(r), req'[r] = Idle, tree' # tree
               PROVE  /\ req[r].seen \subseteq IdsIn(tree'[req[r].v + 1])
                      /\ IdsIn(tree'[req[r].v + 1]) \subseteq IdsIn(tree[req[r].v])
    OBVIOUS
  <2>1. PICK q \in Requests : /\ req' = [req EXCEPT ![q] = Idle]
                              /\ \/ req[q].op \in WriteOps /\ req[q].at = "commit"
                                 \/ CloneResources(q)
    BY TreeChanges
  <2>2. q = r
    BY <2>1 DEF IInv, TypeOK, Cloning, Idle
  <2>3. CloneResources(r)
    BY <2>1, <2>2 DEF Cloning, WriteOps, RowOps, Adds, Updates
  <2> QED BY <2>3, Inherits
<1> QED BY <1>1, Invariance, PTL DEF Spec, CloneInheritsAll


-----------------------------------------------------------------------------
(* Authoring implements CourseContract. *)

\* A write adds one stable id, or none.
LEMMA WriteIds ==
    ASSUME IInv, NEW r \in Requests,
           \/ \E i \in StableIds : AddModule(r, i) \/ AddUnit(r, i) \/ AddResource(r, i)
           \/ SaveContent(r) \/ UpdateResource(r) \/ PutQuiz(r)
    PROVE  /\ \E t2 : tree' = [tree EXCEPT ![req[r].v] = t2]
           /\ \/ IdsIn(tree'[req[r].v]) = IdsIn(tree[req[r].v])
              \/ \E i \in StableIds : /\ \A w \in Versions : i \notin IdsIn(tree[w])
                                      /\ IdsIn(tree'[req[r].v]) = IdsIn(tree[req[r].v]) \union {i}
<1> DEFINE q == req[r]
           t == tree[q.v]
<1>1. /\ q \in Request /\ Hangs(q, t) /\ t \in Tree /\ q.v \in Versions
      /\ q.at = "commit" /\ tree \in [Versions -> Tree]
      /\ None \notin StableIds \union Resource
  BY AuthoringAssumption DEF IInv, TypeOK, Request, Fits, AddModule, AddUnit, AddResource,
         SaveContent, UpdateResource, PutQuiz, Rewrite, Commits, At
<1>2. ASSUME NEW op, NEW t2, Commits(r, op, t2) PROVE tree' = [tree EXCEPT ![q.v] = t2] /\ q.op = op
  BY <1>2 DEF Commits, At
<1>3. ASSUME NEW op, NEW row \in Resource, q.id \in ResourceIds, t.res[q.id] # None,
             Commits(r, op, [t EXCEPT !.res[q.id] = row])
      PROVE  IdsIn(tree'[q.v]) = IdsIn(t)
  <2> DEFINE t2 == [t EXCEPT !.res[q.id] = row]
  <2>1. /\ t2.mods = t.mods /\ t2.units = t.units
        /\ \A y \in ResourceIds : t2.res[y] = IF y = q.id THEN row ELSE t.res[y]
    BY <1>1, <1>3 DEF Tree
  <2>2. tree'[q.v] = t2
    BY <1>1, <1>2, <1>3
  <2> HIDE DEF t2
  <2>3. \A y \in ResourceIds : t.res[y] # None => t.res[y].unit \in UnitIds
    BY <1>1 DEF Tree, Resource
  <2>4. row.unit \in UnitIds /\ row # None
    BY <1>1, <1>3 DEF Resource
  <2>5. ResIn(t2, UnitIds) = ResIn(t, UnitIds) /\ UnitsIn(t2, ModuleIds) = UnitsIn(t, ModuleIds)
    BY <1>3, <2>1, <2>3, <2>4 DEF ResIn, UnitsIn
  <2> QED BY <2>1, <2>2, <2>5 DEF IdsIn
<1>4. ASSUME NEW m \in StableIds, AddModule(r, m)
      PROVE  /\ \A w \in Versions : m \notin IdsIn(tree[w])
             /\ IdsIn(tree'[q.v]) = IdsIn(t) \union {m}
  <2> DEFINE t2 == [t EXCEPT !.mods = @ \union {m}]
  <2>1. tree'[q.v] = t2
    BY <1>1, <1>2, <1>4 DEF AddModule
  <2>2. t2.mods = t.mods \union {m} /\ t2.units = t.units /\ t2.res = t.res
    BY <1>1 DEF Tree
  <2> QED BY <1>4, <2>1, <2>2 DEF AddModule, Unused, IdsIn, UnitsIn, ResIn
<1>5. ASSUME NEW u \in StableIds, AddUnit(r, u)
      PROVE  /\ \A w \in Versions : u \notin IdsIn(tree[w])
             /\ IdsIn(tree'[q.v]) = IdsIn(t) \union {u}
  <2> DEFINE t2 == [t EXCEPT !.units[u] = q.id]
  <2>1. tree'[q.v] = t2 /\ u \in UnitIds /\ q.id \in t.mods
    BY <1>1, <1>2, <1>5 DEF AddUnit, Unused, Hangs
  <2>2. /\ t2.mods = t.mods /\ t2.res = t.res
        /\ \A w \in UnitIds : t2.units[w] = IF w = u THEN q.id ELSE t.units[w]
    BY <1>1, <2>1 DEF Tree
  <2>3. q.id \in ModuleIds
    BY <1>1, <2>1 DEF Tree
  <2> HIDE DEF t2
  <2>4. UnitsIn(t2, ModuleIds) = UnitsIn(t, ModuleIds) \union {u} /\ ResIn(t2, UnitIds) = ResIn(t, UnitIds)
    BY <2>1, <2>2, <2>3 DEF UnitsIn, ResIn
  <2> QED BY <1>5, <2>1, <2>2, <2>4 DEF AddUnit, Unused, IdsIn
<1>6. ASSUME NEW y \in StableIds, AddResource(r, y)
      PROVE  /\ \A w \in Versions : y \notin IdsIn(tree[w])
             /\ IdsIn(tree'[q.v]) = IdsIn(t) \union {y}
  <2> DEFINE t2 == [t EXCEPT !.res[y] = q.want]
  <2>1. tree'[q.v] = t2 /\ y \in ResourceIds /\ q.want # None
    BY <1>1, <1>2, <1>6 DEF AddResource, Unused, Hangs
  <2>2. /\ t2.mods = t.mods /\ t2.units = t.units
        /\ \A w \in ResourceIds : t2.res[w] = IF w = y THEN q.want ELSE t.res[w]
    BY <1>1, <2>1 DEF Tree
  <2>3. q.want.unit \in UnitIds
    BY <1>1, <2>1 DEF Request, Resource
  <2> HIDE DEF t2
  <2>4. ResIn(t2, UnitIds) = ResIn(t, UnitIds) \union {y} /\ UnitsIn(t2, ModuleIds) = UnitsIn(t, ModuleIds)
    BY <2>1, <2>2, <2>3 DEF UnitsIn, ResIn
  <2> QED BY <1>6, <2>1, <2>2, <2>4 DEF AddResource, Unused, IdsIn
<1>7. ASSUME q.op \in Updates \union {"quiz"}
      PROVE  /\ q.id \in ResourceIds /\ t.res[q.id] \in Resource /\ t.res[q.id] # None
             /\ q.want \in Resource
             /\ q.op \in Updates => q.row \in Resource
  BY <1>1, <1>7 DEF Hangs, Tree, Request
<1>8. ASSUME NEW op \in Updates, NEW row \in Resource, Rewrite(r, op, row)
      PROVE  IdsIn(tree'[q.v]) = IdsIn(t)
  <2> DEFINE new == [row EXCEPT !.quiz = t.res[q.id].quiz]
  <2>1. Commits(r, op, [t EXCEPT !.res[q.id] = new]) /\ q.op = op
    BY <1>8 DEF Rewrite, Commits, At
  <2>2. new \in Resource
    BY <1>7, <1>8, <2>1 DEF Resource
  <2> HIDE DEF new
  <2> QED BY <1>3, <1>7, <1>8, <2>1, <2>2
<1>9. CASE SaveContent(r)
  <2> DEFINE row == [q.row EXCEPT !.text = q.want.text]
  <2>1. q.op = "save" /\ Rewrite(r, "save", row)
    BY <1>9 DEF SaveContent, Rewrite, Commits, At
  <2>2. row \in Resource
    BY <1>7, <2>1 DEF Resource, Updates
  <2> HIDE DEF row
  <2> QED BY <1>2, <1>8, <2>1, <2>2 DEF Updates, Rewrite
<1>10. CASE UpdateResource(r)
  <2> DEFINE link == IF q.want.link = None THEN q.row.link ELSE q.want.link
             row == [q.row EXCEPT !.visible = q.want.visible, !.link = link]
  <2>1. q.op = "update" /\ Rewrite(r, "update", row)
    BY <1>10 DEF UpdateResource, Rewrite, Commits, At
  <2>2. q.row \in Resource /\ q.want \in Resource
    BY <1>7, <2>1 DEF Updates
  <2>3. q.want.visible \in BOOLEAN
    BY <2>2, Zenon DEF Resource
  <2>4. link \in Links \union {None}
    BY <2>2 DEF Resource
  <2> HIDE DEF link
  <2>5. row \in Resource
    BY <2>2, <2>3, <2>4, Revised
  <2> HIDE DEF row
  <2> QED BY <1>2, <1>8, <2>1, <2>5 DEF Updates, Rewrite
<1>11. CASE PutQuiz(r)
  <2> DEFINE row == [t.res[q.id] EXCEPT !.quiz = q.want.quiz]
  <2>1. q.op = "quiz" /\ Commits(r, "quiz", [t EXCEPT !.res[q.id].quiz = q.want.quiz])
    BY <1>11 DEF PutQuiz, Commits, At
  <2>2. row \in Resource
    BY <1>7, <2>1 DEF Resource
  <2>3. [t EXCEPT !.res[q.id].quiz = q.want.quiz] = [t EXCEPT !.res[q.id] = row]
    BY <1>1, <1>7, <2>1 DEF Tree
  <2> HIDE DEF row
  <2> QED BY <1>2, <1>3, <1>7, <2>1, <2>2, <2>3
<1>12. \E t2 : tree' = [tree EXCEPT ![q.v] = t2]
  BY <1>2 DEF AddModule, AddUnit, AddResource, SaveContent, UpdateResource, PutQuiz, Rewrite
<1> QED BY <1>4, <1>5, <1>6, <1>9, <1>10, <1>11, <1>12

\* The course begins as the contract has it.
LEMMA ContractInit == Init => Contract!Init
<1> SUFFICES ASSUME Init PROVE Contract!Init
  OBVIOUS
<1>1. \A v \in Versions : IdsIn(tree[v]) = {}
  BY AuthoringAssumption DEF Init, IdsIn, UnitsIn, ResIn, NoTree, StableIds
<1> QED BY <1>1 DEF Init, NoCourse, Contract!Init

\* Every step is one of the contract's, or none that it sees.
LEMMA ContractStep ==
    ASSUME IInv, [Next]_vars
    PROVE  [Contract!Next]_Contract!vars
<1> DEFINE ids(v) == IdsIn(tree[v])
<1>1. /\ course \in [current : 0..MaxVersion, complete : BOOLEAN,
                     status : {"absent", "draft", "published", "unpublished"}]
      /\ status \in [Versions -> {"none", "draft", "published", "unpublished"}]
      /\ tree \in [Versions -> Tree] /\ MaxVersion \in Nat \ {0} /\ Versions \subseteq Nat
      /\ \A r \in Requests : req[r] \in Request /\ req[r].v \in Versions /\ Fits(req[r], status, tree)
  BY AuthoringAssumption DEF IInv, TypeOK, Request, Versions
<1>2. CASE status' = status /\ tree' = tree /\ course'.current = course.current
           /\ course'.status = course.status
  BY <1>2 DEF Contract!vars
<1>3. ASSUME NEW complete \in BOOLEAN, CreateCourse(complete) PROVE Contract!Create
  BY <1>3 DEF CreateCourse, IInv, Chain, Contract!Create, Contract!Nobody
<1>4. ASSUME NEW r \in Requests, PublishCommits(r) PROVE Contract!Publish(req[r].v)
  <2> DEFINE v == req[r].v
  <2>1. status[v] # "none" /\ HasRes(tree[v]) /\ v \in Versions
    BY <1>1, <1>4 DEF PublishCommits, At, Fits, Dated, Hangs, Looks, Ops
  <2>2. IdsIn(tree[v]) # {}
    <3>1. PICK y \in ResourceIds : tree[v].res[y] # None
      BY <2>1 DEF HasRes
    <3>2. tree[v].res[y] \in Resource
      <4>1. tree[v] \in Tree
        BY <1>1, <2>1
      <4> QED BY <3>1, <4>1 DEF Tree
    <3>3. y \in ResIn(tree[v], UnitIds)
      BY <3>1, <3>2 DEF ResIn, Resource
    <3> QED BY <3>3 DEF IdsIn
  <2>3. /\ status' = [status EXCEPT ![v] = "published"]
        /\ <<course'.current, course'.status>> = <<v, "published">> /\ tree' = tree
    BY <1>1, <1>4 DEF PublishCommits
  <2> QED BY <2>1, <2>2, <2>3 DEF Contract!Publish
<1>5. ASSUME NEW r \in Requests, UnpublishCommits(r) PROVE Contract!Unpublish(req[r].v)
  <2> DEFINE v == req[r].v
  <2>1. status[v] \in {"published", "unpublished"}
    BY <1>1, <1>5 DEF UnpublishCommits, At, Fits, Dated
  <2>2. /\ status' = [status EXCEPT ![v] = "unpublished"]
        /\ <<course'.current, course'.status>> = <<v, "unpublished">> /\ tree' = tree
    BY <1>1, <1>5 DEF UnpublishCommits
  <2> QED BY <2>1, <2>2 DEF Contract!Unpublish
<1>6. ASSUME NEW r \in Requests, CloneResources(r)
      PROVE  req[r].v + 1 \in Versions /\ Contract!Derive(req[r].v + 1)
  <2> DEFINE v == req[r].v
             n == v + 1
             s == IdsIn(tree'[n])
  <2>1. Clones(req[r]) /\ req[r].op = "version" /\ req[r].at # "asked"
    BY <1>6 DEF CloneResources, At, Clones
  <2>2. v < MaxVersion /\ status[n] = "none"
    BY <1>1, <2>1 DEF Fits, Dated
  <2>3. status[v] # "none" /\ IsLast(v, status)
    BY <1>1, <2>1, <2>2 DEF Fits, Dated
  <2>4. n \in Versions /\ n - 1 = v /\ v \in Versions
    BY <1>1, <2>2 DEF Versions
  <2>5. /\ status' = [status EXCEPT ![n] = "draft"] /\ course' = course
        /\ \A w \in Versions : w # n => tree'[w] = tree[w]
    BY <1>1, <1>6, <2>4 DEF CloneResources
  <2>6. s \in SUBSET IdsIn(tree[v])
    BY <1>6, Inherits
  <2>7. [w \in Versions |-> IdsIn(tree'[w])] = [[w \in Versions |-> IdsIn(tree[w])] EXCEPT ![n] = s]
    BY <2>5
  <2> HIDE DEF s
  <2> QED BY <2>2, <2>3, <2>4, <2>5, <2>6, <2>7 DEF Contract!Derive, IsLast
<1>7. ASSUME NEW r \in Requests,
             \/ \E i \in StableIds : AddModule(r, i) \/ AddUnit(r, i) \/ AddResource(r, i)
             \/ SaveContent(r) \/ UpdateResource(r) \/ PutQuiz(r)
      PROVE  \/ UNCHANGED Contract!vars
             \/ \E i \in StableIds : Contract!Grow(req[r].v, i)
  <2> DEFINE v == req[r].v
  <2>1. status' = status /\ course' = course /\ req[r].op \in WriteOps
    BY <1>7 DEF AddModule, AddUnit, AddResource, SaveContent, UpdateResource, PutQuiz, Rewrite,
       Commits, At, WriteOps, RowOps, Adds, Updates
  <2>2. status[v] # "none" /\ v \in Versions
    BY <1>1, <2>1 DEF Fits, Dated, Ops, WriteOps, RowOps, Adds, Updates
  <2>3. \A w \in Versions : w # v => tree'[w] = tree[w]
    <3>1. PICK t2 : tree' = [tree EXCEPT ![v] = t2]
      BY <1>7, WriteIds
    <3> QED BY <1>1, <3>1
  <2>4. CASE IdsIn(tree'[v]) = IdsIn(tree[v])
    <3>1. \A w \in Versions : IdsIn(tree'[w]) = IdsIn(tree[w])
      BY <2>3, <2>4
    <3> QED BY <2>1, <3>1 DEF Contract!vars
  <2>5. ASSUME NEW i \in StableIds, \A w \in Versions : i \notin IdsIn(tree[w]),
               IdsIn(tree'[v]) = IdsIn(tree[v]) \union {i}
        PROVE  Contract!Grow(v, i)
    <3>1. [w \in Versions |-> IdsIn(tree'[w])]
            = [[w \in Versions |-> IdsIn(tree[w])] EXCEPT ![v] = @ \union {i}]
      BY <2>2, <2>3, <2>5
    <3> QED BY <2>1, <2>2, <2>5, <3>1 DEF Contract!Grow
  <2> QED BY <1>7, <2>4, <2>5, WriteIds
<1>8. CASE UNCHANGED vars \/ UpdateCourse \/ \E a \in Links : AssetChanges(a)
  BY <1>1, <1>2, <1>8 DEF vars, UpdateCourse, AssetChanges
<1>9. ASSUME NEW r \in Requests, Ask(r) \/ Lost(r) PROVE UNCHANGED <<course, status, tree>>
  <2>1. \A x : Asks(r, x) => UNCHANGED <<course, status, tree>>
    BY DEF Asks
  <2> QED BY <1>9, <2>1 DEF Ask, AskVersion, AskTransition, AskModule, AskUnit, AskResource, AskSave,
                            AskUpdate, AskQuiz, Lost
<1>10. ASSUME NEW r \in Requests, Step(r)
       PROVE  \/ UNCHANGED <<course, status, tree>>
              \/ PublishCommits(r) \/ UnpublishCommits(r) \/ CloneResources(r)
              \/ \E i \in StableIds : AddModule(r, i) \/ AddUnit(r, i) \/ AddResource(r, i)
              \/ SaveContent(r) \/ UpdateResource(r) \/ PutQuiz(r)
  BY <1>10 DEF Step, PublishReadsCourse, PublishReadsVersion, PublishReadsModules,
     PublishReadsUnits, PublishValidates, UnpublishReads,
     NewVersionReads, InsertVersion, CloneModules, CloneUnits, ReadResource, Guard, Trigger
<1>11. CASE \E r \in Requests : Ask(r) \/ Lost(r)
  BY <1>2, <1>9, <1>11
<1>12. ASSUME NEW r \in Requests, Step(r) PROVE [Contract!Next]_Contract!vars
  <2>1. req[r].v \in Versions
    BY <1>1
  <2> QED BY <1>2, <1>4, <1>5, <1>6, <1>7, <1>10, <1>12, <2>1 DEF Contract!Next
<1>13. CASE \E complete \in BOOLEAN : CreateCourse(complete)
  BY <1>3, <1>13 DEF Contract!Next
<1> QED BY <1>8, <1>11, <1>12, <1>13 DEF Next

\* Authoring implements CourseContract: whatever requests overlap, versions follow one
\* another, stable ids are born once and inherited from the version before, and what is
\* published has content (ADR-0007).
THEOREM ContractKept == Spec => KeepsContract
<1>1. IInv /\ [Next]_vars => [Contract!Next]_Contract!vars
  BY ContractStep
<1> QED BY <1>1, ContractInit, Invariance, PTL DEF Spec, KeepsContract, Contract!Spec

\* A stable id has one unbroken run of versions: a version in between that dropped
\* it has dropped it for good, and no later clone, insert or edit brings it back.
Unbroken ==
    \A v, w, x \in Versions :
        v < w /\ w < x => IdsIn(tree[v]) \intersect IdsIn(tree[x]) \subseteq IdsIn(tree[w])

\* Version numbers that are free are empty, and so are all that come after.
LEMMA NothingAhead ==
    ASSUME IInv, NEW n \in Versions, status[n] = "none", NEW x \in Versions, n <= x
    PROVE  IdsIn(tree[x]) = {}
<1>1. MaxVersion \in Nat /\ Versions \subseteq Nat
  BY AuthoringAssumption DEF Versions
<1>2. PICK last \in 0..MaxVersion : \A w \in Versions : status[w] # "none" <=> w <= last
  BY DEF IInv, Chain
<1>3. status[x] = "none"
  BY <1>1, <1>2
<1>4. tree[x] = NoTree
  BY <1>3 DEF IInv, Trees
<1> QED BY <1>4, AuthoringAssumption DEF IdsIn, UnitsIn, ResIn, NoTree, StableIds

\* Any step that CourseContract allows keeps the runs unbroken.
LEMMA UnbrokenStep ==
    ASSUME IInv, Unbroken, [Contract!Next]_Contract!vars
    PROVE  Unbroken'
<1>1. Versions \subseteq Nat
  BY DEF Versions
<1>2. ASSUME \A v \in Versions : IdsIn(tree'[v]) = IdsIn(tree[v]) PROVE Unbroken'
  BY <1>2 DEF Unbroken
<1>3. CASE UNCHANGED Contract!vars
  <2>1. [v \in Versions |-> IdsIn(tree'[v])] = [v \in Versions |-> IdsIn(tree[v])]
    BY <1>3 DEF Contract!vars
  <2>2. \A v \in Versions : [x \in Versions |-> IdsIn(tree'[x])][v] = [x \in Versions |-> IdsIn(tree[x])][v]
    BY <2>1
  <2> QED BY <1>2, <2>2
<1>4. CASE \/ Contract!Create
           \/ \E v \in Versions : Contract!Publish(v) \/ Contract!Unpublish(v)
  <2>1. [v \in Versions |-> IdsIn(tree'[v])] = [v \in Versions |-> IdsIn(tree[v])]
    BY <1>4 DEF Contract!Create, Contract!Publish, Contract!Unpublish
  <2>2. \A v \in Versions : [x \in Versions |-> IdsIn(tree'[x])][v] = [x \in Versions |-> IdsIn(tree[x])][v]
    BY <2>1
  <2> QED BY <1>2, <2>2
<1>5. ASSUME NEW n \in Versions, NEW i \in StableIds, Contract!Grow(n, i) PROVE Unbroken'
  <2>1. /\ \A w \in Versions : i \notin IdsIn(tree[w])
        /\ [v \in Versions |-> IdsIn(tree'[v])]
             = [[v \in Versions |-> IdsIn(tree[v])] EXCEPT ![n] = @ \union {i}]
    BY <1>5 DEF Contract!Grow
  <2>2. \A v \in Versions : IdsIn(tree'[v]) = IF v = n THEN IdsIn(tree[v]) \union {i} ELSE IdsIn(tree[v])
    <3> SUFFICES ASSUME NEW v \in Versions
                 PROVE  IdsIn(tree'[v]) = IF v = n THEN IdsIn(tree[v]) \union {i} ELSE IdsIn(tree[v])
      OBVIOUS
    <3>1. IdsIn(tree'[v]) = [x \in Versions |-> IdsIn(tree'[x])][v]
      OBVIOUS
    <3> QED BY <2>1, <3>1
  <2>3. SUFFICES ASSUME NEW v \in Versions, NEW w \in Versions, NEW x \in Versions, v < w, w < x,
                        NEW j, j \in IdsIn(tree'[v]), j \in IdsIn(tree'[x])
                 PROVE  j \in IdsIn(tree'[w])
    BY DEF Unbroken
  <2>4. v # x
    BY <1>1, <2>3
  <2>5. j # i /\ j \in IdsIn(tree[v]) /\ j \in IdsIn(tree[x])
    BY <2>1, <2>2, <2>3, <2>4
  <2>6. j \in IdsIn(tree[w])
    BY <2>3, <2>5 DEF Unbroken
  <2> QED BY <2>2, <2>6
<1>6. ASSUME NEW n \in Versions, Contract!Derive(n) PROVE Unbroken'
  <2>1. n - 1 \in Versions /\ status[n] = "none"
    BY <1>6 DEF Contract!Derive
  <2>2. PICK s \in SUBSET IdsIn(tree[n - 1]) :
           [v \in Versions |-> IdsIn(tree'[v])] = [[v \in Versions |-> IdsIn(tree[v])] EXCEPT ![n] = s]
    BY <1>6, <2>1 DEF Contract!Derive
  <2>3. \A v \in Versions : IdsIn(tree'[v]) = IF v = n THEN s ELSE IdsIn(tree[v])
    <3> SUFFICES ASSUME NEW v \in Versions
                 PROVE  IdsIn(tree'[v]) = IF v = n THEN s ELSE IdsIn(tree[v])
      OBVIOUS
    <3>1. IdsIn(tree'[v]) = [x \in Versions |-> IdsIn(tree'[x])][v]
      OBVIOUS
    <3> QED BY <2>2, <3>1
  <2>4. SUFFICES ASSUME NEW v \in Versions, NEW w \in Versions, NEW x \in Versions, v < w, w < x,
                        NEW i, i \in IdsIn(tree'[v]), i \in IdsIn(tree'[x])
                 PROVE  i \in IdsIn(tree'[w])
    BY DEF Unbroken
  <2>5. v \in Nat /\ w \in Nat /\ x \in Nat /\ n \in Nat
    BY <1>1
  <2>6. CASE x = n
    <3>1. i \in IdsIn(tree[n - 1]) /\ v < n /\ w < n /\ i \in IdsIn(tree[v])
      BY <2>3, <2>4, <2>5, <2>6
    <3>2. IdsIn(tree'[w]) = IdsIn(tree[w])
      BY <2>3, <2>5, <3>1
    <3>3. CASE w = n - 1
      BY <3>1, <3>2, <3>3
    <3>4. CASE w # n - 1
      <4>1. w < n - 1
        BY <2>5, <3>1, <3>4
      <4> QED BY <2>1, <2>4, <3>1, <3>2, <4>1 DEF Unbroken
    <3> QED BY <3>3, <3>4
  <2>7. CASE x # n /\ n <= x
    <3>1. IdsIn(tree'[x]) = {}
      BY <2>1, <2>3, <2>7, NothingAhead
    <3> QED BY <2>4, <3>1
  <2>8. CASE x < n
    BY <2>3, <2>4, <2>5, <2>8 DEF Unbroken
  <2> QED BY <2>5, <2>6, <2>7, <2>8
<1> QED BY <1>3, <1>4, <1>5, <1>6 DEF Contract!Next

\* Content that was dropped from a course does not return under its old identity,
\* so progress recorded for a stable id is never about two contents with a gap
\* between them (ADR-0007). It follows from the contract alone.
THEOREM DroppedIdsStayDropped == Spec => []Unbroken
<1>1. Init => Unbroken
  <2> SUFFICES ASSUME Init PROVE Unbroken
    OBVIOUS
  <2>1. \A v \in Versions : IdsIn(tree[v]) = {}
    BY AuthoringAssumption DEF Init, IdsIn, UnitsIn, ResIn, NoTree, StableIds
  <2> QED BY <2>1 DEF Unbroken
<1>2. IInv /\ Unbroken /\ [Next]_vars => Unbroken'
  BY ContractStep, UnbrokenStep
<1> QED BY <1>1, <1>2, Invariance, PTL DEF Spec
=============================================================================
