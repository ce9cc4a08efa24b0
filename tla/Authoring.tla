----------------------------- MODULE Authoring ------------------------------
(***************************************************************************)
(* One course, its versions and their trees of modules, units and          *)
(* resources (modules/authoring, adapters/postgres/authoring.go, the quiz  *)
(* of modules/assessment's PutQuiz and the trigger of migration 0002).     *)
(* Requests of the author run concurrently; each reads, decides and writes *)
(* in statements of their own at READ COMMITTED. A transaction appears in  *)
(* the state when it commits; what it holds before that, a row it updates  *)
(* or a version number it inserts, makes the others wait.                  *)
(*                                                                         *)
(* Titles, positions and slugs are left out; rows of the tree are never    *)
(* deleted by the code.                                                    *)
(***************************************************************************)
EXTENDS Naturals, FiniteSets

CONSTANTS
    Requests,
    MaxVersion,                          \* bound on version numbers
    ModuleIds, UnitIds, ResourceIds,     \* stable ids
    Texts, Links,                        \* contents; assets and external addresses
    Allowed,                             \* the addresses an iframe may show
    Quizzes,                             \* sets of questions, each with a right option
    Inputs,                              \* the resources that clients add: see Input
    Budgets,                             \* alternatives for how often each thing may happen
    None, AnyTag                         \* AnyTag: the header If-Match: *

Adds     == {"addModule", "addUnit", "addResource"}
Updates  == {"save", "update"}
RowOps   == Adds \union Updates          \* writes under the trigger reject_if_published
WriteOps == RowOps \union {"quiz"}
Ops      == WriteOps \union {"publish", "unpublish", "version"}
Kinds    == Ops \union {"course", "asset", "lost"}

Versions  == 1..MaxVersion
StableIds == ModuleIds \union UnitIds \union ResourceIds
Files     == {"image", "video", "audio", "pdf", "slides", "download"}

Types     == Files \union {"rich_text", "iframe", "link", "quiz"}
Input     == [type : Types, visible : BOOLEAN, text : Texts \union {None}, link : Links \union {None}]

\* The address of an iframe is looked at when the client sends its type, and again
\* when the version is published.
ValidInput(in) == in.type = "iframe" => in.link \in Allowed \union {None}

VARIABLES
    course,  \* the row of authoring.courses
    status,  \* of each row of authoring.course_versions
    tree,    \* the committed modules, units and resources of each version
    ready,   \* the assets that the media pipeline has finished
    req,     \* what each request is doing
    late,    \* history: the writes whose statement starts on a published version
    left     \* the budget that remains

vars == <<course, status, tree, ready, req, late, left>>

\* quiz: the questions of the resource's quiz.
Resource == [unit : UnitIds, type : Types, visible : BOOLEAN, text : Texts \union {None},
             link : Links \union {None}, quiz : Quizzes \union {"missing"}]
Tree     == [mods : SUBSET ModuleIds, units : [UnitIds -> ModuleIds \union {None}],
             res : [ResourceIds -> Resource \union {None}]]

ASSUME AuthoringAssumption ==
    /\ MaxVersion \in Nat \ {0}
    /\ Allowed \subseteq Links
    /\ Inputs \subseteq Input
    /\ Budgets \subseteq [Kinds -> Nat]
    /\ None \notin StableIds \union Texts \union Links \union Resource
    /\ AnyTag \notin Texts \union {None}
    /\ ModuleIds \intersect UnitIds = {}
    /\ (ModuleIds \union UnitIds) \intersect ResourceIds = {}

NoTree == [mods |-> {}, units |-> [u \in UnitIds |-> None], res |-> [x \in ResourceIds |-> None]]

UnitsIn(t, ms) == {u \in UnitIds : t.units[u] \in ms}
ResIn(t, us)   == {x \in ResourceIds : t.res[x] # None /\ t.res[x].unit \in us}
IdsIn(t)       == t.mods \union UnitsIn(t, ModuleIds) \union ResIn(t, UnitIds)

\* want: what the client sends; row: the resource as read; seen: what a query of
\* the tree returned; copy: the rows that an open transaction has inserted; for a
\* publication, history: the tree when it was asked for, then the one it validated.
Request == [op : Ops \union {"none"}, at : {"idle", "asked", "number", "course", "mods", "units",
                                          "res", "guard", "write", "commit"},
            v : Versions, id : StableIds \union {None}, want : Resource \union {None},
            base : Texts \union {None, AnyTag}, row : Resource \union {None},
            complete : BOOLEAN, seen : SUBSET StableIds, copy : Tree]
Idle == [op |-> "none", at |-> "idle", v |-> 1, id |-> None, want |-> None, base |-> None,
         row |-> None, complete |-> FALSE, seen |-> {}, copy |-> NoTree]

NoCourse == [current |-> 0, status |-> "absent", complete |-> FALSE]

Init ==
    /\ course = NoCourse
    /\ status = [v \in Versions |-> "none"]
    /\ tree = [v \in Versions |-> NoTree]
    /\ ready = {}
    /\ req = [r \in Requests |-> Idle]
    /\ late = {}
    /\ left \in Budgets

Spend(k) == left[k] > 0 /\ left' = [left EXCEPT ![k] = @ - 1]

At(r, op, at) == req[r].op = op /\ req[r].at = at

Becomes(r, x) == req' = [req EXCEPT ![r] = x]

Moves(r, at) == Becomes(r, [req[r] EXCEPT !.at = at])

\* The request answers, with a result or an error, and keeps nothing.
Ends(r) == req' = [req EXCEPT ![r] = Idle] /\ late' = late \ {r}

-----------------------------------------------------------------------------
(* Requests arrive. *)

Asks(r, x) == /\ req[r] = Idle
              /\ Spend(x.op)
              /\ Becomes(r, x)
              /\ late' = IF x.op \in WriteOps /\ status[x.v] = "published"
                         THEN late \union {r} ELSE late
              /\ UNCHANGED <<course, status, tree, ready>>

AskTransition(r, op, v) ==
    /\ op \in {"publish", "unpublish"} /\ status[v] # "none"
    /\ Asks(r, [Idle EXCEPT !.op = op, !.at = "asked", !.v = v,
                            !.copy = IF op = "publish" THEN tree[v] ELSE NoTree])

AskVersion(r) == /\ course # NoCourse
                 /\ Asks(r, [Idle EXCEPT !.op = "version", !.at = "asked"])

AskModule(r, v) == /\ status[v] # "none"
                   /\ Asks(r, [Idle EXCEPT !.op = "addModule", !.at = "asked", !.v = v])

AskUnit(r, v, m) == /\ m \in tree[v].mods
                    /\ Asks(r, [Idle EXCEPT !.op = "addUnit", !.at = "asked", !.v = v, !.id = m])

\* The resource comes without quiz.
AskResource(r, v, u, in) ==
    /\ tree[v].units[u] # None
    /\ ValidInput(in)
    /\ Asks(r, [Idle EXCEPT !.op = "addResource", !.at = "asked", !.v = v,
            !.want = [unit |-> u, type |-> in.type, visible |-> in.visible, text |-> in.text,
                      link |-> in.link, quiz |-> "missing"]])

\* The client sends the ETag of the text it has just read, or *.
AskSave(r, v, x, text, base) ==
    /\ tree[v].res[x] # None
    /\ base \in {tree[v].res[x].text, AnyTag}
    /\ Asks(r, [Idle EXCEPT !.op = "save", !.at = "asked", !.v = v, !.id = x, !.base = base,
                            !.want = [tree[v].res[x] EXCEPT !.text = text]])

\* link = None: the client does not send one.
AskUpdate(r, v, x, visible, link) ==
    /\ tree[v].res[x] # None
    /\ Asks(r, [Idle EXCEPT !.op = "update", !.at = "asked", !.v = v, !.id = x,
                            !.want = [tree[v].res[x] EXCEPT !.visible = visible, !.link = link]])

\* The body is refused unless every question has a right option.
AskQuiz(r, v, x, quiz) ==
    /\ tree[v].res[x] # None
    /\ Asks(r, [Idle EXCEPT !.op = "quiz", !.at = "asked", !.v = v, !.id = x,
                            !.want = [tree[v].res[x] EXCEPT !.quiz = quiz]])

-----------------------------------------------------------------------------
(* The course. *)

CreateCourse(complete) ==
    /\ course = NoCourse
    /\ course' = [current |-> 1, status |-> "draft", complete |-> complete]
    /\ status' = [status EXCEPT ![1] = "draft"]
    /\ UNCHANGED <<tree, ready, req, late, left>>

\* Metadata change at any time, whatever is published.
UpdateCourse ==
    /\ course # NoCourse /\ Spend("course")
    /\ course' = [course EXCEPT !.complete = ~@]
    /\ UNCHANGED <<status, tree, ready, req, late>>

\* The media pipeline finishes an asset, or it is aborted or processed again.
AssetChanges(a) ==
    /\ Spend("asset")
    /\ ready' = IF a \in ready THEN ready \ {a} ELSE ready \union {a}
    /\ UNCHANGED <<course, status, tree, req, late>>

-----------------------------------------------------------------------------
(* Publication. *)

BadFile(x)   == x.link \notin ready
BadQuiz(x)   == x.quiz = "missing"
BadRow(x) ==
    \/ x.type = "quiz" /\ BadQuiz(x)
    \/ x.type = "iframe" /\ x.link \notin Allowed
    \/ x.type = "rich_text" /\ x.text = None
BadResource(x) == BadRow(x) \/ (x.type \in Files /\ BadFile(x))

\* Faulty variant: nobody asks that something be visible.
PublishableLoose(complete, rows) == complete /\ \A x \in rows : x.visible => ~BadResource(x)
\* ValidarPublicacion over the rows of the tree that was read; approval criteria
\* are always the defaults.
Publishable(complete, rows) ==
    /\ complete
    /\ \E x \in rows : x.visible
    /\ \A x \in rows : x.visible => ~BadResource(x)

PublishReadsCourse(r) ==
    /\ At(r, "publish", "asked")
    /\ Becomes(r, [req[r] EXCEPT !.at = "course", !.complete = course.complete])
    /\ UNCHANGED <<course, status, tree, ready, late, left>>

PublishReadsVersion(r) ==
    /\ At(r, "publish", "course")
    /\ IF status[req[r].v] = "published"
       THEN Ends(r)
       ELSE Moves(r, "mods") /\ UNCHANGED late
    /\ UNCHANGED <<course, status, tree, ready, left>>

\* Tree asks for the modules, the units and the resources in three queries, and
\* drops what hangs from a node that an earlier query did not return.
PublishReadsModules(r) ==
    /\ At(r, "publish", "mods")
    /\ LET ms == tree[req[r].v].mods
       IN  IF ms = {} THEN Ends(r)
           ELSE Becomes(r, [req[r] EXCEPT !.at = "units", !.seen = ms]) /\ UNCHANGED late
    /\ UNCHANGED <<course, status, tree, ready, left>>

PublishReadsUnits(r) ==
    /\ At(r, "publish", "units")
    /\ Becomes(r, [req[r] EXCEPT !.at = "res", !.seen = UnitsIn(tree[req[r].v], @)])
    /\ UNCHANGED <<course, status, tree, ready, late, left>>

PublishValidates(r) ==
    /\ At(r, "publish", "res")
    /\ LET t  == tree[req[r].v]
           xs == ResIn(t, req[r].seen)
       IN  IF Publishable(req[r].complete, {t.res[x] : x \in xs})
           THEN /\ Becomes(r, [req[r] EXCEPT !.at = "commit", !.seen = xs, !.copy = t])
                /\ UNCHANGED late
           ELSE Ends(r)
    /\ UNCHANGED <<course, status, tree, ready, left>>

\* Writes on v whose trigger has not run, or whose guard for a quiz has not.
Pending(v) == {q \in Requests : req[q].op \in RowOps /\ req[q].v = v /\ req[q].at # "commit"}

PublishCommits(r) ==
    /\ At(r, "publish", "commit")
    /\ status' = [status EXCEPT ![req[r].v] = "published"]
    /\ course' = [course EXCEPT !.current = req[r].v, !.status = "published"]
    /\ req' = [req EXCEPT ![r] = Idle]
    /\ late' = late \union Pending(req[r].v)
    /\ UNCHANGED <<tree, ready, left>>

\* Faulty variant: any version may be withdrawn.
UnpublishReadsLoose(r) ==
    /\ At(r, "unpublish", "asked")
    /\ Moves(r, "commit")
    /\ UNCHANGED <<course, status, tree, ready, late, left>>
UnpublishReads(r) ==
    /\ At(r, "unpublish", "asked")
    /\ IF status[req[r].v] # "published"
       THEN Ends(r)
       ELSE Moves(r, "commit") /\ UNCHANGED late
    /\ UNCHANGED <<course, status, tree, ready, left>>

\* Faulty variant: the course keeps the status it had.
UnpublishCommitsLoose(r) ==
    /\ At(r, "unpublish", "commit")
    /\ status' = [status EXCEPT ![req[r].v] = "unpublished"]
    /\ course' = [course EXCEPT !.current = req[r].v]
    /\ req' = [req EXCEPT ![r] = Idle]
    /\ late' = late \ {q \in Requests : req[q].v = req[r].v}
    /\ UNCHANGED <<tree, ready, left>>
\* The course goes back to the version withdrawn, whichever it showed.
UnpublishCommits(r) ==
    /\ At(r, "unpublish", "commit")
    /\ status' = [status EXCEPT ![req[r].v] = "unpublished"]
    /\ course' = [course EXCEPT !.current = req[r].v, !.status = "unpublished"]
    /\ req' = [req EXCEPT ![r] = Idle]
    /\ late' = late \ {q \in Requests : req[q].v = req[r].v}
    /\ UNCHANGED <<tree, ready, left>>

-----------------------------------------------------------------------------
(* A new version. *)

Latest == CHOOSE v \in Versions : /\ status[v] # "none"
                                  /\ \A w \in Versions : status[w] # "none" => w <= v

\* Faulty variant: a draft that is open is not looked for.
NewVersionReadsLoose(r) ==
    /\ At(r, "version", "asked")
    /\ Becomes(r, [req[r] EXCEPT !.at = "number", !.v = Latest])
    /\ UNCHANGED <<course, status, tree, ready, late, left>>
\* v is the version to clone; its number decides that of the new one.
NewVersionReads(r) ==
    /\ At(r, "version", "asked")
    /\ IF \E v \in Versions : status[v] = "draft"
       THEN Ends(r)
       ELSE Becomes(r, [req[r] EXCEPT !.at = "number", !.v = Latest]) /\ UNCHANGED late
    /\ UNCHANGED <<course, status, tree, ready, left>>

Cloning(q) == req[q].op = "version" /\ req[q].at \in {"mods", "units", "res"}

\* UNIQUE (course_id, version_number): a second insert waits for the transaction
\* that holds the number, and fails when it has committed. seen: history.
InsertVersion(r) ==
    /\ At(r, "version", "number")
    /\ req[r].v < MaxVersion
    /\ ~ \E q \in Requests : Cloning(q) /\ req[q].v = req[r].v
    /\ IF status[req[r].v + 1] # "none"
       THEN Ends(r)
       ELSE /\ Becomes(r, [req[r] EXCEPT !.at = "mods", !.seen = IdsIn(tree[req[r].v])])
            /\ UNCHANGED late
    /\ UNCHANGED <<course, status, tree, ready, left>>

CloneModules(r) ==
    /\ At(r, "version", "mods")
    /\ Becomes(r, [req[r] EXCEPT !.at = "units", !.copy.mods = tree[req[r].v].mods])
    /\ UNCHANGED <<course, status, tree, ready, late, left>>

\* The joins leave out what hangs from a node that has not been copied.
CloneUnits(r) ==
    /\ At(r, "version", "units")
    /\ LET t == tree[req[r].v]
       IN  Becomes(r, [req[r] EXCEPT !.at = "res",
               !.copy.units = [u \in UnitIds |-> IF t.units[u] \in req[r].copy.mods
                                                 THEN t.units[u] ELSE None]])
    /\ UNCHANGED <<course, status, tree, ready, late, left>>

\* Faulty variant: a resource is copied whether its unit was or not.
CopyOfResourcesLoose(t, us) ==
    [x \in ResourceIds |-> IF t.res[x] # None THEN [t.res[x] EXCEPT !.quiz = "missing"] ELSE None]
\* Quizzes are not copied: the new rows of resources have none.
CopyOfResources(t, us) ==
    [x \in ResourceIds |-> IF x \in ResIn(t, us) THEN [t.res[x] EXCEPT !.quiz = "missing"]
                                                 ELSE None]

\* Faulty variant: resources that are not visible are left behind.
CloneResourcesLoose(r) ==
    /\ At(r, "version", "res")
    /\ LET t == tree[req[r].v]
           c == req[r].copy
           n == CopyOfResources(t, UnitsIn(c, ModuleIds))
       IN  tree' = [tree EXCEPT ![req[r].v + 1] =
               [c EXCEPT !.res = [x \in ResourceIds |->
                                    IF n[x] # None /\ n[x].visible THEN n[x] ELSE None]]]
    /\ status' = [status EXCEPT ![req[r].v + 1] = "draft"]
    /\ Ends(r)
    /\ UNCHANGED <<course, ready, left>>
CloneResources(r) ==
    /\ At(r, "version", "res")
    /\ LET c == req[r].copy
       IN  tree' = [tree EXCEPT ![req[r].v + 1] =
               [c EXCEPT !.res = CopyOfResources(tree[req[r].v], UnitsIn(c, ModuleIds))]]
    /\ status' = [status EXCEPT ![req[r].v + 1] = "draft"]
    /\ Ends(r)
    /\ UNCHANGED <<course, ready, left>>

-----------------------------------------------------------------------------
(* Writes on the tree. *)

ReadResource(r) ==
    /\ req[r].op \in Updates /\ req[r].at = "asked"
    /\ Becomes(r, [req[r] EXCEPT !.at = "guard", !.row = tree[req[r].v].res[req[r].id]])
    /\ UNCHANGED <<course, status, tree, ready, late, left>>

Editable(v) == status[v] \in {"draft", "unpublished"}

IfMatch(q) == q.op = "save" => q.base \in {q.row.text, AnyTag}

\* guardVersionEditable, then the precondition; of the writes, only the ones
\* under the trigger are looked at again.
Guard(r) ==
    /\ \/ req[r].op \in WriteOps \ Updates /\ req[r].at = "asked"
       \/ req[r].op \in Updates /\ req[r].at = "guard"
    /\ IF Editable(req[r].v) /\ IfMatch(req[r])
       THEN Moves(r, IF req[r].op = "quiz" THEN "commit" ELSE "write") /\ UNCHANGED late
       ELSE Ends(r)
    /\ UNCHANGED <<course, status, tree, ready, left>>

\* The row that r updates is held by another transaction.
Held(r) == \E q \in Requests \ {r} : /\ req[q].op \in Updates /\ req[r].op \in Updates
                                     /\ req[q].at = "commit"
                                     /\ req[q].v = req[r].v /\ req[q].id = req[r].id

\* Faulty variant: there is no trigger.
TriggerLoose(r) ==
    /\ req[r].op \in RowOps /\ req[r].at = "write" /\ ~Held(r)
    /\ Moves(r, "commit")
    /\ UNCHANGED <<course, status, tree, ready, late, left>>
\* reject_if_published looks at the version without locking it.
Trigger(r) ==
    /\ req[r].op \in RowOps /\ req[r].at = "write" /\ ~Held(r)
    /\ IF status[req[r].v] = "published"
       THEN Ends(r)
       ELSE Moves(r, "commit") /\ UNCHANGED late
    /\ UNCHANGED <<course, status, tree, ready, left>>

Unused(ids) == {i \in ids : \A v \in Versions : i \notin IdsIn(tree[v])}

Commits(r, op, t) == /\ At(r, op, "commit")
                     /\ tree' = [tree EXCEPT ![req[r].v] = t]
                     /\ Ends(r)
                     /\ UNCHANGED <<course, status, ready, left>>

AddModule(r, m) == /\ m \in Unused(ModuleIds)
                   /\ Commits(r, "addModule", [tree[req[r].v] EXCEPT !.mods = @ \union {m}])

AddUnit(r, u) == /\ u \in Unused(UnitIds)
                 /\ Commits(r, "addUnit", [tree[req[r].v] EXCEPT !.units[u] = req[r].id])

AddResource(r, x) == /\ x \in Unused(ResourceIds)
                     /\ Commits(r, "addResource", [tree[req[r].v] EXCEPT !.res[x] = req[r].want])

\* Both write the whole row they read; the quiz is in another table.
Rewrite(r, op, row) ==
    LET t == tree[req[r].v]
        x == req[r].id
    IN  Commits(r, op, [t EXCEPT !.res[x] = [row EXCEPT !.quiz = t.res[x].quiz]])

SaveContent(r) == Rewrite(r, "save", [req[r].row EXCEPT !.text = req[r].want.text])

UpdateResource(r) ==
    LET w == req[r].want
    IN  Rewrite(r, "update", [req[r].row EXCEPT !.visible = w.visible,
                                                !.link = IF w.link = None THEN @ ELSE w.link])

PutQuiz(r) == LET t == tree[req[r].v]
              IN  Commits(r, "quiz", [t EXCEPT !.res[req[r].id].quiz = req[r].want.quiz])

-----------------------------------------------------------------------------
\* The process dies or the client goes away: an open transaction leaves nothing.
Lost(r) == /\ req[r] # Idle /\ Spend("lost")
           /\ Ends(r)
           /\ UNCHANGED <<course, status, tree, ready>>

Ask(r) ==
    \/ AskVersion(r)
    \/ \E v \in Versions :
         \/ \E op \in Ops : AskTransition(r, op, v)
         \/ AskModule(r, v)
         \/ \E m \in ModuleIds : AskUnit(r, v, m)
         \/ \E u \in UnitIds, in \in Inputs : AskResource(r, v, u, in)
         \/ \E x \in ResourceIds :
              \/ \E text \in Texts, base \in Texts \union {None, AnyTag} : AskSave(r, v, x, text, base)
              \/ \E visible \in BOOLEAN, link \in Links \union {None} :
                    AskUpdate(r, v, x, visible, link)
              \/ \E quiz \in Quizzes : AskQuiz(r, v, x, quiz)

Step(r) ==
    \/ PublishReadsCourse(r) \/ PublishReadsVersion(r) \/ PublishReadsModules(r)
    \/ PublishReadsUnits(r) \/ PublishValidates(r) \/ PublishCommits(r)
    \/ UnpublishReads(r) \/ UnpublishCommits(r)
    \/ NewVersionReads(r) \/ InsertVersion(r)
    \/ CloneModules(r) \/ CloneUnits(r) \/ CloneResources(r)
    \/ ReadResource(r) \/ Guard(r) \/ Trigger(r)
    \/ \E i \in StableIds : AddModule(r, i) \/ AddUnit(r, i) \/ AddResource(r, i)
    \/ SaveContent(r) \/ UpdateResource(r) \/ PutQuiz(r)

Next == \/ \E complete \in BOOLEAN : CreateCourse(complete)
        \/ UpdateCourse
        \/ \E a \in Links : AssetChanges(a)
        \/ \E r \in Requests : Ask(r) \/ Step(r) \/ Lost(r)

Spec == Init /\ [][Next]_vars

\* Every node hangs from one of its own version.
Whole(t) == /\ \A u \in UnitIds : t.units[u] # None => t.units[u] \in t.mods
            /\ \A y \in ResourceIds : t.res[y] # None => t.units[t.res[y].unit] # None

TypeOK ==
    /\ course \in [current : 0..MaxVersion, complete : BOOLEAN,
                   status : {"absent", "draft", "published", "unpublished"}]
    /\ status \in [Versions -> {"none", "draft", "published", "unpublished"}]
    /\ tree \in [Versions -> Tree]
    /\ \A v \in Versions : Whole(tree[v])
    /\ ready \subseteq Links
    /\ req \in [Requests -> Request]
    /\ late \subseteq Requests
    /\ left \in [Kinds -> Nat]
=============================================================================
