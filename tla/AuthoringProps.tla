--------------------------- MODULE AuthoringProps ---------------------------
(* What authoring must keep true (see Authoring). *)
EXTENDS Authoring

\* A course has at most one draft open, and it is its last version: NewVersion
\* looks for drafts outside its transaction, and what stops a second one is the
\* unique version number (service.go:264-272, UNIQUE (course_id, version_number)).
OneDraft == \A v, w \in Versions : status[v] = "draft" /\ status[w] # "none" => w <= v

\* Although a tree is read in three queries while it grows, a publication validates
\* every resource there was when it was asked for; and when it commits, a row it has
\* validated is in order unless a write has changed it since, and if none has been,
\* something is visible (service.go:171-203, domain.go:285-306, authoring.go:206-219).
\* A write that commits after the validation, a resource added meanwhile and a file
\* or the metadata that change are published unseen: nothing in the code stops it.
PublishedIsValidated ==
    [][\A r \in Requests : req[r].op = "publish" =>
         LET c == req[r].copy
             t == tree[req[r].v]
         IN  /\ req[r].at # "commit" /\ req'[r].at = "commit"
                => ResIn(c, UnitIds) \subseteq req'[r].seen
             /\ req[r].at = "commit"
                => /\ \A x \in req[r].seen :
                         t.res[x] = c.res[x] /\ t.res[x].visible => ~BadRow(t.res[x])
                   /\ (\A x \in req[r].seen : t.res[x] = c.res[x])
                      => \E x \in ResIn(t, UnitIds) : t.res[x].visible]_vars

\* The course shows the version published or withdrawn last, with its status;
\* Publish and Unpublish write two rows each (service.go:190-195, 230-235).
CourseFollowsItsVersion == course # NoCourse => course.status = status[course.current]

\* A write on a row of the tree whose statement starts when its version is
\* published, and a quiz whose request does, never changes it, however the
\* publication and the write interleave (migration 0002:165-188, service.go:303).
LateWriteIsRefused == [][\A r \in late : req'[r] # req[r] => tree' = tree]_vars

\* A new version has every module, unit and resource that the version before had
\* when the clone began, with their stable ids, whatever is added meanwhile:
\* progress is matched by them (authoring.go:437-472, ADR-0007).
CloneInheritsAll ==
    [][\A r \in Requests : LET n == req[r].v + 1
                           IN  /\ Cloning(r) /\ req'[r] = Idle /\ tree' # tree
                               => /\ req[r].seen \subseteq IdsIn(tree'[n])
                                  /\ IdsIn(tree'[n]) \subseteq IdsIn(tree[req[r].v])]_vars

\* Authoring implements CourseContract.
Contract == INSTANCE CourseContract WITH
    ids   <- [v \in Versions |-> IdsIn(tree[v])],
    shown <- <<course.current, course.status>>
KeepsContract == Contract!Spec

\* A published version does not change until it is withdrawn (ADR-0007).
PublishedIsFrozen ==
    [][\A v \in Versions : status[v] = "published" /\ status'[v] = "published"
                            => tree'[v] = tree[v]]_vars
=============================================================================
