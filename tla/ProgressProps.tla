--------------------------- MODULE ProgressProps ---------------------------
(***************************************************************************)
(* What an enrollment's progress, approval and badge are checked for, with *)
(* any number of concurrent requests.                                      *)
(***************************************************************************)
EXTENDS Progress

\* The resources of S are enough for the completion percentage of version v.
Enough(S, v) == Percent(Cardinality(S), Cardinality(Required[v])) >= Criterion[v]

\* The student once completed what version v asks for, and has the score it asks for.
Earned(v) ==
    /\ \E S \in SUBSET Required[v] : Enough(S, v) /\ \A r \in S : prog[r].done
    /\ Scored(v)

\* Nobody is approved without having completed what the version named in
\* approved_version_id asks for, the minimum score of its quizzes included,
\* whatever requests overlap (EvaluarEstado).
ApprovalIsEarned ==
    enr.state = "approved" => enr.version \in Versions /\ Earned(enr.version)

\* An approved enrollment has its badge job: both are written by the same
\* transaction, although the request decides it from an old read (recalcular).
ApprovalHasItsJob == enr.state = "approved" => job # "none"

\* No badge exists unless the requirements of some version were met.
BadgeIsEarned == badge.version # None => \E v \in Versions : Earned(v)

\* No resource collects more dwell than the time that has passed on the
\* server, however many heartbeats and openings overlap (ValidarEvidencia).
DwellIsReal == \A r \in Resources : prog[r].dwell <= now

\* A badge keeps the version it was issued for and is never taken back:
\* re-running the job inserts nothing (IssueForEnrollment, Revoke).
BadgeIsIssuedOnce ==
    [][badge.version # None => badge'.version = badge.version /\ (badge.revoked => badge'.revoked)]_vars

\* An approval leads to a badge with its image.
ApprovalGetsItsBadge == enr.state = "approved" ~> badge.image

\* "Aprobar es un hecho histórico" (domain.go:197): no step takes it back.
ApprovalIsHistoric == [][enr.state = "approved" => enr'.state = "approved"]_vars
=============================================================================
