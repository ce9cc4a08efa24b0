---------------------------- MODULE MCAuthoring -----------------------------
(* Instances of Authoring for TLC. *)
EXTENDS AuthoringProps, TLC

CONSTANTS q1, q2, m1, u1, u2, x1, x2, t1, k1

Symmetry == UNION {Permutations(s) : s \in {Requests, UnitIds, ResourceIds, Texts}}

Item(type, visible, text, link) == [type |-> type, visible |-> visible, text |-> text, link |-> link]
\* A text, one still hidden and empty, a quiz and a video.
InputsMC == { Item("rich_text", TRUE, t1, None), Item("rich_text", FALSE, None, None),
              Item("quiz", TRUE, None, None), Item("video", TRUE, None, k1) }

With(f) == f @@ [k \in Kinds |-> IF k \in Adds THEN 1 ELSE 0]
\* Two publications around a save; two overlapping clones of a version that grows;
\* a quiz replaced; metadata, an asset and a resource that change under a validation.
BudgetsPass ==
    { With("publish" :> 2 @@ "unpublish" :> 1 @@ "save" :> 1),
      With("publish" :> 1 @@ "version" :> 2),
      With("publish" :> 1 @@ "unpublish" :> 1 @@ "version" :> 1 @@ "addUnit" :> 2 @@ "addResource" :> 2),
      With("publish" :> 1 @@ "quiz" :> 2 @@ "lost" :> 1),
      With("publish" :> 1 @@ "course" :> 1 @@ "asset" :> 1 @@ "update" :> 1) }
=============================================================================
