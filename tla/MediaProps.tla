----------------------------- MODULE MediaProps -----------------------------
(***************************************************************************)
(* What the life of a media asset is checked for.                          *)
(***************************************************************************)
EXTENDS Media

Refused == {"different", "infected", "oversized"}

\* "no se procesa lo que no está limpio" (scan.go:20): nothing that the probe
\* or the scanner refuses is ever served, transcoded or derived from, whatever
\* completions, aborts, crashes and retries overlap.
OnlyCleanIsProcessed ==
    asset.status \in {"clean", "processing", "ready", "failed"} \/ segments \/ served # {}
        => content \notin Refused /\ asset.scan # "refused"

\* While a credential is valid the player finds what it asks for: the rows
\* that the manifests are made of and the files they name, or the original
\* (MasterDeSesion, PlaylistFirmada). A ready video has them too.
SessionPlays ==
    /\ session => IF asset.streamed THEN derivatives ELSE object = "originals"
    /\ asset.status = "ready" => derivatives
    /\ derivatives => segments

\* An infected asset stays so, unless its owner aborts it: a job that repeats
\* does not give it another chance (yaVerificado, Escanear).
InfectedIsFinal ==
    [][asset.status = "infected" => asset'.status \in {"infected", "rejected"}]_vars

Settled ==
    \/ asset.status \in {"ready", "rejected", "infected", "failed"}
    \/ asset.status = "clean" /\ ~asset.streamed
    \/ \E j \in Jobs : job[j] = "dead"

\* Whatever was uploaded gets its verdict and its derivatives, or one of its
\* jobs ends where an administrator finds it.
UploadSettles == asset.status = "uploaded" ~> Settled
=============================================================================
