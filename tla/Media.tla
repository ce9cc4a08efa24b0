------------------------------- MODULE Media -------------------------------
(***************************************************************************)
(* One media asset from its upload to its playback (modules/media and      *)
(* adapters/postgres/media.go): the multipart upload, the jobs media.probe,*)
(* media.scan and media.transcode_hls, and the playback session.           *)
(*                                                                         *)
(* Whoever changes the asset reads the row, works, and writes every        *)
(* column back without looking again (ActualizarAsset).                    *)
(*                                                                         *)
(* Jobs are seen as the registry keeps them (JobQueue): recorded once by   *)
(* key, executed by one worker at a time, repeated after a crash, and      *)
(* dead after MaxRetry retries.                                            *)
(***************************************************************************)
EXTENDS Naturals

CONSTANTS
    Requests,   \* concurrent requests of the owner
    Workers,    \* worker goroutines
    MaxRetry,   \* retries of a job that fails
    Atomic,     \* the store completes an upload in one step (S3; GCS does not)
    Budgets,    \* alternatives for how often each outside event may happen
    None

Jobs  == {"probe", "scan", "hls"}
Kinds == {"complete", "abort",
          "crash",    \* a process dies
          "error",    \* the store, the antivirus, ffmpeg or a statement fails
          "requeue",  \* an administrator revives a dead job
          "play", "expire"}

ASSUME MediaAssumption ==
    /\ MaxRetry \in Nat /\ Atomic \in BOOLEAN
    /\ Budgets \subseteq [Kinds -> Nat]
    /\ None \notin Jobs

VARIABLES
    asset,        \* the row of media.assets
    upload,       \* the row of media.uploads, and whether its 24 h have passed
    parts,        \* the multipart upload in the store
    object,       \* where the original is
    content,      \* what was uploaded
    segments,     \* the HLS files are in the bucket of derivatives
    derivatives,  \* the rows of media.asset_derivatives
    job,          \* platform.job_runs of the three jobs
    failures,     \* the retries that asynq has counted for each job's task
    worker,       \* what each worker is doing
    req,          \* what each request is doing
    session,      \* a playback credential for the asset, or a signed URL, is valid
    served,       \* what the API has let somebody read
    left          \* the budget that remains

store == <<parts, object, content, segments>>
queue == <<job, failures>>
vars  == <<asset, upload, store, derivatives, queue, worker, req, session, served, left>>

Statuses == {"absent", "uploading", "uploaded", "scanning", "clean", "processing", "ready",
             "rejected", "infected", "failed"}
Contents == {"good",
             "different",   \* not the declared size, checksum or type
             "infected",
             "oversized",   \* more than the scanner accepts
             "unreadable"}  \* ffmpeg cannot decode it

Row    == [status : Statuses, streamed : BOOLEAN, scan : {"none", "clean", "refused"}]
Worker == [job : Jobs \union {None}, row : Row,
           verdict : {"none", "ok", "rejected", "infected", "failed"},
           pc : {"idle", "read", "judge", "move", "mark", "produce", "commit", "done", "error"}]
Request == [pc : {"idle", "compose", "discard", "complete", "stop", "abort"}, row : Row]

NoAsset == [status |-> "absent", streamed |-> FALSE, scan |-> "none"]
Free    == [job |-> None, row |-> NoAsset, verdict |-> "none", pc |-> "idle"]
Idle    == [pc |-> "idle", row |-> NoAsset]

TypeOK ==
    /\ asset \in Row
    /\ upload \in [completed : BOOLEAN, aborted : BOOLEAN, expired : BOOLEAN]
    /\ parts \in {"none", "open", "gone"}
    /\ object \in {"none", "originals", "quarantine"} /\ content \in Contents
    /\ segments \in BOOLEAN /\ derivatives \in BOOLEAN /\ session \in BOOLEAN
    /\ job \in [Jobs -> {"none", "queued", "running", "failed", "succeeded", "dead"}]
    /\ failures \in [Jobs -> Nat]
    /\ worker \in [Workers -> Worker]
    /\ req \in [Requests -> Request]
    /\ served \subseteq {"original", "manifest", "segments"}
    /\ left \in [Kinds -> Nat]

Init ==
    /\ asset = NoAsset
    /\ upload = [completed |-> FALSE, aborted |-> FALSE, expired |-> FALSE]
    /\ parts = "none" /\ object = "none" /\ content = "good"
    /\ segments = FALSE /\ derivatives = FALSE /\ session = FALSE /\ served = {}
    /\ job = [j \in Jobs |-> "none"] /\ failures = [j \in Jobs |-> 0]
    /\ worker = [w \in Workers |-> Free]
    /\ req = [q \in Requests |-> Idle]
    /\ left \in Budgets

Spend(k) ==
    /\ left[k] > 0
    /\ left' = [left EXCEPT ![k] = @ - 1]

-----------------------------------------------------------------------------
(* The upload: Iniciar, Completar, Abortar.                                *)

Open == ~upload.completed /\ ~upload.aborted

\* Iniciar. A failure leaves at most a multipart upload that nobody knows.
Begin(streamed) ==
    /\ asset.status = "absent"
    /\ asset' = [NoAsset EXCEPT !.status = "uploading", !.streamed = streamed]
    /\ parts' = "open"
    /\ UNCHANGED <<upload, object, content, segments, derivatives, queue, worker, req, session, served, left>>

UploadExpires ==
    /\ Spend("expire")
    /\ upload' = [upload EXCEPT !.expired = TRUE]
    /\ UNCHANGED <<asset, store, derivatives, queue, worker, req, session, served>>

CompleteRead(q) ==
    /\ req[q] = Idle
    /\ asset.status # "absent"
    /\ Open /\ ~upload.expired
    /\ Spend("complete")
    /\ req' = [req EXCEPT ![q] = [pc |-> "compose", row |-> asset]]
    /\ UNCHANGED <<asset, upload, store, derivatives, queue, worker, session, served>>

\* CompletarMultipart makes the object of the parts there are, and then
\* discards them, if it can; S3 does both at once. What the parts hold is the
\* client's choice, made once: two completions name the same parts.
Compose(q) ==
    /\ req[q].pc = "compose"
    /\ parts = "open"
    /\ IF object = "none"
       THEN content' \in {c \in Contents : c = "unreadable" => req[q].row.streamed}
       ELSE UNCHANGED content
    /\ object' = "originals"
    /\ parts' = IF Atomic THEN "gone" ELSE parts
    /\ req' = [req EXCEPT ![q].pc = "discard"]
    /\ UNCHANGED <<asset, upload, segments, derivatives, queue, worker, session, served, left>>

ComposeRefused(q) ==
    /\ req[q].pc = "compose"
    /\ parts = "gone"
    /\ req' = [req EXCEPT ![q] = Idle]
    /\ UNCHANGED <<asset, upload, store, derivatives, queue, worker, session, served, left>>

DiscardParts(q) ==
    /\ req[q].pc = "discard"
    /\ parts' \in {parts, "gone"}
    /\ req' = [req EXCEPT ![q].pc = "complete"]
    /\ UNCHANGED <<asset, upload, object, content, segments, derivatives, queue, worker, session, served, left>>

\* jobs.Record: a job that is already there is left alone.
Recorded(j) == IF job[j] = "none" THEN [job EXCEPT ![j] = "queued"] ELSE job

CompleteCommit(q) ==
    /\ req[q].pc = "complete"
    /\ asset' = [req[q].row EXCEPT !.status = "uploaded"]
    /\ upload' = [upload EXCEPT !.completed = TRUE]
    /\ job' = Recorded("probe")
    /\ req' = [req EXCEPT ![q] = Idle]
    /\ UNCHANGED <<store, derivatives, failures, worker, session, served, left>>

\* Abortar does not look at the asset's status.
AbortRead(q) ==
    /\ req[q] = Idle
    /\ asset.status # "absent"
    /\ Spend("abort")
    /\ req' = [req EXCEPT ![q] = [pc |-> IF Open THEN "stop" ELSE "abort", row |-> asset]]
    /\ UNCHANGED <<asset, upload, store, derivatives, queue, worker, session, served>>

\* AbortarMultipart's error is logged.
StopMultipart(q) ==
    /\ req[q].pc = "stop"
    /\ parts' \in {parts, "gone"}
    /\ req' = [req EXCEPT ![q].pc = "abort"]
    /\ UNCHANGED <<asset, upload, object, content, segments, derivatives, queue, worker, session, served, left>>

AbortCommit(q) ==
    /\ req[q].pc = "abort"
    /\ asset' = [req[q].row EXCEPT !.status = "rejected"]
    /\ upload' = [upload EXCEPT !.aborted = TRUE]
    /\ req' = [req EXCEPT ![q] = Idle]
    /\ UNCHANGED <<store, derivatives, queue, worker, session, served, left>>

\* Its process dies, or the store or a statement fails.
RequestFails(q) ==
    /\ req[q] # Idle
    /\ Spend("crash")
    /\ req' = [req EXCEPT ![q] = Idle]
    /\ UNCHANGED <<asset, upload, store, derivatives, queue, worker, session, served>>

-----------------------------------------------------------------------------
(* What the queue does with the three jobs.                                *)

Deliver(w, j) ==
    /\ worker[w].pc = "idle"
    /\ job[j] \in {"queued", "failed"}
    /\ job' = [job EXCEPT ![j] = "running"]
    /\ worker' = [worker EXCEPT ![w] = [Free EXCEPT !.job = j, !.pc = "read"]]
    /\ UNCHANGED <<asset, upload, store, derivatives, failures, req, session, served, left>>

Succeed(w) ==
    /\ worker[w].pc = "done"
    /\ job' = [job EXCEPT ![worker[w].job] = "succeeded"]
    /\ worker' = [worker EXCEPT ![w] = Free]
    /\ UNCHANGED <<asset, upload, store, derivatives, failures, req, session, served, left>>

Fail(w) ==
    /\ worker[w].pc = "error"
    /\ LET j == worker[w].job
       IN  IF failures[j] < MaxRetry
           THEN job' = [job EXCEPT ![j] = "failed"] /\ failures' = [failures EXCEPT ![j] = @ + 1]
           ELSE job' = [job EXCEPT ![j] = "dead"] /\ UNCHANGED failures
    /\ worker' = [worker EXCEPT ![w] = Free]
    /\ UNCHANGED <<asset, upload, store, derivatives, req, session, served, left>>

\* The job is delivered again once its heartbeat is old, which is one of its
\* retries while it has any, and the reaper's doing after that.
WorkerDies(w) ==
    /\ worker[w].pc # "idle"
    /\ Spend("crash")
    /\ job' = [job EXCEPT ![worker[w].job] = "queued"]
    /\ failures' = [failures EXCEPT ![worker[w].job] = IF @ < MaxRetry THEN @ + 1 ELSE @]
    /\ worker' = [worker EXCEPT ![w] = Free]
    /\ UNCHANGED <<asset, upload, store, derivatives, req, session, served>>

\* RunTask of the archived task: it keeps its payload and its retries.
Requeue(j) ==
    /\ job[j] = "dead"
    /\ Spend("requeue")
    /\ job' = [job EXCEPT ![j] = "queued"]
    /\ UNCHANGED <<asset, upload, store, derivatives, failures, worker, req, session, served>>

\* What a handler does between its writes changes nothing but itself, and the
\* objects that it says it does.
Proceed(w, now) ==
    /\ worker' = [worker EXCEPT ![w] = now]
    /\ UNCHANGED <<asset, upload, parts, content, derivatives, queue, req, session, served>>

\* A handler's transaction writes the whole row.
Write(w, row, pc) ==
    /\ asset' = row
    /\ worker' = [worker EXCEPT ![w].pc = pc, ![w].row = row]
    /\ UNCHANGED <<upload, store, failures, req, session, served, left>>

\* The store, the antivirus, ffmpeg or a statement fails: the job's error.
HandlerFails(w) ==
    /\ worker[w].pc \in {"read", "judge", "mark", "produce", "commit"}
    /\ Spend("error")
    /\ Proceed(w, [worker[w] EXCEPT !.pc = "error"])
    /\ UNCHANGED <<object, segments>>

\* The original is not where the handler expects it: an error on every retry.
OriginalMissing(w) ==
    /\ worker[w].pc \in {"judge", "produce"}
    /\ object # "originals"
    /\ Proceed(w, [worker[w] EXCEPT !.pc = "error"])
    /\ UNCHANGED <<object, segments, left>>

-----------------------------------------------------------------------------
(* media.probe: Verificar.                                                 *)

\* Faulty variant: an infected asset is verified again.
VerifiedButInfected == {"scanning", "clean", "processing", "ready", "rejected"}

\* yaVerificado. "failed" is not among them.
Verified == {"scanning", "clean", "processing", "ready", "rejected", "infected"}

ProbeRead(w) ==
    /\ worker[w].job = "probe" /\ worker[w].pc = "read"
    /\ Proceed(w, [worker[w] EXCEPT !.row = asset,
                                    !.pc = IF asset.status \in Verified THEN "done" ELSE "judge"])
    /\ UNCHANGED <<object, segments, left>>

\* motivoRechazo, of the bytes in the store.
Mismatch == content = "different"

ProbeJudge(w) ==
    /\ worker[w].job = "probe" /\ worker[w].pc = "judge"
    /\ object = "originals"
    /\ Proceed(w, IF Mismatch
                  THEN [worker[w] EXCEPT !.verdict = "rejected", !.pc = "move"]
                  ELSE [worker[w] EXCEPT !.verdict = "ok", !.pc = "commit"])
    /\ UNCHANGED <<object, segments, left>>

\* Mover to quarantine, whose error is logged (Verificar and cuarentena).
Quarantine(w) ==
    /\ worker[w].pc = "move"
    /\ object' \in {object, "quarantine"}
    /\ Proceed(w, [worker[w] EXCEPT !.pc = "commit"])
    /\ UNCHANGED <<segments, left>>

\* Faulty variant: the scan is published but not recorded with the status.
ProbeCommitWithoutJob(w) ==
    /\ worker[w].job = "probe" /\ worker[w].pc = "commit"
    /\ Write(w, [worker[w].row EXCEPT !.status =
                    IF worker[w].verdict = "ok" THEN "scanning" ELSE "rejected"], "done")
    /\ UNCHANGED <<job, derivatives>>

ProbeCommit(w) ==
    /\ worker[w].job = "probe" /\ worker[w].pc = "commit"
    /\ IF worker[w].verdict = "ok"
       THEN /\ Write(w, [worker[w].row EXCEPT !.status = "scanning"], "done")
            /\ job' = Recorded("scan")
       ELSE /\ Write(w, [worker[w].row EXCEPT !.status = "rejected"], "done")
            /\ UNCHANGED job
    /\ UNCHANGED derivatives

-----------------------------------------------------------------------------
(* media.scan: Escanear and cuarentena.                                    *)

ScanRead(w) ==
    /\ worker[w].job = "scan" /\ worker[w].pc = "read"
    /\ Proceed(w, [worker[w] EXCEPT !.row = asset,
                                    !.pc = IF asset.status = "scanning" THEN "judge" ELSE "done"])
    /\ UNCHANGED <<object, segments, left>>

\* Faulty variant: what the scanner cannot analyse passes.
ScannedLeniently == IF content = "infected" THEN "infected" ELSE "ok"

\* Faulty variant: the name of the audit event is written as the status.
ScannedAsSkipped ==
    CASE content = "infected"  -> "infected"
      [] content = "oversized" -> "scan_skipped"
      [] OTHER                 -> "ok"

Scanned ==
    CASE content = "infected"  -> "infected"
      [] content = "oversized" -> "rejected"
      [] OTHER                 -> "ok"

ScanJudge(w) ==
    /\ worker[w].job = "scan" /\ worker[w].pc = "judge"
    /\ object = "originals"
    /\ Proceed(w, [worker[w] EXCEPT !.verdict = Scanned,
                                    !.pc = IF Scanned = "ok" THEN "commit" ELSE "move"])
    /\ UNCHANGED <<object, segments, left>>

ScanCommit(w) ==
    /\ worker[w].job = "scan" /\ worker[w].pc = "commit"
    /\ LET row == worker[w].row
       IN  IF worker[w].verdict = "ok"
           THEN /\ Write(w, [row EXCEPT !.status = "clean", !.scan = "clean"], "done")
                /\ job' = IF row.streamed THEN Recorded("hls") ELSE job
           ELSE /\ Write(w, [row EXCEPT !.status = worker[w].verdict, !.scan = "refused"], "done")
                /\ UNCHANGED job
    /\ UNCHANGED derivatives

-----------------------------------------------------------------------------
(* media.transcode_hls: Transcodificar and producirHLS. The job exists for *)
(* video and audio only.                                                   *)

Transcodable ==
    \/ asset.status \in {"clean", "processing", "failed"}
    \/ asset.status = "ready" /\ ~derivatives

HlsRead(w) ==
    /\ worker[w].job = "hls" /\ worker[w].pc = "read"
    /\ Proceed(w, [worker[w] EXCEPT !.row = asset,
                                    !.pc = IF Transcodable THEN "mark" ELSE "done"])
    /\ UNCHANGED <<object, segments, left>>

HlsMark(w) ==
    /\ worker[w].job = "hls" /\ worker[w].pc = "mark"
    /\ Write(w, [worker[w].row EXCEPT !.status = "processing"], "produce")
    /\ UNCHANGED <<job, derivatives>>

HlsProduce(w) ==
    /\ worker[w].job = "hls" /\ worker[w].pc = "produce"
    /\ object = "originals"
    /\ IF content = "unreadable"
       THEN /\ Proceed(w, [worker[w] EXCEPT !.verdict = "failed", !.pc = "commit"])
            /\ UNCHANGED segments
       ELSE /\ Proceed(w, [worker[w] EXCEPT !.verdict = "ok", !.pc = "commit"])
            /\ segments' = TRUE
    /\ UNCHANGED <<object, left>>

\* Faulty variant: the derivatives are registered by a later transaction.
HlsCommitWithoutDerivatives(w) ==
    /\ worker[w].job = "hls" /\ worker[w].pc = "commit"
    /\ Write(w, [worker[w].row EXCEPT !.status =
                    IF worker[w].verdict = "ok" THEN "ready" ELSE "failed"], "done")
    /\ UNCHANGED <<job, derivatives>>

\* The row and the derivatives are written by one transaction.
HlsCommit(w) ==
    /\ worker[w].job = "hls" /\ worker[w].pc = "commit"
    /\ IF worker[w].verdict = "ok"
       THEN /\ Write(w, [worker[w].row EXCEPT !.status = "ready"], "done")
            /\ derivatives' = TRUE
       ELSE /\ Write(w, [worker[w].row EXCEPT !.status = "failed"], "done")
            /\ UNCHANGED derivatives
    /\ UNCHANGED job

-----------------------------------------------------------------------------
(* Playback: signed URLs of the original, credentials, and the manifests    *)
(* that are made for who holds one. A credential is for an asset, not for a  *)
(* person, and the asset's status is looked at only when it is given.        *)

Serve(what) ==
    /\ served' = served \union {what}
    /\ UNCHANGED <<asset, upload, store, derivatives, queue, worker, req, session, left>>

\* URLDeDescarga, of the owner or an administrator.
Downloadable == asset.status \in {"ready", "clean"}

Download == Downloadable /\ Serve("original")

\* AbrirSesion. What is not streamed is a signed URL of the original.
OpenSession ==
    /\ asset.status = "ready" \/ (asset.status = "clean" /\ ~asset.streamed)
    /\ Spend("play")
    /\ session' = TRUE
    /\ served' = IF asset.streamed THEN served ELSE served \union {"original"}
    /\ UNCHANGED <<asset, upload, store, derivatives, queue, worker, req>>

\* MasterFirmado: the owner's manifest carries a credential.
HlsMaster ==
    /\ asset.status = "ready" /\ derivatives
    /\ Spend("play")
    /\ session' = TRUE
    /\ served' = served \union {"manifest"}
    /\ UNCHANGED <<asset, upload, store, derivatives, queue, worker, req>>

\* MasterDeSesion and PlaylistFirmada, for whoever holds the credential. The
\* playlist is read from the bucket of derivatives.
SessionMaster == session /\ asset.streamed /\ derivatives /\ Serve("manifest")
Playlist      == session /\ asset.streamed /\ derivatives /\ segments /\ Serve("segments")

SessionExpires ==
    /\ session
    /\ session' = FALSE
    /\ UNCHANGED <<asset, upload, store, derivatives, queue, worker, req, served, left>>

-----------------------------------------------------------------------------
Handle(w) ==
    \/ ProbeRead(w) \/ ProbeJudge(w) \/ ProbeCommit(w)
    \/ ScanRead(w) \/ ScanJudge(w) \/ ScanCommit(w)
    \/ HlsRead(w) \/ HlsMark(w) \/ HlsProduce(w) \/ HlsCommit(w)
    \/ Quarantine(w) \/ OriginalMissing(w)
    \/ Succeed(w) \/ Fail(w)

Proceeds(q) ==
    \/ Compose(q) \/ ComposeRefused(q) \/ DiscardParts(q) \/ CompleteCommit(q)
    \/ StopMultipart(q) \/ AbortCommit(q)

Next ==
    \/ \E streamed \in BOOLEAN : Begin(streamed)
    \/ UploadExpires
    \/ \E q \in Requests : CompleteRead(q) \/ AbortRead(q) \/ Proceeds(q) \/ RequestFails(q)
    \/ \E w \in Workers :
         \/ \E j \in Jobs : Deliver(w, j)
         \/ Handle(w) \/ HandlerFails(w) \/ WorkerDies(w)
    \/ \E j \in Jobs : Requeue(j)
    \/ Download \/ OpenSession \/ HlsMaster \/ SessionMaster \/ Playlist \/ SessionExpires

Spec == Init /\ [][Next]_vars

\* Requests and handlers that started run on, and the queue delivers each job
\* that is open (JobQueue). Nothing obliges the owner or an administrator.
Fairness ==
    /\ \A q \in Requests : WF_vars(Proceeds(q))
    /\ \A w \in Workers : WF_vars(Handle(w))
    /\ \A j \in Jobs : SF_vars(\E w \in Workers : Deliver(w, j))

FairSpec == Spec /\ Fairness
=============================================================================
