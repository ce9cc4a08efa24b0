---------------------------- MODULE MediaProofs -----------------------------
(***************************************************************************)
(* Theorems about Media for any number of requests, workers, retries and   *)
(* failures.                                                               *)
(***************************************************************************)
EXTENDS MediaProps, TLAPS

\* What a verdict was about is the content that the store has: an object is made
\* once, and its content is chosen then. o: where the object is; c: its content.
Passed(o, c) == o # "none" /\ c \notin Refused

\* What a row says of the content, whoever read it and however long ago.
Told(row, o, c) ==
    /\ row.status \in {"clean", "processing", "ready", "failed"} => Passed(o, c)
    /\ row.status = "scanning" => o # "none" /\ c # "different"
    /\ row.status = "infected" => o # "none" /\ c = "infected"
    /\ row.scan = "refused" => o # "none" /\ c \in Refused

\* What the handler x knows of it; s: the segments are in the bucket.
Knows(x, o, c, s) ==
    /\ Told(x.row, o, c)
    /\ x.job = None <=> x.pc = "idle"
    /\ x.pc = "move" => x.job # "hls" /\ o # "none" /\ c \in Refused
    /\ x.pc \in {"mark", "produce"} => x.job = "hls"
    /\ x.job = "probe" /\ x.pc \in {"move", "commit"} /\ x.verdict = "ok" =>
          o # "none" /\ c # "different"
    /\ x.job = "scan" /\ x.pc \in {"judge", "move", "commit"} => x.row.status = "scanning"
    /\ x.job = "scan" /\ x.pc \in {"move", "commit"} =>
          /\ x.verdict = "infected" <=> c = "infected"
          /\ x.verdict = "rejected" <=> c = "oversized"
          /\ x.verdict \in {"ok", "infected", "rejected"}
    /\ x.job = "hls" /\ x.pc \in {"mark", "produce", "commit"} => Passed(o, c)
    /\ x.job = "hls" /\ x.pc = "commit" /\ x.verdict = "ok" => s

\* A job is with one worker, which has it running.
Exclusive ==
    /\ \A w \in Workers : worker[w].job # None => job[worker[w].job] = "running"
    /\ \A v, w \in Workers : worker[v].job = worker[w].job /\ worker[v].job # None => v = w

\* Nothing happens before the asset begins, and its kind does not change after.
OneKind ==
    /\ asset.status = "absent" => /\ ~session /\ \A j \in Jobs : job[j] = "none"
                                  /\ \A q \in Requests : req[q].pc = "idle"
    /\ \A q \in Requests : IF req[q].pc = "idle" THEN req[q] = Idle
                                               ELSE req[q].row.streamed = asset.streamed
    /\ \A w \in Workers : worker[w].pc \in {"judge", "move", "mark", "produce", "commit"} =>
                             worker[w].row.streamed = asset.streamed

Sound ==
    /\ Told(asset, object, content)
    /\ \A q \in Requests : Told(req[q].row, object, content)
    /\ \A w \in Workers : Knows(worker[w], object, content, segments)
    /\ session \/ segments \/ served # {} => Passed(object, content)
    /\ object = "quarantine" => content \in Refused

Played ==
    /\ session /\ asset.streamed => derivatives
    /\ asset.status = "ready" => derivatives
    /\ derivatives => segments

IInv == TypeOK /\ Exclusive /\ OneKind /\ Sound /\ Played

\* With a store that completes in one step there is one completion, before any job;
\* the verification that finds the asset uploaded is over before the scan exists.
Completes(x) == x.pc \in {"discard", "complete"}
Ordered ==
    /\ \A q, r \in Requests : Completes(req[q]) /\ Completes(req[r]) => q = r
    /\ \A q \in Requests : Completes(req[q]) => parts = "gone" /\ job["probe"] = "none"
    /\ job["probe"] # "none" => parts = "gone" /\ asset.status # "uploading"
    /\ job["probe"] = "none" => job["scan"] = "none"
    /\ job["scan"] # "none" => asset.status # "uploaded"
    /\ job["scan"] # "none" => \A w \in Workers :
          worker[w].job = "probe" /\ worker[w].pc \in {"judge", "move", "commit"} =>
             Passed(object, content)
    /\ asset.status = "infected" => job["scan"] # "none"

-----------------------------------------------------------------------------
\* Zenon sees that a boolean field keeps its type.
LEMMA RowSet ==
    ASSUME NEW row \in Row, NEW s \in Statuses
    PROVE  /\ [row EXCEPT !.status = s] \in Row
           /\ [row EXCEPT !.status = s].status = s
           /\ [row EXCEPT !.status = s].scan = row.scan
           /\ [row EXCEPT !.status = s].streamed = row.streamed
<1>1. [row EXCEPT !.status = s] \in Row
  BY Zenon DEF Row
<1> QED BY <1>1 DEF Row

Ruled(row, s, k) == [row EXCEPT !.status = s, !.scan = k]

\* A row that is given a verdict is a row.
LEMMA RowScanned ==
    ASSUME NEW row \in Row, NEW s \in Statuses, NEW k \in {"none", "clean", "refused"}
    PROVE  /\ Ruled(row, s, k) \in Row
           /\ Ruled(row, s, k).status = s
           /\ Ruled(row, s, k).scan = k
           /\ Ruled(row, s, k).streamed = row.streamed
<1>1. Ruled(row, s, k) \in Row
  BY Zenon DEF Row, Ruled
<1> QED BY <1>1 DEF Row, Ruled

Verdicts == {"none", "ok", "rejected", "infected", "failed"}
Pcs == {"idle", "read", "judge", "move", "mark", "produce", "commit", "done", "error"}
Judging(x, v, pc) == [x EXCEPT !.verdict = v, !.pc = pc]
Reading(x, row, pc) == [x EXCEPT !.row = row, !.pc = pc]

\* The three ways in which a handler moves on.
LEMMA Moved ==
    ASSUME NEW x \in Worker,
           NEW pc \in Pcs
    PROVE  /\ [x EXCEPT !.pc = pc] \in Worker
           /\ [x EXCEPT !.pc = pc].job = x.job
           /\ [x EXCEPT !.pc = pc].row = x.row
           /\ [x EXCEPT !.pc = pc].verdict = x.verdict
           /\ [x EXCEPT !.pc = pc].pc = pc
<1>1. [x EXCEPT !.pc = pc] \in Worker
  BY Zenon DEF Worker, Verdicts, Pcs
<1> QED BY <1>1 DEF Worker

\* A handler that judges changes its verdict and its place, and nothing else.
LEMMA Judged ==
    ASSUME NEW x \in Worker,
           NEW v \in Verdicts,
           NEW pc \in Pcs
    PROVE  /\ Judging(x, v, pc) \in Worker
           /\ Judging(x, v, pc).job = x.job
           /\ Judging(x, v, pc).row = x.row
           /\ Judging(x, v, pc).verdict = v
           /\ Judging(x, v, pc).pc = pc
<1>1. Judging(x, v, pc) \in Worker
  BY Zenon DEF Judging, Worker, Verdicts, Pcs
<1> QED BY <1>1 DEF Judging, Worker

\* A handler that reads the asset changes its row and its place, and nothing else.
LEMMA HasRead ==
    ASSUME NEW x \in Worker, NEW row \in Row,
           NEW pc \in Pcs
    PROVE  /\ Reading(x, row, pc) \in Worker
           /\ Reading(x, row, pc).job = x.job
           /\ Reading(x, row, pc).row = row
           /\ Reading(x, row, pc).verdict = x.verdict
           /\ Reading(x, row, pc).pc = pc
<1>1. Reading(x, row, pc) \in Worker
  BY Zenon DEF Reading, Worker, Verdicts, Pcs
<1> QED BY <1>1 DEF Reading, Worker

\* The records that stand for nothing, and what they hold.
LEMMA NothingYet ==
    /\ NoAsset \in Row /\ Free \in Worker /\ Idle \in Request
    /\ NoAsset.status = "absent" /\ NoAsset.scan = "none"
    /\ Free.job = None /\ Free.pc = "idle" /\ Free.row = NoAsset
    /\ Idle.pc = "idle" /\ Idle.row = NoAsset
BY DEF NoAsset, Free, Idle, Row, Worker, Request, Statuses

\* A budget stays one.
LEMMA BudgetStep == ASSUME TypeOK, NEW k \in Kinds, Spend(k) PROVE left' \in [Kinds -> Nat]
BY DEF TypeOK, Spend

\* What was known stays so while the content that it was about does.
LEMMA ToldKept ==
    ASSUME NEW row, NEW o, NEW c, NEW o2, NEW c2, Told(row, o, c),
           o # "none" => o2 # "none" /\ c2 = c
    PROVE  Told(row, o2, c2)
BY DEF Told, Passed

\* What a handler knows stays true while the object is there with its content and the
\* segments are not taken back.
LEMMA KnowsKept ==
    ASSUME NEW x, NEW o, NEW c, NEW s, NEW o2, NEW c2, NEW s2, Knows(x, o, c, s),
           o # "none" => o2 # "none" /\ c2 = c, s => s2
    PROVE  Knows(x, o2, c2, s2)
BY ToldKept DEF Knows, Told, Passed

\* A worker that is busy has a job, so the asset is there.
LEMMA Busy ==
    ASSUME IInv, NEW w \in Workers, worker[w].pc # "idle"
    PROVE  asset.status # "absent" /\ worker[w].job \in Jobs
<1>1. worker[w] \in Worker /\ worker[w].job # None
  BY DEF IInv, TypeOK, Sound, Knows
<1>2. worker[w].job \in Jobs
  BY <1>1 DEF Worker
<1> QED BY <1>1, <1>2 DEF IInv, Exclusive, OneKind

\* A handler takes a step that writes no row.
LEMMA Goes ==
    ASSUME IInv, NEW w \in Workers, NEW x \in Worker, worker' = [worker EXCEPT ![w] = x],
           UNCHANGED <<asset, upload, parts, content, derivatives, queue, req, session, served>>,
           left' \in [Kinds -> Nat],
           object' = object \/ (object # "none" /\ content \in Refused /\ object' = "quarantine"),
           segments' = segments \/ (segments' = TRUE /\ Passed(object, content)),
           x.job = worker[w].job, Knows(x, object', content', segments'),
           x.pc \in {"judge", "move", "mark", "produce", "commit"} => x.row.streamed = asset.streamed
    PROVE  IInv'
<1>1. /\ worker' \in [Workers -> Worker] /\ worker'[w] = x
      /\ \A v \in Workers \ {w} : worker'[v] = worker[v]
      /\ \A v \in Workers : worker'[v].job = worker[v].job
  BY DEF IInv, TypeOK
<1>2. UNCHANGED <<job, failures>>
  BY DEF queue
<1>3. TypeOK'
  BY <1>1, <1>2 DEF IInv, TypeOK
<1>4. Exclusive'
  BY <1>1, <1>2 DEF IInv, Exclusive
<1>5. OneKind'
  BY <1>1, <1>2 DEF IInv, OneKind
<1>6. /\ object # "none" => object' # "none"
      /\ segments => segments'
  BY DEF IInv, TypeOK
<1>7. Sound'
  <2>1. Told(asset', object', content') /\ \A q \in Requests : Told(req'[q].row, object', content')
    BY <1>6, ToldKept DEF IInv, Sound
  <2>2. \A v \in Workers : Knows(worker'[v], object', content', segments')
    BY <1>1, <1>6, KnowsKept DEF IInv, Sound
  <2>3. session' \/ segments' \/ served' # {} => Passed(object', content')
    BY <1>6 DEF IInv, Sound, Passed
  <2> QED BY <2>1, <2>2, <2>3 DEF IInv, Sound
<1>8. Played'
  BY <1>6 DEF IInv, Played
<1> QED BY <1>3, <1>4, <1>5, <1>7, <1>8 DEF IInv

\* Recording a job takes it from no worker.
LEMMA RecordedJob ==
    ASSUME IInv, NEW j \in Jobs
    PROVE  /\ Recorded(j) \in [Jobs -> {"none", "queued", "running", "failed", "succeeded", "dead"}]
           /\ \A i \in Jobs : Recorded(j)[i] = job[i] \/ (i = j /\ job[i] = "none" /\ Recorded(j)[i] = "queued")
           /\ Recorded(j)[j] # "none"
BY DEF IInv, TypeOK, Recorded

\* A handler's transaction writes the row.
LEMMA Writes ==
    ASSUME IInv, NEW w \in Workers, NEW row \in Row, NEW pc \in {"done", "produce"}, Write(w, row, pc),
           worker[w].pc # "idle", row.status # "absent",
           job' = job \/ \E j \in Jobs : job' = Recorded(j),
           derivatives' = derivatives \/ (derivatives' = TRUE /\ segments),
           Told(row, object, content), row.streamed = asset.streamed,
           row.status = "ready" => derivatives',
           pc = "produce" => worker[w].job = "hls" /\ Passed(object, content)
    PROVE  IInv'
<1> DEFINE x == [worker[w] EXCEPT !.pc = pc, !.row = row]
<1>1. /\ asset' = row /\ worker' = [worker EXCEPT ![w].pc = pc, ![w].row = row]
      /\ UNCHANGED <<upload, parts, object, content, segments, failures, req, session, served, left>>
  BY DEF Write, store
<1>2. worker \in [Workers -> Worker] /\ worker[w] \in Worker /\ asset.status # "absent"
      /\ worker[w].job # None
  BY Busy, MediaAssumption DEF IInv, TypeOK
<1>3. /\ x \in Worker /\ x.job = worker[w].job /\ x.pc = pc /\ x.row = row
      /\ x.verdict = worker[w].verdict
  BY <1>2 DEF Worker
<1>4. worker' = [worker EXCEPT ![w] = x]
  BY <1>1, <1>2
<1> HIDE DEF x
<1>5. /\ worker' \in [Workers -> Worker] /\ worker'[w] = x
      /\ \A v \in Workers \ {w} : worker'[v] = worker[v]
      /\ \A v \in Workers : worker'[v].job = worker[v].job
  BY <1>2, <1>3, <1>4
<1>6. /\ job' \in [Jobs -> {"none", "queued", "running", "failed", "succeeded", "dead"}]
      /\ \A i \in Jobs : job[i] = "running" => job'[i] = "running"
  BY RecordedJob DEF IInv, TypeOK
<1>7. TypeOK'
  BY <1>1, <1>5, <1>6 DEF IInv, TypeOK
<1>8. Exclusive'
  <2>1. \A v \in Workers : worker[v].job # None => worker[v].job \in Jobs
    BY <1>2 DEF Worker
  <2> QED BY <1>5, <1>6, <2>1 DEF IInv, Exclusive
<1>9. OneKind'
  BY <1>1, <1>2, <1>3, <1>5 DEF IInv, OneKind
<1>10. Sound'
  <2>1. Knows(x, object, content, segments)
    BY <1>2, <1>3 DEF Knows, IInv, Sound
  <2> QED BY <1>1, <1>5, <2>1 DEF IInv, Sound
<1>11. Played'
  BY <1>1 DEF IInv, Played
<1> QED BY <1>7, <1>8, <1>9, <1>10, <1>11 DEF IInv

\* The queue delivers a job or takes it back.
LEMMA Queues ==
    ASSUME IInv, NEW w \in Workers, NEW x \in Worker, worker' = [worker EXCEPT ![w] = x],
           job' \in [Jobs -> {"none", "queued", "running", "failed", "succeeded", "dead"}],
           failures' \in [Jobs -> Nat], left' \in [Kinds -> Nat],
           UNCHANGED <<asset, upload, store, derivatives, req, session, served>>,
           x.row = NoAsset, x.pc \in {"idle", "read"}, x.job = None <=> x.pc = "idle",
           asset.status # "absent",
           \A v \in Workers \ {w} : worker[v].job # None =>
               job'[worker[v].job] = job[worker[v].job] /\ worker[v].job # x.job,
           x.job # None => job'[x.job] = "running"
    PROVE  IInv'
<1>1. /\ worker' \in [Workers -> Worker] /\ worker'[w] = x
      /\ \A v \in Workers \ {w} : worker'[v] = worker[v]
  BY DEF IInv, TypeOK
<1>2. UNCHANGED <<parts, object, content, segments>>
  BY DEF store
<1>3. TypeOK'
  BY <1>1, <1>2 DEF IInv, TypeOK
<1>4. Exclusive'
  BY <1>1 DEF IInv, Exclusive
<1>5. OneKind'
  BY <1>1 DEF IInv, OneKind
<1>6. Knows(x, object, content, segments)
  BY NothingYet DEF Knows, Told
<1>7. Sound' /\ Played'
  BY <1>1, <1>2, <1>6 DEF IInv, Sound, Played
<1> QED BY <1>3, <1>4, <1>5, <1>7 DEF IInv

\* A request takes a step.
LEMMA Requested ==
    ASSUME IInv, NEW q \in Requests, NEW x \in Request, req' = [req EXCEPT ![q] = x],
           asset.status # "absent", asset' \in Row, asset'.streamed = asset.streamed,
           asset' = asset \/ asset'.status \in {"uploaded", "rejected"},
           Told(asset', object', content'),
           upload' \in [completed : BOOLEAN, aborted : BOOLEAN, expired : BOOLEAN],
           parts' \in {"none", "open", "gone"},
           object' \in {object, "originals"}, content' \in Contents,
           object # "none" => content' = content,
           job' = job \/ job' = Recorded("probe"),
           UNCHANGED <<segments, derivatives, failures, worker, session, served>>,
           left' \in [Kinds -> Nat],
           Told(x.row, object', content'), IF x.pc = "idle" THEN x = Idle ELSE x.row.streamed = asset.streamed
    PROVE  IInv'
<1>1. /\ req' \in [Requests -> Request] /\ req'[q] = x
      /\ \A r \in Requests \ {q} : req'[r] = req[r]
  BY DEF IInv, TypeOK
<1>2. /\ job' \in [Jobs -> {"none", "queued", "running", "failed", "succeeded", "dead"}]
      /\ \A i \in Jobs : job[i] = "running" => job'[i] = "running"
  BY RecordedJob DEF IInv, TypeOK, Jobs
<1>3. TypeOK'
  BY <1>1, <1>2 DEF IInv, TypeOK
<1>4. Exclusive'
  <2>1. \A v \in Workers : worker[v].job # None => worker[v].job \in Jobs
    BY DEF IInv, TypeOK, Worker
  <2> QED BY <1>2, <2>1 DEF IInv, Exclusive
<1>5. OneKind'
  BY <1>1 DEF IInv, OneKind
<1>6. object # "none" => object' # "none" /\ content' = content
  OBVIOUS
<1>7. Sound'
  <2>1. \A r \in Requests : Told(req'[r].row, object', content')
    BY <1>1, <1>6, ToldKept DEF IInv, Sound
  <2>2. \A v \in Workers : Knows(worker'[v], object', content', segments')
    BY <1>6, KnowsKept DEF IInv, Sound
  <2>3. session' \/ segments' \/ served' # {} => Passed(object', content')
    BY <1>6 DEF IInv, Sound, Passed
  <2>4. object' = "quarantine" => content' \in Refused
    BY <1>6 DEF IInv, Sound
  <2> QED BY <2>1, <2>2, <2>3, <2>4 DEF Sound
<1>8. Played'
  BY DEF IInv, Played
<1> QED BY <1>3, <1>4, <1>5, <1>7, <1>8 DEF IInv

\* Nobody but a reader does anything.
LEMMA Seen ==
    ASSUME IInv, UNCHANGED <<asset, store, derivatives, queue, worker, req>>,
           upload' \in [completed : BOOLEAN, aborted : BOOLEAN, expired : BOOLEAN],
           left' \in [Kinds -> Nat],
           session' \in BOOLEAN, served' \subseteq {"original", "manifest", "segments"},
           session' => asset.status # "absent",
           session' /\ asset.streamed => derivatives,
           session' \/ served' # {} => (session \/ segments \/ served # {} \/ Passed(object, content))
    PROVE  IInv'
<1>1. UNCHANGED <<parts, object, content, segments, job, failures>>
  BY DEF store, queue
<1>2. TypeOK' /\ Exclusive'
  BY <1>1 DEF IInv, TypeOK, Exclusive
<1>3. OneKind' /\ Played'
  BY <1>1 DEF IInv, OneKind, Played
<1>4. Sound'
  BY <1>1 DEF IInv, Sound
<1> QED BY <1>2, <1>3, <1>4 DEF IInv

-----------------------------------------------------------------------------
\* The invariant holds before the first upload.
LEMMA IInvInit == ASSUME Init PROVE IInv
<1>1. /\ \A w \in Workers : worker[w] = Free
      /\ \A q \in Requests : req[q] = Idle
  BY DEF Init
<1>2. TypeOK
  BY MediaAssumption, NothingYet DEF Init, TypeOK, Contents
<1>3. Told(NoAsset, object, content)
  BY NothingYet DEF Told
<1>4. Knows(Free, object, content, segments)
  BY <1>3, NothingYet, MediaAssumption DEF Knows, Jobs
<1>5. Exclusive /\ OneKind
  BY <1>1, NothingYet DEF Init, Exclusive, OneKind
<1>6. Sound /\ Played
  BY <1>1, <1>3, <1>4, NothingYet DEF Init, Sound, Played
<1> QED BY <1>2, <1>5, <1>6 DEF IInv

\* The invariant after the request that creates the asset.
LEMMA BeginStep == ASSUME IInv, NEW streamed \in BOOLEAN, Begin(streamed) PROVE IInv'
<1>1. /\ asset.status = "absent" /\ ~session
      /\ \A q \in Requests : req[q].pc = "idle"
      /\ \A w \in Workers : worker[w].pc = "idle"
  BY Busy DEF Begin, IInv, OneKind
<1>2. /\ asset' = [status |-> "uploading", streamed |-> streamed, scan |-> "none"]
      /\ parts' = "open"
      /\ UNCHANGED <<upload, object, content, segments, derivatives, job, failures, worker, req, session, served, left>>
  BY DEF Begin, NoAsset, queue
<1>3. asset' \in Row /\ asset'.status = "uploading" /\ asset'.scan = "none"
  BY <1>2 DEF Row, Statuses
<1>4. TypeOK' /\ Exclusive'
  BY <1>2, <1>3 DEF IInv, TypeOK, Exclusive
<1>5. OneKind' /\ Played'
  BY <1>1, <1>2, <1>3 DEF IInv, OneKind, Played
<1>6. Sound'
  BY <1>2, <1>3 DEF IInv, Sound, Told
<1> QED BY <1>4, <1>5, <1>6 DEF IInv

\* The invariant after a job is put in the queue again.
LEMMA RequeueStep == ASSUME IInv, NEW j \in Jobs, Requeue(j) PROVE IInv'
<1>1. /\ job[j] = "dead" /\ job' = [job EXCEPT ![j] = "queued"]
      /\ UNCHANGED <<asset, upload, parts, object, content, segments, derivatives, failures, worker, req, session, served>>
  BY DEF Requeue, store
<1>2. left' \in [Kinds -> Nat]
  BY BudgetStep DEF Requeue, IInv, Kinds
<1>3. TypeOK'
  BY <1>1, <1>2 DEF IInv, TypeOK
<1>4. Exclusive'
  BY <1>1 DEF IInv, TypeOK, Exclusive
<1>5. OneKind' /\ Sound' /\ Played'
  BY <1>1 DEF IInv, OneKind, Sound, Played
<1> QED BY <1>3, <1>4, <1>5 DEF IInv

-----------------------------------------------------------------------------
(* What the requests do.                                                   *)

\* What the invariant says of a request under way.
LEMMA AssetThere ==
    ASSUME IInv, NEW q \in Requests, req[q].pc # "idle"
    PROVE  /\ asset.status # "absent" /\ req[q].row.streamed = asset.streamed
           /\ req[q] \in Request /\ req[q].row \in Row /\ Told(req[q].row, object, content)
BY DEF IInv, OneKind, Sound, TypeOK, Request

\* A request that has only read, or stops, or moves on.
LEMMA RequestMoves ==
    ASSUME IInv, NEW q \in Requests, NEW x \in Request, req' = [req EXCEPT ![q] = x],
           asset.status # "absent",
           UNCHANGED <<asset, upload, object, content, segments, derivatives, queue, worker, session, served>>,
           parts' \in {"none", "open", "gone"}, left' \in [Kinds -> Nat],
           Told(x.row, object, content), IF x.pc = "idle" THEN x = Idle ELSE x.row.streamed = asset.streamed
    PROVE  IInv'
<1>1. asset \in Row /\ Told(asset, object, content) /\ content \in Contents
      /\ upload \in [completed : BOOLEAN, aborted : BOOLEAN, expired : BOOLEAN]
  BY DEF IInv, TypeOK, Sound
<1>2. UNCHANGED <<job, failures>>
  BY DEF queue
<1> QED BY <1>1, <1>2, Requested

\* The invariant after a completion or an abort has read the asset.
LEMMA ReadStep ==
    ASSUME IInv, NEW q \in Requests, CompleteRead(q) \/ AbortRead(q)
    PROVE  IInv'
<1>1. PICK pc \in {"compose", "stop", "abort"} :
         req' = [req EXCEPT ![q] = [pc |-> pc, row |-> asset]]
  BY DEF CompleteRead, AbortRead
<1> DEFINE x == [pc |-> pc, row |-> asset]
<1>2. x \in Request /\ x.row = asset /\ x.pc # "idle"
  BY DEF IInv, TypeOK, Request
<1> HIDE DEF x
<1>3. left' \in [Kinds -> Nat]
  BY BudgetStep DEF CompleteRead, AbortRead, IInv, Kinds
<1>4. /\ UNCHANGED <<asset, upload, parts, object, content, segments, derivatives, queue, worker, session, served>>
      /\ asset.status # "absent"
  BY DEF CompleteRead, AbortRead, store
<1>5. req' = [req EXCEPT ![q] = x]
  BY <1>1 DEF x
<1>6. Told(x.row, object, content) /\ parts \in {"none", "open", "gone"}
  BY <1>2 DEF IInv, TypeOK, Sound
<1> QED BY <1>2, <1>3, <1>4, <1>5, <1>6, RequestMoves

\* The invariant after the store has composed the parts, if it did.
LEMMA ComposeStep == ASSUME IInv, NEW q \in Requests, Compose(q) PROVE IInv'
<1> DEFINE x == [req[q] EXCEPT !.pc = "discard"]
<1>1. req[q].pc = "compose" /\ req' = [req EXCEPT ![q] = x]
  BY DEF Compose, IInv, TypeOK
<1>2. /\ asset.status # "absent" /\ req[q].row.streamed = asset.streamed
      /\ req[q] \in Request /\ Told(req[q].row, object, content)
  BY <1>1, AssetThere
<1>3. x \in Request /\ x.row = req[q].row /\ x.pc # "idle"
  BY <1>2 DEF Request
<1> HIDE DEF x
<1>4. /\ object' = "originals" /\ content' \in Contents
      /\ object # "none" => content' = content
      /\ parts' \in {"none", "open", "gone"}
      /\ UNCHANGED <<asset, upload, segments, derivatives, job, failures, worker, session, served, left>>
  BY DEF Compose, IInv, TypeOK, queue
<1>5. Told(asset, object, content) /\ asset \in Row /\ left \in [Kinds -> Nat]
      /\ upload \in [completed : BOOLEAN, aborted : BOOLEAN, expired : BOOLEAN]
  BY DEF IInv, TypeOK, Sound
<1>6. Told(asset', object', content') /\ Told(x.row, object', content')
  BY <1>2, <1>3, <1>4, <1>5, ToldKept
<1> QED BY <1>1, <1>2, <1>3, <1>4, <1>5, <1>6, Requested

\* The store refuses, discards the parts, or the request dies.
LEMMA RequestGoesOn ==
    ASSUME IInv, NEW q \in Requests,
           ComposeRefused(q) \/ DiscardParts(q) \/ StopMultipart(q) \/ RequestFails(q)
    PROVE  IInv'
<1>1. PICK x \in {Idle, [req[q] EXCEPT !.pc = "complete"], [req[q] EXCEPT !.pc = "abort"]} :
         req' = [req EXCEPT ![q] = x]
  BY DEF ComposeRefused, DiscardParts, StopMultipart, RequestFails, IInv, TypeOK
<1>2. req[q] \in Request
  BY DEF IInv, TypeOK
<1>3. req[q].pc # "idle"
  BY NothingYet DEF ComposeRefused, DiscardParts, StopMultipart, RequestFails, IInv, OneKind
<1>4. /\ asset.status # "absent" /\ req[q].row.streamed = asset.streamed
      /\ Told(req[q].row, object, content)
  BY <1>3, AssetThere
<1>5. x \in Request /\ (x = Idle \/ (x.pc # "idle" /\ x.row = req[q].row))
  BY <1>2, NothingYet DEF Request
<1>6. Told(x.row, object, content) /\ (IF x.pc = "idle" THEN x = Idle ELSE x.row.streamed = asset.streamed)
  BY <1>4, <1>5, NothingYet DEF Told
<1>7. left' \in [Kinds -> Nat]
  BY BudgetStep DEF ComposeRefused, DiscardParts, StopMultipart, RequestFails, IInv, TypeOK, Kinds
<1>8. /\ UNCHANGED <<asset, upload, object, content, segments, derivatives, queue, worker, session, served>>
      /\ parts' \in {"none", "open", "gone"}
  BY DEF ComposeRefused, DiscardParts, StopMultipart, RequestFails, store, IInv, TypeOK
<1> QED BY <1>1, <1>4, <1>5, <1>6, <1>7, <1>8, RequestMoves

\* The invariant after the completion or the abort has written the row.
LEMMA CommitStep ==
    ASSUME IInv, NEW q \in Requests, CompleteCommit(q) \/ AbortCommit(q)
    PROVE  IInv'
<1>1. req[q].pc # "idle" /\ req' = [req EXCEPT ![q] = Idle]
  BY DEF CompleteCommit, AbortCommit
<1>2. /\ asset.status # "absent" /\ req[q].row.streamed = asset.streamed
      /\ req[q].row \in Row /\ Told(req[q].row, object, content)
  BY <1>1, AssetThere
<1>3. PICK s \in {"uploaded", "rejected"} : asset' = [req[q].row EXCEPT !.status = s]
  BY DEF CompleteCommit, AbortCommit
<1>4. /\ asset' \in Row /\ asset'.status = s /\ asset'.scan = req[q].row.scan
      /\ asset'.streamed = asset.streamed
  <2>1. s \in Statuses /\ req[q].row \in Row
    BY <1>2 DEF Statuses
  <2> QED BY <1>2, <1>3, <2>1, RowSet
<1>5. Told(asset', object, content) /\ Told(Idle.row, object, content)
  BY <1>2, <1>4, NothingYet DEF Told
<1>6. /\ upload' \in [completed : BOOLEAN, aborted : BOOLEAN, expired : BOOLEAN]
      /\ job' = job \/ job' = Recorded("probe")
      /\ UNCHANGED <<parts, object, content, segments, derivatives, failures, worker, session, served, left>>
  <2>1. upload \in [completed : BOOLEAN, aborted : BOOLEAN, expired : BOOLEAN]
    BY DEF IInv, TypeOK
  <2>2. /\ [upload EXCEPT !.completed = TRUE] \in [completed : BOOLEAN, aborted : BOOLEAN, expired : BOOLEAN]
        /\ [upload EXCEPT !.aborted = TRUE] \in [completed : BOOLEAN, aborted : BOOLEAN, expired : BOOLEAN]
    BY <2>1, Zenon
  <2> QED BY <2>2 DEF CompleteCommit, AbortCommit, store, queue
<1>7. /\ parts \in {"none", "open", "gone"} /\ content \in Contents /\ left \in [Kinds -> Nat]
      /\ asset'.status \in {"uploaded", "rejected"}
  BY <1>4 DEF IInv, TypeOK
<1> QED BY <1>1, <1>2, <1>4, <1>5, <1>6, <1>7, NothingYet, Requested

-----------------------------------------------------------------------------
(* What the queue does with the jobs.                                      *)

\* The invariant after a worker has taken a job.
LEMMA DeliverStep ==
    ASSUME IInv, NEW w \in Workers, NEW j \in Jobs, Deliver(w, j)
    PROVE  IInv'
<1> DEFINE x == [Free EXCEPT !.job = j, !.pc = "read"]
<1>1. /\ job[j] \in {"queued", "failed"} /\ job' = [job EXCEPT ![j] = "running"]
      /\ worker' = [worker EXCEPT ![w] = x]
      /\ UNCHANGED <<asset, upload, store, derivatives, failures, req, session, served, left>>
  BY DEF Deliver
<1>2. x \in Worker /\ x.job = j /\ x.pc = "read" /\ x.row = NoAsset
  BY NothingYet DEF Free, Worker
<1> HIDE DEF x
<1>3. asset.status # "absent" /\ j # None
  BY <1>1, MediaAssumption DEF IInv, OneKind
<1>4. \A v \in Workers \ {w} : worker[v].job # None =>
               job'[worker[v].job] = job[worker[v].job] /\ worker[v].job # x.job
  BY <1>1, <1>2 DEF IInv, Exclusive, TypeOK
<1>5. /\ job' \in [Jobs -> {"none", "queued", "running", "failed", "succeeded", "dead"}]
      /\ job'[j] = "running" /\ failures \in [Jobs -> Nat] /\ left \in [Kinds -> Nat]
  BY <1>1 DEF IInv, TypeOK
<1> QED BY <1>1, <1>2, <1>3, <1>4, <1>5, Queues

\* The invariant after a worker has left its job, with or without an outcome.
LEMMA LeaveStep ==
    ASSUME IInv, NEW w \in Workers, Succeed(w) \/ Fail(w) \/ WorkerDies(w)
    PROVE  IInv'
<1>1. /\ worker[w].pc # "idle" /\ worker' = [worker EXCEPT ![w] = Free]
      /\ UNCHANGED <<asset, upload, store, derivatives, req, session, served>>
  BY DEF Succeed, Fail, WorkerDies
<1>2. asset.status # "absent" /\ worker[w].job \in Jobs /\ worker[w].job # None
  BY <1>1, Busy, MediaAssumption
<1>3. PICK s \in {"queued", "failed", "succeeded", "dead"} : job' = [job EXCEPT ![worker[w].job] = s]
  BY DEF Succeed, Fail, WorkerDies
<1>4. job' \in [Jobs -> {"none", "queued", "running", "failed", "succeeded", "dead"}]
  BY <1>2, <1>3 DEF IInv, TypeOK
<1>5. \A v \in Workers \ {w} : worker[v].job # None =>
               job'[worker[v].job] = job[worker[v].job] /\ worker[v].job # Free.job
  BY <1>2, <1>3, NothingYet DEF IInv, Exclusive, TypeOK
<1>6. failures' \in [Jobs -> Nat] /\ left' \in [Kinds -> Nat]
  BY <1>2, BudgetStep DEF Succeed, Fail, WorkerDies, IInv, TypeOK, Kinds
<1> QED BY <1>1, <1>2, <1>4, <1>5, <1>6, NothingYet, Queues

-----------------------------------------------------------------------------
(* What the handlers do.                                                   *)

\* What the invariant says of a handler at work.
LEMMA Handler ==
    ASSUME IInv, NEW w \in Workers, worker[w].pc # "idle"
    PROVE  /\ worker[w] \in Worker /\ worker[w].job # None
           /\ Knows(worker[w], object, content, segments)
           /\ Told(worker[w].row, object, content) /\ worker[w].row \in Row
           /\ worker[w].pc \in {"judge", "move", "mark", "produce", "commit"} =>
                  worker[w].row.streamed = asset.streamed
           /\ asset \in Row /\ left \in [Kinds -> Nat] /\ Told(asset, object, content)
           /\ asset.status # "absent"
<1>1. worker[w].job # None /\ asset.status # "absent"
  BY Busy, MediaAssumption
<1>2. worker[w] \in Worker /\ asset \in Row /\ left \in [Kinds -> Nat]
  BY DEF IInv, TypeOK
<1>3. worker[w].row \in Row
  BY <1>2 DEF Worker
<1>4. Knows(worker[w], object, content, segments) /\ Told(asset, object, content)
  BY DEF IInv, Sound
<1> QED BY <1>1, <1>2, <1>3, <1>4 DEF Knows, IInv, OneKind

\* It reads the row.
LEMMA HandlerReads ==
    ASSUME IInv, NEW w \in Workers, ProbeRead(w) \/ ScanRead(w) \/ HlsRead(w)
    PROVE  IInv'
<1>1. PICK pc \in {"done", "judge", "mark"} :
         /\ worker' = [worker EXCEPT ![w] = [worker[w] EXCEPT !.row = asset, !.pc = pc]]
         /\ pc = "judge" => /\ worker[w].job \in {"probe", "scan"}
                            /\ worker[w].job = "scan" => asset.status = "scanning"
         /\ pc = "mark" => worker[w].job = "hls" /\ Transcodable
  BY DEF ProbeRead, ScanRead, HlsRead, Proceed
<1>2. /\ worker[w].pc = "read"
      /\ UNCHANGED <<asset, upload, parts, object, content, segments, derivatives, queue, req, session, served, left>>
  BY DEF ProbeRead, ScanRead, HlsRead, Proceed
<1> DEFINE x == Reading(worker[w], asset, pc)
<1>3. /\ worker[w] \in Worker /\ worker[w].job # None
      /\ asset \in Row /\ left \in [Kinds -> Nat] /\ Told(asset, object, content)
  BY <1>2, Handler
<1>4. /\ x \in Worker /\ x.job = worker[w].job /\ x.row = asset /\ x.pc = pc
  <2>1. pc \in Pcs
    BY DEF Pcs
  <2> QED BY <1>3, <2>1, HasRead
<1> HIDE DEF x
<1>5. pc = "mark" => Passed(object, content)
  BY <1>1, <1>3 DEF Transcodable, Told
<1>6. Knows(x, object, content, segments)
  BY <1>1, <1>3, <1>4, <1>5 DEF Knows
<1>7. worker' = [worker EXCEPT ![w] = x]
  BY <1>1 DEF x, Reading
<1> QED BY <1>2, <1>3, <1>4, <1>6, <1>7, Goes

\* It fails, or does not find the original.
LEMMA HandlerStops ==
    ASSUME IInv, NEW w \in Workers, HandlerFails(w) \/ OriginalMissing(w)
    PROVE  IInv'
<1> DEFINE x == [worker[w] EXCEPT !.pc = "error"]
<1>1. /\ worker[w].pc # "idle" /\ worker' = [worker EXCEPT ![w] = x]
      /\ UNCHANGED <<asset, upload, parts, object, content, segments, derivatives, queue, req, session, served>>
  BY DEF HandlerFails, OriginalMissing, Proceed
<1>2. /\ worker[w] \in Worker /\ worker[w].job # None
      /\ asset \in Row /\ Told(worker[w].row, object, content)
  BY <1>1, Handler
<1>3. x \in Worker /\ x.job = worker[w].job /\ x.row = worker[w].row /\ x.pc = "error"
  BY <1>2, Moved DEF Pcs
<1> HIDE DEF x
<1>4. Knows(x, object, content, segments)
  BY <1>2, <1>3 DEF Knows
<1>5. left' \in [Kinds -> Nat]
  BY BudgetStep DEF HandlerFails, OriginalMissing, IInv, TypeOK, Kinds
<1> QED BY <1>1, <1>3, <1>4, <1>5, Goes

\* The probe and the scan judge what they read.
LEMMA HandlerJudges ==
    ASSUME IInv, NEW w \in Workers, ProbeJudge(w) \/ ScanJudge(w)
    PROVE  IInv'
<1>1. PICK v \in {"ok", "rejected", "infected"}, pc \in {"move", "commit"} :
         /\ worker' = [worker EXCEPT ![w] = [worker[w] EXCEPT !.verdict = v, !.pc = pc]]
         /\ pc = IF v = "ok" THEN "commit" ELSE "move"
         /\ \/ worker[w].job = "probe" /\ v = IF Mismatch THEN "rejected" ELSE "ok"
            \/ worker[w].job = "scan" /\ v = Scanned
  BY DEF ProbeJudge, ScanJudge, Proceed, Scanned
<1>2. /\ worker[w].pc = "judge" /\ object = "originals"
      /\ UNCHANGED <<asset, upload, parts, object, content, segments, derivatives, queue, req, session, served, left>>
  BY DEF ProbeJudge, ScanJudge, Proceed
<1> DEFINE x == Judging(worker[w], v, pc)
<1>3. /\ worker[w] \in Worker /\ worker[w].job # None /\ left \in [Kinds -> Nat]
      /\ Knows(worker[w], object, content, segments)
      /\ Told(worker[w].row, object, content) /\ worker[w].row.streamed = asset.streamed
  BY <1>2, Handler
<1>4. /\ x \in Worker /\ x.job = worker[w].job /\ x.row = worker[w].row
      /\ x.verdict = v /\ x.pc = pc
  <2>1. v \in Verdicts /\ pc \in Pcs
    BY DEF Verdicts, Pcs
  <2> QED BY <1>3, <2>1, Judged
<1>5. worker' = [worker EXCEPT ![w] = x]
  BY <1>1 DEF x, Judging
<1> HIDE DEF x
<1>6. CASE worker[w].job = "probe" /\ v = IF Mismatch THEN "rejected" ELSE "ok"
  <2>1. Knows(x, object, content, segments)
    BY <1>1, <1>2, <1>3, <1>4, <1>6 DEF Knows, Mismatch, Refused
  <2> QED BY <1>2, <1>3, <1>4, <1>5, <2>1, Goes
<1>7. CASE worker[w].job = "scan" /\ v = Scanned
  <2>1. worker[w].row.status = "scanning" /\ content # "different"
    BY <1>2, <1>3, <1>7 DEF Knows, Told
  <2>2. Knows(x, object, content, segments)
    BY <1>1, <1>2, <1>3, <1>4, <1>7, <2>1 DEF Knows, Scanned, Refused
  <2> QED BY <1>2, <1>3, <1>4, <1>5, <2>2, Goes
<1> QED BY <1>1, <1>6, <1>7

\* The invariant after an infected object has been moved.
LEMMA QuarantineStep == ASSUME IInv, NEW w \in Workers, Quarantine(w) PROVE IInv'
<1> DEFINE x == [worker[w] EXCEPT !.pc = "commit"]
<1>1. /\ worker[w].pc = "move" /\ worker' = [worker EXCEPT ![w] = x]
      /\ object' \in {object, "quarantine"}
      /\ UNCHANGED <<asset, upload, parts, content, segments, derivatives, queue, req, session, served, left>>
  BY DEF Quarantine, Proceed
<1>2. /\ worker[w] \in Worker /\ worker[w].job # None /\ left \in [Kinds -> Nat]
      /\ Knows(worker[w], object, content, segments)
      /\ Told(worker[w].row, object, content) /\ worker[w].row.streamed = asset.streamed
  BY <1>1, Handler
<1>3. /\ x \in Worker /\ x.job = worker[w].job /\ x.row = worker[w].row
      /\ x.verdict = worker[w].verdict /\ x.pc = "commit"
  BY <1>2, Moved DEF Pcs
<1> HIDE DEF x
<1>4. worker[w].job # "hls" /\ object # "none" /\ content \in Refused
  BY <1>1, <1>2 DEF Knows
<1>5. Knows(x, object', content', segments')
  BY <1>1, <1>2, <1>3, <1>4 DEF Knows, Told, Passed
<1> QED BY <1>1, <1>2, <1>3, <1>4, <1>5, Goes

\* The invariant after the segments have been written to the bucket.
LEMMA HlsProduceStep == ASSUME IInv, NEW w \in Workers, HlsProduce(w) PROVE IInv'
<1>1. PICK v \in {"ok", "failed"} :
         /\ worker' = [worker EXCEPT ![w] = [worker[w] EXCEPT !.verdict = v, !.pc = "commit"]]
         /\ segments' = (v = "ok" \/ segments)
  BY DEF HlsProduce, Proceed, IInv, TypeOK
<1>2. /\ worker[w].job = "hls" /\ worker[w].pc = "produce"
      /\ UNCHANGED <<asset, upload, parts, object, content, derivatives, queue, req, session, served, left>>
  BY DEF HlsProduce, Proceed
<1> DEFINE x == Judging(worker[w], v, "commit")
<1>3. /\ worker[w] \in Worker /\ worker[w].job # None /\ left \in [Kinds -> Nat]
      /\ Knows(worker[w], object, content, segments)
      /\ Told(worker[w].row, object, content) /\ worker[w].row.streamed = asset.streamed
  BY <1>2, Handler
<1>4. /\ x \in Worker /\ x.job = worker[w].job /\ x.row = worker[w].row
      /\ x.verdict = v /\ x.pc = "commit"
  <2>1. v \in Verdicts /\ "commit" \in Pcs
    BY DEF Verdicts, Pcs
  <2> QED BY <1>3, <2>1, Judged
<1>5. worker' = [worker EXCEPT ![w] = x]
  BY <1>1 DEF x, Judging
<1> HIDE DEF x
<1>6. Passed(object, content)
  BY <1>2, <1>3 DEF Knows
<1>7. Knows(x, object', content', segments')
  BY <1>1, <1>2, <1>3, <1>4, <1>6 DEF Knows
<1>8. segments' = segments \/ segments' = TRUE
  BY <1>1 DEF IInv, TypeOK
<1> QED BY <1>2, <1>3, <1>4, <1>5, <1>6, <1>7, <1>8, Goes

\* The invariant after the verification has written its verdict.
LEMMA ProbeCommitStep == ASSUME IInv, NEW w \in Workers, ProbeCommit(w) PROVE IInv'
<1>1. /\ worker[w].job = "probe" /\ worker[w].pc = "commit"
      /\ UNCHANGED derivatives
  BY DEF ProbeCommit
<1>2. /\ Knows(worker[w], object, content, segments) /\ Told(worker[w].row, object, content)
      /\ worker[w].row \in Row /\ worker[w].row.streamed = asset.streamed
  BY <1>1, Handler
<1>3. PICK s \in {"scanning", "rejected"} :
         /\ Write(w, [worker[w].row EXCEPT !.status = s], "done")
         /\ s = "scanning" => worker[w].verdict = "ok"
         /\ job' = job \/ job' = Recorded("scan")
  BY DEF ProbeCommit
<1> DEFINE r == [worker[w].row EXCEPT !.status = s]
<1>4. r \in Row /\ r.status = s /\ r.scan = worker[w].row.scan /\ r.streamed = asset.streamed
  <2>1. s \in Statuses
    BY DEF Statuses
  <2> QED BY <1>2, <2>1, RowSet
<1>5. Write(w, r, "done")
  BY <1>3
<1> HIDE DEF r
<1>6. Told(r, object, content)
  BY <1>1, <1>2, <1>3, <1>4 DEF Knows, Told
<1>7. job' = job \/ \E j \in Jobs : job' = Recorded(j)
  BY <1>3 DEF Jobs
<1> QED BY <1>1, <1>4, <1>5, <1>6, <1>7, Writes

\* The invariant after the scan has written its verdict.
LEMMA ScanCommitStep == ASSUME IInv, NEW w \in Workers, ScanCommit(w) PROVE IInv'
<1>1. /\ worker[w].job = "scan" /\ worker[w].pc = "commit"
      /\ UNCHANGED derivatives
  BY DEF ScanCommit
<1>2. /\ Knows(worker[w], object, content, segments) /\ Told(worker[w].row, object, content)
      /\ worker[w].row \in Row /\ worker[w].row.streamed = asset.streamed
  BY <1>1, Handler
<1>3. PICK s \in {"clean", "rejected", "infected"}, k \in {"clean", "refused"} :
         /\ Write(w, [worker[w].row EXCEPT !.status = s, !.scan = k], "done")
         /\ \/ worker[w].verdict = "ok" /\ s = "clean" /\ k = "clean"
            \/ worker[w].verdict = s /\ s # "clean" /\ k = "refused"
         /\ job' = job \/ job' = Recorded("hls")
  <2>1. worker[w].verdict \in {"ok", "infected", "rejected"}
    BY <1>1, <1>2 DEF Knows
  <2>2. CASE worker[w].verdict = "ok"
    BY <2>2 DEF ScanCommit
  <2>3. CASE worker[w].verdict # "ok"
    BY <2>1, <2>3 DEF ScanCommit
  <2> QED BY <2>2, <2>3
<1> DEFINE r == Ruled(worker[w].row, s, k)
<1>4. r \in Row /\ r.status = s /\ r.scan = k /\ r.streamed = asset.streamed
  <2>1. s \in Statuses /\ k \in {"none", "clean", "refused"}
    BY DEF Statuses
  <2> QED BY <1>2, <2>1, RowScanned
<1>5. Write(w, r, "done")
  BY <1>3 DEF Ruled
<1> HIDE DEF r
<1>6. worker[w].row.status = "scanning" /\ object # "none" /\ content # "different"
  BY <1>1, <1>2 DEF Knows, Told
<1>7. Told(r, object, content)
  BY <1>1, <1>2, <1>3, <1>4, <1>6 DEF Knows, Told, Passed, Refused
<1>8. job' = job \/ \E j \in Jobs : job' = Recorded(j)
  BY <1>3 DEF Jobs
<1> QED BY <1>1, <1>3, <1>4, <1>5, <1>7, <1>8, Writes

\* The invariant after the packaging has marked the row, or has written its outcome.
LEMMA HlsWriteStep ==
    ASSUME IInv, NEW w \in Workers, HlsMark(w) \/ HlsCommit(w)
    PROVE  IInv'
<1>1. worker[w].job = "hls" /\ worker[w].pc \in {"mark", "commit"} /\ UNCHANGED job
  BY DEF HlsMark, HlsCommit
<1>2. /\ Knows(worker[w], object, content, segments) /\ Told(worker[w].row, object, content)
      /\ worker[w].row \in Row /\ worker[w].row.streamed = asset.streamed
  BY <1>1, Handler
<1>3. PICK s \in {"processing", "ready", "failed"}, pc \in {"done", "produce"} :
         /\ Write(w, [worker[w].row EXCEPT !.status = s], pc)
         /\ IF s = "ready" THEN worker[w].pc = "commit" /\ worker[w].verdict = "ok" /\ derivatives' = TRUE
                           ELSE UNCHANGED derivatives
  BY DEF HlsMark, HlsCommit
<1> DEFINE r == [worker[w].row EXCEPT !.status = s]
<1>4. r \in Row /\ r.status = s /\ r.scan = worker[w].row.scan /\ r.streamed = asset.streamed
  <2>1. s \in Statuses
    BY DEF Statuses
  <2> QED BY <1>2, <2>1, RowSet
<1>5. Write(w, r, pc)
  BY <1>3
<1> HIDE DEF r
<1>6. Passed(object, content) /\ (s = "ready" => segments)
  BY <1>1, <1>2, <1>3 DEF Knows
<1>7. Told(r, object, content)
  BY <1>2, <1>4, <1>6 DEF Told
<1> QED BY <1>1, <1>3, <1>4, <1>5, <1>6, <1>7, Writes

-----------------------------------------------------------------------------
\* The invariant after a step of a reader or of time, which change no asset.
LEMMA ViewStep ==
    ASSUME IInv, UploadExpires \/ Download \/ OpenSession \/ HlsMaster
                 \/ SessionMaster \/ Playlist \/ SessionExpires
    PROVE  IInv'
<1>1. UNCHANGED <<asset, store, derivatives, queue, worker, req>>
  BY DEF UploadExpires, Download, OpenSession, HlsMaster, SessionMaster, Playlist, SessionExpires, Serve
<1>2. /\ upload \in [completed : BOOLEAN, aborted : BOOLEAN, expired : BOOLEAN]
      /\ session \in BOOLEAN /\ served \subseteq {"original", "manifest", "segments"}
      /\ left \in [Kinds -> Nat]
      /\ Told(asset, object, content)
      /\ session /\ asset.streamed => derivatives
      /\ asset.status = "ready" => derivatives
      /\ session => asset.status # "absent"
  BY DEF IInv, TypeOK, Sound, Played, OneKind
<1>3. left' \in [Kinds -> Nat]
  BY <1>2, BudgetStep DEF UploadExpires, Download, OpenSession, HlsMaster, SessionMaster, Playlist,
                          SessionExpires, Serve, IInv, Kinds
<1>4. upload' \in [completed : BOOLEAN, aborted : BOOLEAN, expired : BOOLEAN]
  <2>1. [upload EXCEPT !.expired = TRUE] \in [completed : BOOLEAN, aborted : BOOLEAN, expired : BOOLEAN]
    BY <1>2, Zenon
  <2> QED BY <1>2, <2>1 DEF UploadExpires, Download, OpenSession, HlsMaster, SessionMaster, Playlist,
                            SessionExpires, Serve
<1>5. /\ session' \in BOOLEAN /\ served' \subseteq {"original", "manifest", "segments"}
      /\ session' => asset.status # "absent"
      /\ session' /\ asset.streamed => derivatives
      /\ session' \/ served' # {} => (session \/ segments \/ served # {} \/ Passed(object, content))
  <2>1. CASE SessionExpires
    BY <1>2, <2>1 DEF SessionExpires
  <2>6. CASE UploadExpires
    <3>1. session' = session /\ served' = served
      BY <2>6 DEF UploadExpires
    <3> QED BY <1>2, <3>1, Zenon
  <2>2. CASE Download
    BY <1>2, <2>2 DEF Download, Downloadable, Serve, Told
  <2>3. CASE OpenSession
    BY <1>2, <2>3 DEF OpenSession, Told
  <2>4. CASE HlsMaster
    BY <1>2, <2>4 DEF HlsMaster, Told
  <2>5. CASE SessionMaster \/ Playlist
    BY <1>2, <2>5 DEF SessionMaster, Playlist, Serve
  <2> QED BY <2>1, <2>2, <2>3, <2>4, <2>5, <2>6
<1> QED BY <1>1, <1>3, <1>4, <1>5, Seen

\* The invariant after a step that changes nothing.
LEMMA StutterStep == ASSUME IInv, UNCHANGED vars PROVE IInv'
<1>1. UNCHANGED <<asset, upload, parts, object, content, segments, derivatives, job, failures, worker,
                  req, session, served, left>>
  BY DEF vars, store, queue
<1> QED BY <1>1 DEF IInv, TypeOK, Exclusive, OneKind, Sound, Played

\* The invariant is inductive.
LEMMA IInvNext == ASSUME IInv, [Next]_vars PROVE IInv'
<1>1. ASSUME NEW streamed \in BOOLEAN, Begin(streamed) PROVE IInv'
  BY <1>1, BeginStep
<1>2. ASSUME NEW q \in Requests, CompleteRead(q) \/ AbortRead(q) \/ Proceeds(q) \/ RequestFails(q)
      PROVE  IInv'
  BY <1>2, ReadStep, ComposeStep, RequestGoesOn, CommitStep DEF Proceeds
<1>3. ASSUME NEW w \in Workers, NEW j \in Jobs, Deliver(w, j) PROVE IInv'
  BY <1>3, DeliverStep
<1>4. ASSUME NEW w \in Workers, Handle(w) \/ HandlerFails(w) \/ WorkerDies(w) PROVE IInv'
  BY <1>4, HandlerReads, HandlerJudges, HandlerStops, QuarantineStep, HlsProduceStep,
     ProbeCommitStep, ScanCommitStep, HlsWriteStep, LeaveStep DEF Handle
<1>5. ASSUME NEW j \in Jobs, Requeue(j) PROVE IInv'
  BY <1>5, RequeueStep
<1>6. CASE UploadExpires \/ Download \/ OpenSession \/ HlsMaster \/ SessionMaster \/ Playlist \/ SessionExpires
  BY <1>6, ViewStep
<1>7. CASE UNCHANGED vars
  BY <1>7, StutterStep
<1> QED BY <1>1, <1>2, <1>3, <1>4, <1>5, <1>6, <1>7 DEF Next

\* The invariant, for every behaviour.
LEMMA Invariance == Spec => []IInv
<1>1. Init => IInv
  BY IInvInit
<1>2. IInv /\ [Next]_vars => IInv'
  BY IInvNext
<1> QED BY <1>1, <1>2, PTL DEF Spec

-----------------------------------------------------------------------------
\* Every variable keeps its type.
THEOREM TypeCorrect == Spec => []TypeOK
<1>1. IInv => TypeOK
  BY DEF IInv
<1> QED BY <1>1, Invariance, PTL

\* What the probe or the scanner refuses is never served, transcoded or derived
\* from, with any number of requests, workers, retries and failures.
THEOREM OnlyCleanIsServed == Spec => []OnlyCleanIsProcessed
<1>1. IInv => OnlyCleanIsProcessed
  BY DEF IInv, Sound, Told, Passed, OnlyCleanIsProcessed
<1> QED BY <1>1, Invariance, PTL

\* Whoever holds a valid credential finds what it plays.
THEOREM SessionsPlay == Spec => []SessionPlays
<1>1. IInv => SessionPlays
  <2>1. ASSUME IInv, session PROVE asset.streamed \/ object = "originals"
    BY <2>1 DEF IInv, Sound, Passed, TypeOK
  <2> QED BY <2>1 DEF IInv, Played, SessionPlays
<1> QED BY <1>1, Invariance, PTL

-----------------------------------------------------------------------------
(* An infection is final when the store completes an upload in one step.   *)

Verifying == {"judge", "move", "commit"}

\* The asset, the requests and the jobs that there are stay.
LEMMA OrderedKeeps ==
    ASSUME Ordered, UNCHANGED <<asset, parts, req>>,
           \A j \in Jobs : job'[j] = "none" <=> job[j] = "none",
           \A w \in Workers : job["scan"] # "none" /\ worker'[w].job = "probe" /\ worker'[w].pc \in Verifying =>
                                  Passed(object', content')
    PROVE  Ordered'
BY DEF Ordered, Completes, Jobs, Verifying

\* Nobody begins to complete.
LEMMA OrderedRequests ==
    ASSUME Ordered, UNCHANGED <<asset, object, content, job, worker>>, parts' \in {parts, "gone"},
           \A q \in Requests : Completes(req'[q]) => Completes(req[q])
    PROVE  Ordered'
BY DEF Ordered

\* The order of completion, verification and scan after the asset is created.
LEMMA OrderedBegin == ASSUME IInv, Ordered, NEW streamed \in BOOLEAN, Begin(streamed) PROVE Ordered'
<1>1. /\ asset.status = "absent" /\ \A j \in Jobs : job[j] = "none"
      /\ \A q \in Requests : req[q].pc = "idle"
      /\ asset' = [NoAsset EXCEPT !.status = "uploading", !.streamed = streamed]
      /\ UNCHANGED <<job, req>>
  BY DEF Begin, IInv, OneKind, queue
<1>2. asset'.status = "uploading"
  BY <1>1 DEF NoAsset
<1> QED BY <1>1, <1>2 DEF Ordered, Completes, Jobs

\* That order after the store has composed the parts.
LEMMA OrderedCompose ==
    ASSUME IInv, Ordered, Atomic, NEW q \in Requests, Compose(q)
    PROVE  Ordered'
<1>1. /\ parts = "open" /\ parts' = "gone" /\ object' = "originals"
      /\ object # "none" => content' = content
      /\ req' = [req EXCEPT ![q].pc = "discard"]
      /\ UNCHANGED <<asset, job, worker>>
  BY DEF Compose, queue
<1>2. job["probe"] = "none" /\ job["scan"] = "none" /\ \A r \in Requests : ~Completes(req[r])
  BY <1>1 DEF Ordered
<1>3. \A r \in Requests : Completes(req'[r]) => r = q
  BY <1>1, <1>2 DEF IInv, TypeOK, Completes
<1> QED BY <1>1, <1>2, <1>3 DEF Ordered

\* That order after the one completion has written the row and enqueued the verification.
LEMMA OrderedComplete ==
    ASSUME IInv, Ordered, NEW q \in Requests, CompleteCommit(q)
    PROVE  Ordered'
<1>1. /\ req[q].pc = "complete" /\ req' = [req EXCEPT ![q] = Idle]
      /\ asset' = [req[q].row EXCEPT !.status = "uploaded"] /\ job' = Recorded("probe")
      /\ UNCHANGED <<parts, worker, object, content>>
  BY DEF CompleteCommit, store
<1>2. /\ parts = "gone" /\ job["probe"] = "none" /\ job["scan"] = "none"
      /\ \A r \in Requests \ {q} : ~Completes(req[r])
  BY <1>1 DEF Ordered, Completes
<1>3. asset'.status = "uploaded"
  BY <1>1, AssetThere, RowSet DEF Statuses
<1>4. job'["probe"] # "none" /\ job'["scan"] = "none"
  BY <1>1, <1>2, RecordedJob DEF Jobs
<1>5. \A r \in Requests : ~Completes(req'[r])
  BY <1>1, <1>2, NothingYet DEF IInv, TypeOK, Completes
<1> QED BY <1>1, <1>2, <1>3, <1>4, <1>5 DEF Ordered

\* That order after an abort has written the row.
LEMMA OrderedAbort ==
    ASSUME IInv, Ordered, NEW q \in Requests, AbortCommit(q)
    PROVE  Ordered'
<1>1. /\ req[q].pc = "abort" /\ req' = [req EXCEPT ![q] = Idle]
      /\ asset' = [req[q].row EXCEPT !.status = "rejected"]
      /\ UNCHANGED <<parts, worker, object, content, job>>
  BY DEF AbortCommit, store, queue
<1>2. asset'.status = "rejected"
  BY <1>1, AssetThere, RowSet DEF Statuses
<1>3. \A r \in Requests : Completes(req'[r]) => Completes(req[r])
  BY <1>1, NothingYet DEF IInv, TypeOK, Completes
<1> QED BY <1>1, <1>2, <1>3 DEF Ordered

\* The queue, and a handler that writes nothing.
LEMMA OrderedMoves ==
    ASSUME IInv, Ordered, NEW w \in Workers, NEW x,
           worker' = [worker EXCEPT ![w] = x], UNCHANGED <<asset, parts, req, content>>,
           object # "none" => object' # "none",
           \A j \in Jobs : job'[j] = "none" <=> job[j] = "none",
           job["scan"] # "none" /\ x.job = "probe" /\ x.pc \in Verifying => Passed(object', content')
    PROVE  Ordered'
<1>1. /\ worker'[w] = x
      /\ \A v \in Workers \ {w} : worker'[v] = worker[v]
  BY DEF IInv, TypeOK
<1>2. Passed(object, content) => Passed(object', content')
  BY DEF Passed
<1>3. \A v \in Workers : job["scan"] # "none" /\ worker'[v].job = "probe" /\ worker'[v].pc \in Verifying =>
                             Passed(object', content')
  BY <1>1, <1>2 DEF Ordered, Verifying
<1> QED BY <1>3, OrderedKeeps

\* That order after a job is taken or left.
LEMMA OrderedQueue ==
    ASSUME IInv, Ordered, NEW w \in Workers, Succeed(w) \/ Fail(w) \/ WorkerDies(w) \/ \E j \in Jobs : Deliver(w, j)
    PROVE  Ordered'
<1>1. PICK x : worker' = [worker EXCEPT ![w] = x] /\ x.pc \in {"idle", "read"}
  <2>1. Free.pc = "idle" /\ \A j \in Jobs : [Free EXCEPT !.job = j, !.pc = "read"].pc = "read"
    BY DEF Free
  <2> QED BY <2>1 DEF Succeed, Fail, WorkerDies, Deliver
<1>2. UNCHANGED <<asset, parts, object, content, req>>
  BY DEF Succeed, Fail, WorkerDies, Deliver, store
<1>3. \A j \in Jobs : job'[j] = "none" <=> job[j] = "none"
  <2>1. CASE \E j \in Jobs : Deliver(w, j)
    BY <2>1 DEF Deliver, IInv, TypeOK
  <2>2. CASE Succeed(w) \/ Fail(w) \/ WorkerDies(w)
    <3>1. worker[w].pc # "idle"
      BY <2>2 DEF Succeed, Fail, WorkerDies
    <3>2. worker[w].job \in Jobs /\ job[worker[w].job] = "running"
      BY <3>1, Busy, MediaAssumption DEF IInv, Exclusive
    <3>3. PICK s \in {"queued", "failed", "succeeded", "dead"} : job' = [job EXCEPT ![worker[w].job] = s]
      BY <2>2 DEF Succeed, Fail, WorkerDies
    <3> QED BY <3>2, <3>3 DEF IInv, TypeOK
  <2> QED BY <2>1, <2>2
<1> QED BY <1>1, <1>2, <1>3, OrderedMoves DEF Verifying

\* That order after a handler has read the asset.
LEMMA OrderedRead ==
    ASSUME IInv, Ordered, NEW w \in Workers, ProbeRead(w) \/ ScanRead(w) \/ HlsRead(w)
    PROVE  Ordered'
<1>1. PICK pc \in {"done", "judge", "mark"} :
         /\ worker' = [worker EXCEPT ![w] = Reading(worker[w], asset, pc)]
         /\ worker[w].job = "probe" /\ pc = "judge" => asset.status \notin Verified
         /\ pc = "mark" => worker[w].job = "hls"
  BY DEF ProbeRead, ScanRead, HlsRead, Proceed, Reading
<1>2. /\ worker[w].pc = "read"
      /\ UNCHANGED <<asset, parts, object, content, job, req>>
  BY DEF ProbeRead, ScanRead, HlsRead, Proceed, queue
<1> DEFINE x == Reading(worker[w], asset, pc)
<1>3. worker[w] \in Worker /\ asset \in Row /\ Told(asset, object, content) /\ asset.status # "absent"
  BY <1>2, Handler
<1>4. x.job = worker[w].job /\ x.pc = pc
  <2>1. pc \in Pcs
    BY DEF Pcs
  <2> QED BY <1>3, <2>1, HasRead
<1> HIDE DEF x
<1>5. ASSUME job["scan"] # "none", x.job = "probe", x.pc \in Verifying PROVE Passed(object, content)
  <2>1. asset.status \notin Verified /\ asset.status # "uploaded"
    BY <1>1, <1>4, <1>5 DEF Ordered, Verifying
  <2>2. asset.status # "uploading"
    BY <1>5 DEF Ordered
  <2>3. asset.status = "failed"
    BY <1>3, <2>1, <2>2 DEF Row, Statuses, Verified
  <2> QED BY <1>3, <2>3 DEF Told
<1>6. worker' = [worker EXCEPT ![w] = x]
  BY <1>1 DEF x
<1> QED BY <1>2, <1>5, <1>6, OrderedMoves

\* It stays a verification of what it was, or is none.
LEMMA OrderedHandles ==
    ASSUME IInv, Ordered, NEW w \in Workers,
           ProbeJudge(w) \/ ScanJudge(w) \/ HlsProduce(w) \/ Quarantine(w) \/ HandlerFails(w) \/ OriginalMissing(w)
    PROVE  Ordered'
<1>1. PICK x : /\ worker' = [worker EXCEPT ![w] = x]
               /\ x.job = worker[w].job
               /\ worker[w].pc \in Verifying \/ x.pc = "error" \/ worker[w].job = "hls"
  <2>1. worker[w] \in Worker
    BY DEF IInv, TypeOK
  <2>2. CASE ProbeJudge(w)
    <3>1. PICK v \in Verdicts, pc \in Pcs : worker' = [worker EXCEPT ![w] = Judging(worker[w], v, pc)]
      BY <2>2 DEF ProbeJudge, Proceed, Judging, Verdicts, Pcs
    <3>2. Judging(worker[w], v, pc).job = worker[w].job
      BY <2>1, Judged
    <3>3. worker[w].pc \in Verifying \/ worker[w].job = "hls"
      BY <2>2 DEF ProbeJudge, Verifying
    <3> QED BY <3>1, <3>2, <3>3
  <2>3. CASE ScanJudge(w)
    <3>1. PICK v \in Verdicts, pc \in Pcs : worker' = [worker EXCEPT ![w] = Judging(worker[w], v, pc)]
      BY <2>3 DEF ScanJudge, Proceed, Judging, Verdicts, Pcs, Scanned
    <3>2. Judging(worker[w], v, pc).job = worker[w].job
      BY <2>1, Judged
    <3>3. worker[w].pc \in Verifying \/ worker[w].job = "hls"
      BY <2>3 DEF ScanJudge, Verifying
    <3> QED BY <3>1, <3>2, <3>3
  <2>4. CASE HlsProduce(w)
    <3>1. PICK v \in Verdicts, pc \in Pcs : worker' = [worker EXCEPT ![w] = Judging(worker[w], v, pc)]
      BY <2>4 DEF HlsProduce, Proceed, Judging, Verdicts, Pcs
    <3>2. Judging(worker[w], v, pc).job = worker[w].job
      BY <2>1, Judged
    <3>3. worker[w].pc \in Verifying \/ worker[w].job = "hls"
      BY <2>4 DEF HlsProduce, Verifying
    <3> QED BY <3>1, <3>2, <3>3
  <2>5. CASE Quarantine(w)
    <3>1. worker[w].pc = "move" /\ worker' = [worker EXCEPT ![w] = [worker[w] EXCEPT !.pc = "commit"]]
      BY <2>5 DEF Quarantine, Proceed
    <3> QED BY <2>1, <3>1, Moved DEF Verifying, Pcs
  <2>6. CASE HandlerFails(w) \/ OriginalMissing(w)
    <3>1. worker' = [worker EXCEPT ![w] = [worker[w] EXCEPT !.pc = "error"]]
      BY <2>6 DEF HandlerFails, OriginalMissing, Proceed
    <3>2. [worker[w] EXCEPT !.pc = "error"].job = worker[w].job /\ [worker[w] EXCEPT !.pc = "error"].pc = "error"
      BY <2>1, Moved DEF Pcs
    <3> QED BY <3>1, <3>2
  <2> QED BY <2>2, <2>3, <2>4, <2>5, <2>6
<1>2. /\ UNCHANGED <<asset, parts, content, job, req>>
      /\ object' = object \/ object' = "quarantine"
  BY DEF ProbeJudge, ScanJudge, HlsProduce, Quarantine, HandlerFails, OriginalMissing, Proceed, queue
<1>3. ASSUME job["scan"] # "none", x.job = "probe", x.pc \in Verifying PROVE Passed(object', content')
  <2>1. worker[w].pc \in Verifying
    BY <1>1, <1>3 DEF Verifying
  <2>2. Passed(object, content)
    BY <1>1, <1>3, <2>1 DEF Ordered, Verifying
  <2> QED BY <1>2, <2>2 DEF Passed
<1> QED BY <1>1, <1>2, <1>3, OrderedMoves

\* A handler writes the row, and the verification records the scan.
LEMMA OrderedWrites ==
    ASSUME IInv, Ordered, NEW w \in Workers, NEW row, NEW pc \in {"done", "produce"}, Write(w, row, pc),
           worker[w].pc # "idle", row.status \notin {"uploading", "uploaded"},
           row.status = "infected" => job["scan"] # "none",
           \/ job' = job
           \/ job' = Recorded("scan") /\ worker[w].job = "probe"
           \/ job' = Recorded("hls")
    PROVE  Ordered'
<1>1. /\ asset' = row /\ UNCHANGED <<parts, object, content, req>>
      /\ worker' = [worker EXCEPT ![w].pc = pc, ![w].row = row]
  BY DEF Write, store
<1>2. worker[w] \in Worker /\ worker[w].job \in Jobs /\ job[worker[w].job] = "running"
  BY Busy, MediaAssumption DEF IInv, TypeOK, Exclusive
<1>3. /\ worker'[w].pc = pc
      /\ \A v \in Workers \ {w} : worker'[v] = worker[v]
  BY <1>1, <1>2 DEF IInv, TypeOK, Worker
<1>4. \A j \in Jobs : (job[j] # "none" => job'[j] # "none") /\ (job'[j] # "none" => job[j] # "none" \/ j # "probe")
  BY RecordedJob DEF Jobs
<1>5. job["scan"] = "none" /\ job'["scan"] # "none" => worker[w].job = "probe" /\ job["probe"] # "none"
  BY <1>2, RecordedJob DEF Jobs
<1>6. ASSUME job'["scan"] # "none", NEW v \in Workers, worker'[v].job = "probe", worker'[v].pc \in Verifying
      PROVE  Passed(object, content)
  <2>1. v # w /\ worker'[v] = worker[v]
    BY <1>3, <1>6 DEF Verifying
  <2>2. CASE job["scan"] # "none"
    BY <1>6, <2>1, <2>2 DEF Ordered, Verifying
  <2>3. CASE job["scan"] = "none"
    BY <1>2, <1>5, <1>6, <2>1, <2>3, MediaAssumption DEF IInv, Exclusive
  <2> QED BY <2>2, <2>3
<1>7. /\ job'["probe"] = job["probe"] \/ (job'["probe"] # "none" /\ job["probe"] # "none")
      /\ job["scan"] # "none" => job'["scan"] # "none"
  BY <1>4, RecordedJob DEF Jobs
<1> QED BY <1>1, <1>4, <1>5, <1>6, <1>7 DEF Ordered, Completes, Verifying, Jobs

\* That order after a handler has written its verdict.
LEMMA OrderedCommits ==
    ASSUME IInv, Ordered, NEW w \in Workers, ProbeCommit(w) \/ ScanCommit(w) \/ HlsMark(w) \/ HlsCommit(w)
    PROVE  Ordered'
<1>1. worker[w].pc \in {"mark", "commit"}
  BY DEF ProbeCommit, ScanCommit, HlsMark, HlsCommit
<1>2. /\ worker[w].row \in Row /\ worker[w].job # None
      /\ Knows(worker[w], object, content, segments)
  BY <1>1, Handler
<1>3. CASE ProbeCommit(w)
  <2>1. PICK s \in {"scanning", "rejected"} : Write(w, [worker[w].row EXCEPT !.status = s], "done")
    BY <1>3 DEF ProbeCommit
  <2>2. worker[w].job = "probe" /\ (job' = job \/ job' = Recorded("scan"))
    BY <1>3 DEF ProbeCommit
  <2>3. [worker[w].row EXCEPT !.status = s].status = s
    BY <1>2 DEF Row
  <2> QED BY <1>1, <2>1, <2>2, <2>3, OrderedWrites
<1>4. CASE ScanCommit(w)
  <2>1. worker[w].job = "scan" /\ job["scan"] # "none"
    BY <1>4, MediaAssumption DEF ScanCommit, IInv, Exclusive, Jobs
  <2>2. worker[w].verdict \in {"ok", "infected", "rejected"}
    BY <1>2, <1>4 DEF ScanCommit, Knows
  <2>3. PICK s \in {"clean", "rejected", "infected"}, k \in {"clean", "refused"} :
           Write(w, Ruled(worker[w].row, s, k), "done")
    <3>1. CASE worker[w].verdict = "ok"
      BY <1>4, <3>1 DEF ScanCommit, Ruled
    <3>2. CASE worker[w].verdict # "ok"
      BY <1>4, <2>2, <3>2 DEF ScanCommit, Ruled
    <3> QED BY <3>1, <3>2
  <2>4. job' = job \/ job' = Recorded("hls")
    BY <1>4 DEF ScanCommit
  <2>5. Ruled(worker[w].row, s, k).status = s
    <3>1. s \in Statuses /\ k \in {"none", "clean", "refused"}
      BY DEF Statuses
    <3> QED BY <1>2, <3>1, RowScanned
  <2> QED BY <1>1, <2>1, <2>3, <2>4, <2>5, OrderedWrites
<1>5. CASE HlsMark(w) \/ HlsCommit(w)
  <2>1. PICK s \in {"processing", "ready", "failed"}, pc \in {"done", "produce"} :
           Write(w, [worker[w].row EXCEPT !.status = s], pc)
    BY <1>5 DEF HlsMark, HlsCommit
  <2>2. job' = job
    BY <1>5 DEF HlsMark, HlsCommit
  <2>3. [worker[w].row EXCEPT !.status = s].status = s
    BY <1>2 DEF Row
  <2> QED BY <1>1, <2>1, <2>2, <2>3, OrderedWrites
<1> QED BY <1>3, <1>4, <1>5

\* Nobody is delivered a job, finishes one, or writes the row.
LEMMA OrderedRest ==
    ASSUME IInv, Ordered,
           \/ UploadExpires \/ Download \/ OpenSession \/ HlsMaster
           \/ SessionMaster \/ Playlist \/ SessionExpires \/ UNCHANGED vars
           \/ \E j \in Jobs : Requeue(j)
    PROVE  Ordered'
<1>1. UNCHANGED <<asset, parts, object, content, req, worker>>
  BY DEF UploadExpires, Download, OpenSession, HlsMaster, SessionMaster, Playlist, SessionExpires,
         Serve, Requeue, store, vars
<1>2. \A j \in Jobs : job'[j] = "none" <=> job[j] = "none"
  <2>1. CASE \E j \in Jobs : Requeue(j)
    BY <2>1 DEF Requeue, IInv, TypeOK
  <2>2. CASE UNCHANGED job
    BY <2>2
  <2> QED BY <2>1, <2>2 DEF UploadExpires, Download, OpenSession, HlsMaster, SessionMaster, Playlist,
                            SessionExpires, Serve, queue, vars
<1>3. \A w \in Workers : job["scan"] # "none" /\ worker'[w].job = "probe" /\ worker'[w].pc \in Verifying =>
                             Passed(object', content')
  BY <1>1 DEF Ordered, Verifying
<1> QED BY <1>1, <1>2, <1>3, OrderedKeeps

\* That order is inductive, with a store that completes in one step.
LEMMA OrderedNext == ASSUME IInv, Ordered, Atomic, [Next]_vars PROVE Ordered'
<1>1. ASSUME NEW q \in Requests,
             \/ CompleteRead(q) \/ AbortRead(q) \/ ComposeRefused(q) \/ DiscardParts(q)
             \/ StopMultipart(q) \/ RequestFails(q)
      PROVE  Ordered'
  <2>1. /\ UNCHANGED <<asset, object, content, job, worker>> /\ parts' \in {parts, "gone"}
    BY <1>1 DEF CompleteRead, AbortRead, ComposeRefused, DiscardParts, StopMultipart, RequestFails, store, queue
  <2>2. \A r \in Requests : Completes(req'[r]) => Completes(req[r])
    BY <1>1, NothingYet DEF CompleteRead, AbortRead, ComposeRefused, DiscardParts, StopMultipart, RequestFails,
                            Completes, IInv, TypeOK, Request
  <2> QED BY <2>1, <2>2, OrderedRequests
<1>2. ASSUME NEW q \in Requests, Proceeds(q) PROVE Ordered'
  BY <1>1, <1>2, OrderedCompose, OrderedComplete, OrderedAbort DEF Proceeds
<1>3. ASSUME NEW w \in Workers,
             (\E j \in Jobs : Deliver(w, j)) \/ Handle(w) \/ HandlerFails(w) \/ WorkerDies(w)
      PROVE  Ordered'
  BY <1>3, OrderedQueue, OrderedRead, OrderedHandles, OrderedCommits DEF Handle
<1>4. ASSUME NEW streamed \in BOOLEAN, Begin(streamed) PROVE Ordered'
  BY <1>4, OrderedBegin
<1> QED BY <1>1, <1>2, <1>3, <1>4, OrderedRest DEF Next

\* What a step writes when the asset is infected.
LEMMA InfectedStep ==
    ASSUME IInv, Ordered, [Next]_vars, asset.status = "infected"
    PROVE  asset'.status \in {"infected", "rejected"}
<1>1. /\ object # "none" /\ content = "infected" /\ job["scan"] # "none" /\ job["probe"] # "none"
      /\ ~Passed(object, content)
  BY DEF IInv, Sound, Told, Ordered, Passed, Refused
<1>2. ASSUME NEW q \in Requests, CompleteRead(q) \/ AbortRead(q) \/ Proceeds(q) \/ RequestFails(q)
      PROVE  asset'.status \in {"infected", "rejected"}
  <2>1. CASE CompleteCommit(q)
    BY <1>1, <2>1 DEF CompleteCommit, Ordered, Completes
  <2>2. CASE AbortCommit(q)
    <3>1. req[q].row \in Row /\ asset' = [req[q].row EXCEPT !.status = "rejected"]
      BY <2>2, AssetThere DEF AbortCommit
    <3> QED BY <3>1 DEF Row
  <2>3. CASE UNCHANGED asset
    BY <2>3
  <2> QED BY <1>2, <2>1, <2>2, <2>3 DEF CompleteRead, AbortRead, Proceeds, RequestFails, Compose, ComposeRefused,
                                        DiscardParts, StopMultipart
<1>3. ASSUME NEW w \in Workers,
             (\E j \in Jobs : Deliver(w, j)) \/ Handle(w) \/ HandlerFails(w) \/ WorkerDies(w)
      PROVE  asset'.status \in {"infected", "rejected"}
  <2>1. CASE ProbeCommit(w)
    BY <1>1, <2>1 DEF ProbeCommit, Ordered
  <2>2. CASE ScanCommit(w)
    <3>1. worker[w].verdict = "infected" /\ worker[w].row \in Row
      BY <1>1, <2>2, Handler DEF ScanCommit, Knows
    <3>2. asset' = Ruled(worker[w].row, "infected", "refused")
      BY <2>2, <3>1 DEF ScanCommit, Write, Ruled
    <3> QED BY <3>1, <3>2, RowScanned DEF Statuses
  <2>3. CASE HlsMark(w) \/ HlsCommit(w)
    BY <1>1, <2>3, Handler DEF HlsMark, HlsCommit, Knows
  <2>4. CASE UNCHANGED asset
    BY <2>4
  <2> QED BY <1>3, <2>1, <2>2, <2>3, <2>4
          DEF Handle, Deliver, Succeed, Fail, WorkerDies, HandlerFails, OriginalMissing, Quarantine, Proceed,
              ProbeRead, ProbeJudge, ScanRead, ScanJudge, HlsRead, HlsProduce
<1>4. CASE UNCHANGED asset
  BY <1>4
<1> QED BY <1>2, <1>3, <1>4 DEF Next, Begin, UploadExpires, Requeue, Download, OpenSession, HlsMaster,
                                SessionMaster, Playlist, SessionExpires, Serve, vars

\* With a store that completes an upload in one step, no job that repeats gives
\* an infected asset another chance.
THEOREM InfectionIsFinal == ASSUME Atomic PROVE Spec => InfectedIsFinal
<1>1. Init => Ordered
  BY NothingYet DEF Init, Ordered, Completes, Jobs, NoAsset
<1>2. IInv /\ Ordered /\ [Next]_vars => Ordered'
  BY OrderedNext
<1>3. IInv /\ Ordered /\ [Next]_vars =>
         [asset.status = "infected" => asset'.status \in {"infected", "rejected"}]_vars
  BY InfectedStep
<1> QED BY <1>1, <1>2, <1>3, Invariance, PTL DEF Spec, InfectedIsFinal
=============================================================================
