----------------------------- MODULE Publishing -----------------------------
(***************************************************************************)
(* Publication of a stored video: the API's synchronous and queued paths,  *)
(* the Celery worker, the compare-and-set repository they share, and the   *)
(* broker between them.                                                    *)
(*                                                                         *)
(* A process is one API request handler (Clients) or one worker process    *)
(* (Workers).  Every awaited database call is a step of its own: between   *)
(* two of them any other process may run.  A database call may fail before *)
(* or after it took effect, a process may be lost, and the broker delivers *)
(* at least once.                                                          *)
(***************************************************************************)
EXTENDS Naturals

CONSTANTS
  Pubs,                 \* publication identifiers
  NoPub,                \* the publication of an idle process
  Clients,              \* API request handlers
  Workers,              \* Celery worker processes
  MaxTime,              \* bound: the clock
  MaxFaults,            \* bound: failing database calls
  MaxClientCrashes,     \* bound: API processes lost
  MaxWorkerCrashes,     \* bound: worker processes lost
  MaxRedeliveries       \* bound: messages restored by the visibility timeout

ASSUME NoPubAssumption == NoPub \notin Pubs
ASSUME ProcsAssumption == Clients \cap Workers = {}
ASSUME BoundsAssumption ==
  {MaxTime, MaxFaults, MaxClientCrashes, MaxWorkerCrashes, MaxRedeliveries}
    \subseteq Nat

VARIABLES
  row,                  \* the publications table
  uploads,              \* videos the external platform received
  queue,                \* the broker: copies of each message ready for delivery
  now,                  \* the clock
  pc, cur, eta, sess,   \* per process: control, publication, schedule, session
  faults, clientCrashes, workerCrashes, redeliveries      \* what was spent

procVars == <<pc, cur, eta, sess>>
envVars  == <<faults, clientCrashes, workerCrashes, redeliveries>>
vars     == <<row, uploads, queue, now, procVars, envVars>>

-----------------------------------------------------------------------------
Procs == Clients \cup Workers

Statuses == {"absent", "PENDING", "QUEUED", "PUBLISHING", "PUBLISHED", "FAILED"}

Settled == {"PUBLISHED", "FAILED"}

ErrorCodes == {"none", "provider", "queue", "worker"}

Times == 0..MaxTime         \* 0 as a schedule stands for "no schedule"

Row == [status : Statuses, started : BOOLEAN, scheduled : Times,
        error : ErrorCodes, external : BOOLEAN]

NoRow == [status |-> "absent", started |-> FALSE, scheduled |-> 0,
          error |-> "none", external |-> FALSE]

Message == [pub : Pubs, eta : Times]

(* The session of a process: "closed" holds no connection, "open" is inside *)
(* a transaction, "broken" needs a rollback that nobody issues.             *)
Sessions == {"closed", "open", "broken"}

ClaimedPc == {"load", "upload", "record_failure", "record_success"}

\* Control points at which the next thing the process does is a database call.
WorkerDbPc == {"read", "claim", "reread", "fail_queued", "fail_publishing"}
DbPc == WorkerDbPc \cup ClaimedPc \cup {"enqueue_claim", "send_failed", "publish_claim"}

Pcs == DbPc \cup {"idle", "send", "finished"}

-----------------------------------------------------------------------------
Init ==
  /\ row = [p \in Pubs |-> NoRow]
  /\ uploads = [p \in Pubs |-> 0]
  /\ queue = [m \in Message |-> 0]
  /\ now = 0
  /\ pc = [x \in Procs |-> "idle"]
  /\ cur = [x \in Procs |-> NoPub]
  /\ eta = [x \in Procs |-> 0]
  /\ sess = [x \in Procs |-> "closed"]
  /\ faults = 0 /\ clientCrashes = 0 /\ workerCrashes = 0 /\ redeliveries = 0

-----------------------------------------------------------------------------
(* Control of a process.                                                   *)

GoTo(x, point, session) ==
  /\ pc' = [pc EXCEPT ![x] = point]
  /\ sess' = [sess EXCEPT ![x] = session]
  /\ UNCHANGED <<cur, eta>>

\* A request handler that answered, or a worker that took its hands off a message.
Leave(x) ==
  /\ pc' = [pc EXCEPT ![x] = "idle"]
  /\ cur' = [cur EXCEPT ![x] = NoPub]
  /\ eta' = [eta EXCEPT ![x] = 0]
  /\ sess' = [sess EXCEPT ![x] = "closed"]

\* Where a returning call ends: a worker still owes the broker an acknowledgement.
Return(x) == IF x \in Workers THEN GoTo(x, "finished", sess[x]) ELSE Leave(x)

\* An exception of publish_queued reaches _run_publication; one of a request
\* handler reaches the error middleware, which answers and closes the session.
Raise(x, session) ==
  IF x \notin Workers THEN Leave(x)
  ELSE IF pc[x] \in {"fail_queued", "fail_publishing"}
       THEN GoTo(x, "finished", session)
       ELSE GoTo(x, "fail_queued", session)

(* What a database error does: _publish_claimed catches one raised while it *)
(* loads the asset or publishes, and records a provider error; every other  *)
(* one leaves the function.                                                 *)
OnDbError(x, session) ==
  IF pc[x] \in {"load", "upload"} THEN GoTo(x, "record_failure", session)
                                  ELSE Raise(x, session)

-----------------------------------------------------------------------------
(* PublicationRepository.transition_status: an UPDATE guarded by the status, *)
(* a commit, and a refresh when a row matched.                              *)

Matches(x, from) == row[cur[x]].status = from

Write(x, from, new) ==
  row' = IF Matches(x, from) THEN [row EXCEPT ![cur[x]] = new] ELSE row

Current(x) == row[cur[x]]

\* The rows the transitions write: the PublicationUpdate of each caller.
QueuedRow(x)    == [Current(x) EXCEPT !.status = "QUEUED", !.scheduled = eta[x],
                                      !.error = "none"]
\* Mutant: the claim forgets started_at.
ClaimedRowUnstamped(x) == [Current(x) EXCEPT !.status = "PUBLISHING"]
ClaimedRow(x)   == [Current(x) EXCEPT !.status = "PUBLISHING", !.started = TRUE]
PublishedRow(x) == [Current(x) EXCEPT !.status = "PUBLISHED", !.external = TRUE,
                                      !.error = "none"]
FailedRow(x, code) == [Current(x) EXCEPT !.status = "FAILED", !.error = code]

\* The answer of a call that took effect is lost: the commit's acknowledgement
\* (the session is broken) or the refresh (no connection to be had).
LoseAnswer(x, from) ==
  /\ faults < MaxFaults
  /\ faults' = faults + 1
  /\ \E session \in {"closed", "broken"} :
       /\ session = "closed" => Matches(x, from)
       /\ OnDbError(x, session)

Answered == UNCHANGED faults

Healthy(x) == sess[x] # "broken"

AtDb(x, point) == pc[x] = point /\ Healthy(x)

Quiet == UNCHANGED <<clientCrashes, workerCrashes, redeliveries, now>>

-----------------------------------------------------------------------------
(* The API.                                                                *)

\* PublishingService.create: the asset and provider checks precede the insert.
Create(p) ==
  /\ row[p].status = "absent"
  /\ row' = [row EXCEPT ![p].status = "PENDING"]
  /\ UNCHANGED <<uploads, queue, now, procVars, envVars>>

Begin(c, p, point, schedule) ==
  /\ pc[c] = "idle"
  /\ row[p].status = "PENDING"
  /\ pc' = [pc EXCEPT ![c] = point]
  /\ cur' = [cur EXCEPT ![c] = p]
  /\ eta' = [eta EXCEPT ![c] = schedule]
  /\ sess' = [sess EXCEPT ![c] = "open"]
  /\ UNCHANGED <<row, uploads, queue, now, envVars>>

\* enqueue and schedule up to the read; a request refused here changes nothing.
EnqueueRead(c, p) ==
  \E schedule \in Times :
    /\ schedule = 0 \/ schedule > now
    /\ Begin(c, p, "enqueue_claim", schedule)

\* publish up to the read.
PublishRead(c, p) == Begin(c, p, "publish_claim", 0)

EnqueueClaim(c) ==
  /\ AtDb(c, "enqueue_claim")
  /\ Write(c, "PENDING", QueuedRow(c))
  /\ \/ Answered /\ IF Matches(c, "PENDING") THEN GoTo(c, "send", "open") ELSE Leave(c)
     \/ LoseAnswer(c, "PENDING")
  /\ Quiet /\ UNCHANGED <<uploads, queue>>

\* Mutant: the task is sent without its ETA.
SentMessageWithoutEta(c) == [pub |-> cur[c], eta |-> 0]

SentMessage(c) == [pub |-> cur[c], eta |-> eta[c]]

Accept(m) == queue' = [queue EXCEPT ![m] = @ + 1]

\* Mutant: a failing send_task is not compensated.
SendUncompensated(c) ==
  /\ pc[c] = "send"
  /\ Accept(SentMessage(c)) \/ UNCHANGED queue
  /\ Leave(c)
  /\ UNCHANGED <<row, uploads, now, envVars>>

(* send_publication_task: the broker accepts, refuses, or accepts while the *)
(* caller sees an error (or an answer with another task id).                *)
Send(c) ==
  /\ pc[c] = "send"
  /\ \/ Accept(SentMessage(c)) /\ Leave(c)
     \/ Accept(SentMessage(c)) /\ GoTo(c, "send_failed", sess[c])
     \/ UNCHANGED queue /\ GoTo(c, "send_failed", sess[c])
  /\ UNCHANGED <<row, uploads, now, envVars>>

\* Mutant: the compensation does not ask for the row's status.
SendFailedUnguarded(c) ==
  /\ AtDb(c, "send_failed")
  /\ Write(c, Current(c).status, FailedRow(c, "queue"))
  /\ Answered /\ Leave(c)
  /\ Quiet /\ UNCHANGED <<uploads, queue>>

\* The compensating transition of enqueue; the request then answers 503.
SendFailed(c) ==
  /\ AtDb(c, "send_failed")
  /\ Write(c, "QUEUED", FailedRow(c, "queue"))
  /\ \/ Answered /\ Leave(c)
     \/ LoseAnswer(c, "QUEUED")
  /\ Quiet /\ UNCHANGED <<uploads, queue>>

\* Mutant: the synchronous endpoint ignores a lost compare-and-set.
PublishClaimUnchecked(c) ==
  /\ AtDb(c, "publish_claim")
  /\ Write(c, "PENDING", ClaimedRow(c))
  /\ Answered /\ GoTo(c, "load", "open")
  /\ Quiet /\ UNCHANGED <<uploads, queue>>

PublishClaim(c) ==
  /\ AtDb(c, "publish_claim")
  /\ Write(c, "PENDING", ClaimedRow(c))
  /\ \/ Answered /\ IF Matches(c, "PENDING") THEN GoTo(c, "load", "open") ELSE Leave(c)
     \/ LoseAnswer(c, "PENDING")
  /\ Quiet /\ UNCHANGED <<uploads, queue>>

-----------------------------------------------------------------------------
(* PublishingService._publish_claimed, run by a request handler or a worker. *)

\* The asset and the provider are looked up; either may be refused.
Load(x) ==
  /\ AtDb(x, "load")
  /\ \E point \in {"upload", "record_failure"} : GoTo(x, point, sess[x])
  /\ UNCHANGED <<row, uploads, queue, now, envVars>>

\* Mutant: an error before the upload is taken for a response.
UploadErrorIgnored(x) ==
  /\ AtDb(x, "upload")
  /\ \E n \in {uploads[cur[x]], uploads[cur[x]] + 1} : uploads' = [uploads EXCEPT ![cur[x]] = n]
  /\ GoTo(x, "record_success", sess[x])
  /\ UNCHANGED <<row, queue, now, envVars>>

(* provider.publish: a usable response; an error before the platform has    *)
(* the video; or an error, a timeout or a malformed response afterwards.    *)
Upload(x) ==
  /\ AtDb(x, "upload")
  /\ \/ /\ uploads' = [uploads EXCEPT ![cur[x]] = @ + 1]
        /\ \E point \in {"record_success", "record_failure"} : GoTo(x, point, sess[x])
     \/ UNCHANGED uploads /\ GoTo(x, "record_failure", sess[x])
  /\ UNCHANGED <<row, queue, now, envVars>>

\* Mutant: the provider's error is raised but not recorded.
RecordFailureForgotten(x) ==
  /\ AtDb(x, "record_failure")
  /\ Raise(x, sess[x])
  /\ UNCHANGED <<row, uploads, queue, now, envVars>>

\* The transition is recorded, then the error is raised again.
RecordFailure(x) ==
  /\ AtDb(x, "record_failure")
  /\ Write(x, "PUBLISHING", FailedRow(x, "provider"))
  /\ \/ Answered /\ Raise(x, IF Matches(x, "PUBLISHING") THEN "open" ELSE "closed")
     \/ LoseAnswer(x, "PUBLISHING")
  /\ Quiet /\ UNCHANGED <<uploads, queue>>

\* A row that is no longer PUBLISHING raises PUBLICATION_NOT_FOUND.
RecordSuccess(x) ==
  /\ AtDb(x, "record_success")
  /\ Write(x, "PUBLISHING", PublishedRow(x))
  /\ \/ Answered /\ IF Matches(x, "PUBLISHING") THEN Return(x) ELSE Raise(x, "closed")
     \/ LoseAnswer(x, "PUBLISHING")
  /\ Quiet /\ UNCHANGED <<uploads, queue>>

-----------------------------------------------------------------------------
(* The worker: execute_publication around PublishingService.publish_queued. *)

\* The broker hands a message over once its ETA has come.
Deliver(w, m) ==
  /\ pc[w] = "idle"
  /\ queue[m] > 0 /\ m.eta <= now
  /\ queue' = [queue EXCEPT ![m] = @ - 1]
  /\ pc' = [pc EXCEPT ![w] = "read"]
  /\ cur' = [cur EXCEPT ![w] = m.pub]
  /\ eta' = [eta EXCEPT ![w] = m.eta]
  /\ UNCHANGED <<row, uploads, now, sess, envVars>>

\* Mutant: a duplicate does not recognise a publication in flight.
HandledElsewhereSettled(x) == Current(x).status \in Settled

HandledElsewhere(x) == Current(x).status \in Settled \cup {"PUBLISHING"}

Read(w) ==
  /\ AtDb(w, "read")
  /\ GoTo(w, IF HandledElsewhere(w) THEN "finished"
             ELSE IF Current(w).status = "QUEUED" THEN "claim" ELSE "fail_queued", "open")
  /\ UNCHANGED <<row, uploads, queue, now, envVars>>

\* Mutant: the worker ignores a lost compare-and-set.
ClaimUnchecked(w) ==
  /\ AtDb(w, "claim")
  /\ Write(w, "QUEUED", ClaimedRow(w))
  /\ Answered /\ GoTo(w, "load", "open")
  /\ Quiet /\ UNCHANGED <<uploads, queue>>

Claim(w) ==
  /\ AtDb(w, "claim")
  /\ Write(w, "QUEUED", ClaimedRow(w))
  /\ \/ Answered /\ IF Matches(w, "QUEUED") THEN GoTo(w, "load", "open")
                                            ELSE GoTo(w, "reread", "closed")
     \/ LoseAnswer(w, "QUEUED")
  /\ Quiet /\ UNCHANGED <<uploads, queue>>

Reread(w) ==
  /\ AtDb(w, "reread")
  /\ GoTo(w, IF HandledElsewhere(w) THEN "finished" ELSE "fail_queued", "open")
  /\ UNCHANGED <<row, uploads, queue, now, envVars>>

\* Mutant: a failing worker puts the publication back for another attempt.
FailQueuedResets(w) ==
  /\ AtDb(w, "fail_queued")
  /\ row' = [row EXCEPT ![cur[w]].status = "PENDING"]
  /\ Answered /\ GoTo(w, "finished", "open")
  /\ Quiet /\ UNCHANGED <<uploads, queue>>

\* fail_queued_or_publishing, in its two transitions: neither asks who owns the row.
FailQueued(w) ==
  /\ AtDb(w, "fail_queued")
  /\ Write(w, "QUEUED", FailedRow(w, "worker"))
  /\ \/ Answered /\ IF Matches(w, "QUEUED") THEN GoTo(w, "finished", "open")
                                            ELSE GoTo(w, "fail_publishing", "closed")
     \/ LoseAnswer(w, "QUEUED")
  /\ Quiet /\ UNCHANGED <<uploads, queue>>

\* Mutant: the worker's failure is written whatever the row says.
FailPublishingUnguarded(w) ==
  /\ AtDb(w, "fail_publishing")
  /\ Write(w, Current(w).status, FailedRow(w, "worker"))
  /\ Answered /\ GoTo(w, "finished", "open")
  /\ Quiet /\ UNCHANGED <<uploads, queue>>

FailPublishing(w) ==
  /\ AtDb(w, "fail_publishing")
  /\ Write(w, "PUBLISHING", FailedRow(w, "worker"))
  /\ \/ Answered /\ GoTo(w, "finished", IF Matches(w, "PUBLISHING") THEN "open" ELSE "closed")
     \/ LoseAnswer(w, "PUBLISHING")
  /\ Quiet /\ UNCHANGED <<uploads, queue>>

\* task_acks_late: the message is given up when the task ended, well or badly.
Ack(w) ==
  /\ pc[w] = "finished"
  /\ Leave(w)
  /\ UNCHANGED <<row, uploads, queue, now, envVars>>

-----------------------------------------------------------------------------
(* What may go wrong.                                                       *)

(* A database call fails before it took effect.  Without a transaction it   *)
(* may be the connection that failed, and the session stays usable.         *)
DbFault(x) ==
  /\ faults < MaxFaults
  /\ pc[x] \in DbPc /\ Healthy(x)
  /\ \E session \in {"closed", "broken"} :
       /\ session = "closed" => sess[x] = "closed"
       /\ OnDbError(x, session)
  /\ faults' = faults + 1
  /\ Quiet /\ UNCHANGED <<row, uploads, queue>>

\* Every call on a session that awaits a rollback raises again.
PendingRollback(x) ==
  /\ pc[x] \in DbPc /\ ~Healthy(x)
  /\ OnDbError(x, "broken")
  /\ UNCHANGED <<row, uploads, queue, now, envVars>>

ClientCrash(c) ==
  /\ pc[c] # "idle"
  /\ clientCrashes < MaxClientCrashes
  /\ clientCrashes' = clientCrashes + 1
  /\ Leave(c)
  /\ UNCHANGED <<row, uploads, queue, now, faults, workerCrashes, redeliveries>>

HeldMessage(w) == [pub |-> cur[w], eta |-> eta[w]]

\* Mutant: the message was acknowledged before the task ran.
WorkerCrashAckedEarly(w) ==
  /\ pc[w] # "idle"
  /\ workerCrashes < MaxWorkerCrashes
  /\ workerCrashes' = workerCrashes + 1
  /\ Leave(w)
  /\ UNCHANGED <<row, uploads, queue, now, faults, clientCrashes, redeliveries>>

\* task_reject_on_worker_lost: the message of a lost worker is queued again.
WorkerCrash(w) ==
  /\ pc[w] # "idle"
  /\ workerCrashes < MaxWorkerCrashes
  /\ workerCrashes' = workerCrashes + 1
  /\ Accept(HeldMessage(w))
  /\ Leave(w)
  /\ UNCHANGED <<row, uploads, now, faults, clientCrashes, redeliveries>>

(* Redis restores a message unacknowledged for longer than the visibility   *)
(* timeout, whether it waits for its ETA or its task is still running.      *)
Redeliver(m) ==
  /\ queue[m] > 0 \/ \E w \in Workers : pc[w] # "idle" /\ HeldMessage(w) = m
  /\ redeliveries < MaxRedeliveries
  /\ redeliveries' = redeliveries + 1
  /\ Accept(m)
  /\ UNCHANGED <<row, uploads, now, procVars, faults, clientCrashes, workerCrashes>>

Tick ==
  /\ now < MaxTime
  /\ now' = now + 1
  /\ UNCHANGED <<row, uploads, queue, procVars, envVars>>

-----------------------------------------------------------------------------
ClaimedStep(x) == Load(x) \/ Upload(x) \/ RecordFailure(x) \/ RecordSuccess(x)

ClientStep(c) ==
  \/ EnqueueClaim(c) \/ Send(c) \/ SendFailed(c) \/ PublishClaim(c)
  \/ ClaimedStep(c) \/ PendingRollback(c)

WorkerStep(w) ==
  \/ \E m \in Message : Deliver(w, m)
  \/ Read(w) \/ Claim(w) \/ Reread(w) \/ ClaimedStep(w)
  \/ FailQueued(w) \/ FailPublishing(w) \/ Ack(w) \/ PendingRollback(w)

Fault ==
  \/ \E x \in Procs : DbFault(x)
  \/ \E c \in Clients : ClientCrash(c)
  \/ \E w \in Workers : WorkerCrash(w)
  \/ \E m \in Message : Redeliver(m)

Next ==
  \/ \E p \in Pubs : Create(p)
  \/ \E c \in Clients, p \in Pubs : EnqueueRead(c, p) \/ PublishRead(c, p)
  \/ \E c \in Clients : ClientStep(c)
  \/ \E w \in Workers : WorkerStep(w)
  \/ Fault
  \/ Tick

Spec == Init /\ [][Next]_vars

(* Handlers and workers that run keep running, and time passes; nobody owes *)
(* the system a request, a crash or a redelivery.                           *)
Fairness ==
  /\ \A c \in Clients : WF_vars(ClientStep(c))
  /\ \A w \in Workers : WF_vars(WorkerStep(w))
  /\ WF_vars(Tick)

FairSpec == Spec /\ Fairness

-----------------------------------------------------------------------------
(* Properties.                                                             *)

\* Every variable stays in the range the columns and the control points give it.
TypeOK ==
  /\ row \in [Pubs -> Row]
  /\ uploads \in [Pubs -> Nat]
  /\ queue \in [Message -> Nat]
  /\ now \in Times
  /\ pc \in [Procs -> Pcs]
  /\ cur \in [Procs -> Pubs \cup {NoPub}]
  /\ \A x \in Procs : pc[x] # "idle" => cur[x] \in Pubs
  /\ eta \in [Procs -> Times]
  /\ sess \in [Procs -> Sessions]
  /\ faults \in 0..MaxFaults
  /\ clientCrashes \in 0..MaxClientCrashes
  /\ workerCrashes \in 0..MaxWorkerCrashes
  /\ redeliveries \in 0..MaxRedeliveries

Claimant(x, p) == pc[x] \in ClaimedPc /\ cur[x] = p

(* publish_queued promises to "execute it at most once": whatever is         *)
(* redelivered, retried by a client, failed by another process or lost, the  *)
(* platform receives the video of a publication at most once.                *)
AtMostOneUpload == \A p \in Pubs : uploads[p] <= 1

(* The claim is exclusive even after somebody failed the row under its        *)
(* owner: no two processes are inside _publish_claimed for one publication.   *)
OneClaimant ==
  \A p \in Pubs : \A x, y \in Procs : Claimant(x, p) /\ Claimant(y, p) => x = y

(* A publication shown as published, or with an external id, really is on     *)
(* the platform, and its row carries no error.                                *)
PublishedIsUploaded ==
  \A p \in Pubs : row[p].status = "PUBLISHED" \/ row[p].external =>
    /\ row[p].status = "PUBLISHED" /\ row[p].external
    /\ uploads[p] = 1 /\ row[p].error = "none"

(* enqueue's compensation is honest although send_task may have reached the   *)
(* broker: a row failed with PUBLISHING_QUEUE_ERROR is never uploaded, before  *)
(* or after.                                                                  *)
QueueErrorMeansNotUploaded ==
  \A p \in Pubs : row[p].error = "queue" =>
    uploads[p] = 0 /\ \A x \in Procs : ~Claimant(x, p)

(* Why the claim is exclusive, as an inductive invariant: a row that was never *)
(* claimed was never uploaded and no process holds it; the video is on the     *)
(* platform exactly when the upload step of the one claimant happened; and     *)
(* PUBLISHED and the queue error fix the history that led to them.             *)
UnclaimedUntilStarted ==
  \A p \in Pubs :
    /\ row[p].status \in {"absent", "PENDING", "QUEUED"} => ~row[p].started
    /\ row[p].status \in {"PUBLISHING", "PUBLISHED"} => row[p].started
    /\ ~row[p].started => uploads[p] = 0
    /\ row[p].error = "queue" => row[p].status = "FAILED" /\ ~row[p].started

ClaimantOwnsUpload ==
  \A x \in Procs :
    /\ pc[x] \in ClaimedPc => row[cur[x]].started
    /\ pc[x] \in {"load", "upload"} => uploads[cur[x]] = 0
    /\ pc[x] = "record_success" => uploads[cur[x]] = 1

ClaimInv ==
  /\ UnclaimedUntilStarted /\ ClaimantOwnsUpload
  /\ AtMostOneUpload /\ OneClaimant /\ PublishedIsUploaded

(* A scheduled video never reaches the platform before its time, across       *)
(* redelivery, requeueing and the synchronous endpoint.                       *)
NotBeforeSchedule == \A p \in Pubs : uploads[p] > 0 => row[p].scheduled <= now

(* "Retry and reset transitions remain undefined": once a row is PUBLISHED    *)
(* or FAILED no late answer, duplicate or worker failure changes it, so the   *)
(* first recorded error is the one a user reads.                              *)
SettledRowsAreFinal ==
  [][\A p \in Pubs : row[p].status \in Settled => row'[p] = row[p]]_vars

(* The system implements the promised lifecycle of PublicationLifecycle: the   *)
(* right to upload is the started_at stamp that only a won claim sets.        *)
Lifecycle == INSTANCE PublicationLifecycle WITH
  status  <- [p \in Pubs |-> row[p].status],
  claimed <- [p \in Pubs |-> row[p].started]

LifecycleSpec == Lifecycle!LSpec

\* No database call failed and no request handler was lost.
Undisturbed == faults = 0 /\ clientCrashes = 0

(* A process holding a successful provider response still owns the row: the   *)
(* external id it is about to persist is not refused.  PUBLISHING.md: "A       *)
(* successful normalized response persists the external ID, URL, metadata".   *)
(* A failing database call can make a duplicate fail the row under its owner.  *)
ResponseFindsItsClaim ==
  faults = 0 => \A x \in Procs : pc[x] = "record_success" => Current(x).status = "PUBLISHING"

(* While API processes survive and the database answers, a QUEUED row is       *)
(* always on somebody's agenda: a task in the broker, a worker that holds it,  *)
(* or the request that is about to send it or to give up.                     *)
QueuedHasTask ==
  Undisturbed => \A p \in Pubs : row[p].status = "QUEUED" =>
    \/ \E m \in Message : m.pub = p /\ queue[m] > 0
    \/ \E w \in Workers : cur[w] = p /\ pc[w] \in {"read", "claim"}
    \/ \E c \in Clients : cur[c] = p /\ pc[c] \in {"send", "send_failed"}

(* Acknowledging late pays: a queued publication is eventually taken up even  *)
(* if a worker is lost with its message.                                      *)
QueuedIsTakenUp ==
  \A p \in Pubs : row[p].status = "QUEUED" ~> row[p].status # "QUEUED" \/ ~Undisturbed

(* Unless a worker is lost, every publication that was queued or claimed        *)
(* reaches PUBLISHED or FAILED, whatever the broker delivers twice.            *)
AcceptedSettles ==
  \A p \in Pubs :
    row[p].status \in {"QUEUED", "PUBLISHING"} ~>
      row[p].status \in Settled \/ workerCrashes > 0 \/ ~Undisturbed
=============================================================================
