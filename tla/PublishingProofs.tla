-------------------------- MODULE PublishingProofs --------------------------
(***************************************************************************)
(* Proofs about Publishing for every set of publications, handlers and     *)
(* workers and every bound on faults, crashes and redeliveries.            *)
(***************************************************************************)
EXTENDS Publishing, TLAPS

USE NoPubAssumption, ProcsAssumption, BoundsAssumption

-----------------------------------------------------------------------------
(* One process moves to one of the points S, keeping its publication or    *)
(* going idle; everybody else stays where they are.                        *)
Hop(x, S) ==
  \E point \in S, session \in Sessions :
    /\ pc' = [pc EXCEPT ![x] = point]
    /\ sess' = [sess EXCEPT ![x] = session]
    /\ \/ point # "idle" /\ UNCHANGED <<cur, eta>>
       \/ /\ point = "idle"
          /\ cur' = [cur EXCEPT ![x] = NoPub]
          /\ eta' = [eta EXCEPT ![x] = 0]

Left == {"idle", "finished", "fail_queued"}

\* Control of a process that answers, returns or raises: it holds no claim afterwards.
LEMMA LeavingHops ==
  ASSUME TypeOK, NEW x \in Procs
  PROVE  /\ Leave(x) => Hop(x, Left)
         /\ Return(x) => Hop(x, Left)
         /\ \A session \in Sessions : Raise(x, session) => Hop(x, Left)
  BY DEF TypeOK, Leave, Return, Raise, GoTo, Hop, Left, Sessions

\* A database error keeps a claim only on the way to recording a failure.
LEMMA DbErrorHops ==
  ASSUME TypeOK, NEW x \in Procs, NEW session \in Sessions, OnDbError(x, session)
  PROVE  Hop(x, IF pc[x] \in {"load", "upload"} THEN {"record_failure"} ELSE Left)
<1>1. CASE pc[x] \in {"load", "upload"}
  BY <1>1 DEF OnDbError, GoTo, Hop, Sessions
<1>2. CASE pc[x] \notin {"load", "upload"}
  BY <1>2, LeavingHops DEF OnDbError
<1> QED BY <1>1, <1>2

LEMMA LostAnswerHops ==
  ASSUME TypeOK, NEW x \in Procs, NEW from, LoseAnswer(x, from)
  PROVE  /\ Hop(x, IF pc[x] \in {"load", "upload"} THEN {"record_failure"} ELSE Left)
         /\ faults' \in 0..MaxFaults
<1>1. PICK session \in {"closed", "broken"} : OnDbError(x, session)
  BY DEF LoseAnswer
<1>2. session \in Sessions
  BY <1>1 DEF Sessions
<1>3. faults' \in 0..MaxFaults
  BY DEF LoseAnswer, TypeOK
<1> QED BY <1>1, <1>2, <1>3, DbErrorHops

\* What the types of the process variables need from a step of one process.
LEMMA HopTypes ==
  ASSUME TypeOK, NEW x \in Procs, NEW S \in SUBSET Pcs, Hop(x, S), pc[x] # "idle"
  PROVE  /\ pc' \in [Procs -> Pcs]
         /\ cur' \in [Procs -> Pubs \cup {NoPub}]
         /\ \A y \in Procs : pc'[y] # "idle" => cur'[y] \in Pubs
         /\ eta' \in [Procs -> Times]
         /\ sess' \in [Procs -> Sessions]
  BY DEF TypeOK, Hop, Times
-----------------------------------------------------------------------------
(* Type correctness.                                                       *)

LEMMA WriteTypes ==
  ASSUME TypeOK, NEW x \in Procs, NEW from, NEW new \in Row, Write(x, from, new)
  PROVE  row' \in [Pubs -> Row]
  BY DEF TypeOK, Write

\* The rows the transitions write are rows.
LEMMA NewRows ==
  ASSUME TypeOK, NEW x \in Procs, pc[x] # "idle"
  PROVE  /\ QueuedRow(x) \in Row /\ ClaimedRow(x) \in Row /\ PublishedRow(x) \in Row
         /\ \A code \in ErrorCodes : FailedRow(x, code) \in Row
<1>1. row[cur[x]] \in Row /\ eta[x] \in Times
  BY DEF TypeOK
<1> QED BY <1>1 DEF Row, Statuses, ErrorCodes, Current, QueuedRow, ClaimedRow,
                    PublishedRow, FailedRow

(* Every transition writes one of those rows and then hops, whether its      *)
(* answer arrives or not.                                                    *)
LEMMA TransitionTypes ==
  ASSUME TypeOK, NEW x \in Procs, NEW S \in SUBSET Pcs, Hop(x, S), pc[x] # "idle",
         NEW from, NEW new \in Row, Write(x, from, new),
         faults' \in 0..MaxFaults, Quiet, UNCHANGED <<uploads, queue>>
  PROVE  TypeOK'
<1>1. row' \in [Pubs -> Row]
  BY WriteTypes
<1> QED BY <1>1, HopTypes DEF TypeOK, Quiet

\* A step of a process that only hops keeps the types.
LEMMA HopOnlyTypes ==
  ASSUME TypeOK, NEW x \in Procs, NEW S \in SUBSET Pcs, Hop(x, S), pc[x] # "idle",
         UNCHANGED <<row, uploads, queue, now>>,
         faults' \in 0..MaxFaults, clientCrashes' \in 0..MaxClientCrashes,
         UNCHANGED <<workerCrashes, redeliveries>>
  PROVE  TypeOK'
  BY HopTypes DEF TypeOK

-----------------------------------------------------------------------------
(* Where each step of a process can take it.                               *)

LEMMA TransitionHops ==
  ASSUME TypeOK, NEW x \in Procs
  PROVE  /\ EnqueueClaim(x) => Hop(x, Left \cup {"send"})
         /\ SendFailed(x) => Hop(x, Left)
         /\ PublishClaim(x) => Hop(x, Left \cup {"load"})
         /\ RecordFailure(x) => Hop(x, Left)
         /\ RecordSuccess(x) => Hop(x, Left)
         /\ Claim(x) => Hop(x, Left \cup {"load", "reread"})
         /\ FailQueued(x) => Hop(x, Left \cup {"fail_publishing"})
         /\ FailPublishing(x) => Hop(x, Left)
<1> DEFINE Lost == \E from : LoseAnswer(x, from)
<1>0. ASSUME Lost, pc[x] \notin {"load", "upload"} PROVE Hop(x, Left)
  BY <1>0, LostAnswerHops
<1>w. \A S, T : Hop(x, S) /\ S \subseteq T => Hop(x, T)
  BY DEF Hop
<1> USE DEF AtDb
<1>1. ASSUME EnqueueClaim(x) PROVE Hop(x, Left \cup {"send"})
  <2>1. CASE Lost
    BY <1>0, <1>1, <1>w, <2>1 DEF EnqueueClaim
  <2>2. CASE ~Lost
    BY <1>1, <1>w, <2>2, LeavingHops DEF EnqueueClaim, GoTo, Hop, Sessions
  <2> QED BY <2>1, <2>2
<1>2. ASSUME SendFailed(x) PROVE Hop(x, Left)
  <2>1. CASE Lost
    BY <1>0, <1>2, <2>1 DEF SendFailed
  <2>2. CASE ~Lost
    BY <1>2, <2>2, LeavingHops DEF SendFailed
  <2> QED BY <2>1, <2>2
<1>3. ASSUME PublishClaim(x) PROVE Hop(x, Left \cup {"load"})
  <2>1. CASE Lost
    BY <1>0, <1>3, <1>w, <2>1 DEF PublishClaim
  <2>2. CASE ~Lost
    BY <1>3, <1>w, <2>2, LeavingHops DEF PublishClaim, GoTo, Hop, Sessions
  <2> QED BY <2>1, <2>2
<1>4. ASSUME RecordFailure(x) PROVE Hop(x, Left)
  BY <1>0, <1>4, LeavingHops DEF RecordFailure, Sessions
<1>5. ASSUME RecordSuccess(x) PROVE Hop(x, Left)
  BY <1>0, <1>5, LeavingHops DEF RecordSuccess, Sessions
<1>6. ASSUME Claim(x) PROVE Hop(x, Left \cup {"load", "reread"})
  <2>1. CASE Lost
    BY <1>0, <1>6, <1>w, <2>1 DEF Claim
  <2>2. CASE ~Lost
    BY <1>6, <2>2 DEF Claim, GoTo, Hop, Sessions
  <2> QED BY <2>1, <2>2
<1>7. ASSUME FailQueued(x) PROVE Hop(x, Left \cup {"fail_publishing"})
  <2>1. CASE Lost
    BY <1>0, <1>7, <1>w, <2>1 DEF FailQueued
  <2>2. CASE ~Lost
    BY <1>7, <2>2 DEF FailQueued, GoTo, Hop, Sessions, Left
  <2> QED BY <2>1, <2>2
<1>8. ASSUME FailPublishing(x) PROVE Hop(x, Left)
  <2>1. CASE Lost
    BY <1>0, <1>8, <2>1 DEF FailPublishing
  <2>2. CASE ~Lost
    BY <1>8, <2>2 DEF FailPublishing, GoTo, Hop, Sessions, Left
  <2> QED BY <2>1, <2>2
<1> QED BY <1>1, <1>2, <1>3, <1>4, <1>5, <1>6, <1>7, <1>8

\* The budget of failing calls is kept by every transition.
LEMMA FaultBudget ==
  ASSUME TypeOK, NEW x \in Procs,
         EnqueueClaim(x) \/ SendFailed(x) \/ PublishClaim(x) \/ RecordFailure(x)
           \/ RecordSuccess(x) \/ Claim(x) \/ FailQueued(x) \/ FailPublishing(x)
  PROVE  faults' \in 0..MaxFaults /\ Quiet /\ UNCHANGED <<uploads, queue>>
<1>1. faults \in 0..MaxFaults
  BY DEF TypeOK
<1>2. \A from : LoseAnswer(x, from) => faults' \in 0..MaxFaults
  BY <1>1 DEF LoseAnswer
<1> QED BY <1>1, <1>2 DEF EnqueueClaim, SendFailed, PublishClaim, RecordFailure,
                          RecordSuccess, Claim, FailQueued, FailPublishing, Answered

LEMMA TransitionsTyped ==
  ASSUME TypeOK, NEW x \in Procs,
         EnqueueClaim(x) \/ SendFailed(x) \/ PublishClaim(x) \/ RecordFailure(x)
           \/ RecordSuccess(x) \/ Claim(x) \/ FailQueued(x) \/ FailPublishing(x)
  PROVE  TypeOK'
<1>1. \E S \in SUBSET Pcs : Hop(x, S)
  <2>1. /\ Left \in SUBSET Pcs /\ Left \cup {"send"} \in SUBSET Pcs
        /\ Left \cup {"load"} \in SUBSET Pcs
        /\ Left \cup {"load", "reread"} \in SUBSET Pcs
        /\ Left \cup {"fail_publishing"} \in SUBSET Pcs
    BY DEF Left, Pcs, DbPc, WorkerDbPc, ClaimedPc
  <2> QED BY <2>1, TransitionHops
<1>2. pc[x] # "idle"
  BY DEF EnqueueClaim, SendFailed, PublishClaim, RecordFailure, RecordSuccess, Claim,
         FailQueued, FailPublishing, AtDb
<1>3. \E from : \E new \in Row : Write(x, from, new)
  BY <1>2, NewRows DEF EnqueueClaim, SendFailed, PublishClaim, RecordFailure,
                       RecordSuccess, Claim, FailQueued, FailPublishing, ErrorCodes
<1> QED BY <1>1, <1>2, <1>3, FaultBudget, TransitionTypes

\* Steps of _publish_claimed and of the worker that write no row.
LEMMA ReadingHops ==
  ASSUME TypeOK, NEW x \in Procs
  PROVE  /\ Load(x) => Hop(x, {"upload", "record_failure"})
         /\ Upload(x) => Hop(x, {"record_success", "record_failure"})
         /\ Read(x) => Hop(x, {"finished", "claim", "fail_queued"})
         /\ Reread(x) => Hop(x, {"finished", "fail_queued"})
         /\ Ack(x) => Hop(x, Left)
         /\ PendingRollback(x) =>
              Hop(x, IF pc[x] \in {"load", "upload"} THEN {"record_failure"} ELSE Left)
         /\ DbFault(x) =>
              Hop(x, IF pc[x] \in {"load", "upload"} THEN {"record_failure"} ELSE Left)
<1>0. sess[x] \in Sessions /\ "open" \in Sessions /\ {"closed", "broken"} \subseteq Sessions
  BY DEF TypeOK, Sessions
<1>1. /\ Load(x) => Hop(x, {"upload", "record_failure"})
      /\ Upload(x) => Hop(x, {"record_success", "record_failure"})
  BY <1>0 DEF Load, Upload, GoTo, Hop
<1>2. /\ Read(x) => Hop(x, {"finished", "claim", "fail_queued"})
      /\ Reread(x) => Hop(x, {"finished", "fail_queued"})
  BY <1>0 DEF Read, Reread, GoTo, Hop
<1>3. Ack(x) => Hop(x, Left)
  BY LeavingHops DEF Ack
<1>4. PendingRollback(x) =>
        Hop(x, IF pc[x] \in {"load", "upload"} THEN {"record_failure"} ELSE Left)
  BY <1>0, DbErrorHops DEF PendingRollback
<1>5. DbFault(x) =>
        Hop(x, IF pc[x] \in {"load", "upload"} THEN {"record_failure"} ELSE Left)
  BY <1>0, DbErrorHops DEF DbFault
<1> QED BY <1>1, <1>2, <1>3, <1>4, <1>5

LEMMA InitTypes == Init => TypeOK
<1> SUFFICES ASSUME Init PROVE TypeOK
  OBVIOUS
<1>1. NoRow \in Row
  BY DEF NoRow, Row, Statuses, ErrorCodes, Times
<1>2. 0 \in Times
  BY DEF Times
<1> QED BY <1>1, <1>2 DEF Init, TypeOK, Pcs, Sessions

\* Steps of a process that are not transitions of a row.
LEMMA ReadingTyped ==
  ASSUME TypeOK, NEW x \in Procs,
         Load(x) \/ Upload(x) \/ Read(x) \/ Reread(x) \/ Ack(x)
           \/ PendingRollback(x) \/ DbFault(x)
  PROVE  TypeOK'
<1>1. \E S \in SUBSET Pcs : Hop(x, S)
  <2>1. /\ Left \in SUBSET Pcs
        /\ {"upload", "record_failure"} \in SUBSET Pcs
        /\ {"record_success", "record_failure"} \in SUBSET Pcs
        /\ {"finished", "claim", "fail_queued"} \in SUBSET Pcs
        /\ {"finished", "fail_queued"} \in SUBSET Pcs
        /\ (IF pc[x] \in {"load", "upload"} THEN {"record_failure"} ELSE Left) \in SUBSET Pcs
    BY DEF Left, Pcs, DbPc, WorkerDbPc, ClaimedPc
  <2> QED BY <2>1, ReadingHops
<1>2. pc[x] # "idle"
  BY DEF Load, Upload, Read, Reread, Ack, PendingRollback, DbFault, AtDb, DbPc,
         WorkerDbPc, ClaimedPc
<1>3. uploads' \in [Pubs -> Nat]
  BY DEF TypeOK, Load, Upload, Read, Reread, Ack, PendingRollback, DbFault
<1>4. /\ UNCHANGED <<row, queue, now, clientCrashes, workerCrashes, redeliveries>>
      /\ faults' \in 0..MaxFaults
  BY DEF TypeOK, Load, Upload, Read, Reread, Ack, PendingRollback, DbFault, Quiet, envVars
<1> QED BY <1>1, <1>2, <1>3, <1>4, HopTypes DEF TypeOK

\* A request, a delivery and a dispatch.
LEMMA BeginTyped ==
  ASSUME TypeOK, NEW c \in Clients, NEW p \in Pubs, EnqueueRead(c, p) \/ PublishRead(c, p)
  PROVE  TypeOK'
<1>1. PICK point \in {"enqueue_claim", "publish_claim"}, schedule \in Times :
        Begin(c, p, point, schedule)
  BY DEF EnqueueRead, PublishRead, Times
<1>2. point \in Pcs /\ "open" \in Sessions /\ c \in Procs
  BY DEF Pcs, DbPc, Sessions, Procs
<1> QED BY <1>1, <1>2 DEF Begin, TypeOK, envVars

LEMMA MessageTypes ==
  ASSUME TypeOK, NEW m \in Message
  PROVE  /\ Accept(m) => queue' \in [Message -> Nat]
         /\ queue[m] > 0 => [queue EXCEPT ![m] = @ - 1] \in [Message -> Nat]
  BY DEF TypeOK, Accept

LEMMA HeldMessages ==
  ASSUME TypeOK, NEW x \in Procs, pc[x] # "idle"
  PROVE  SentMessage(x) \in Message /\ HeldMessage(x) \in Message
  BY DEF TypeOK, SentMessage, HeldMessage, Message

LEMMA SendTyped ==
  ASSUME TypeOK, NEW c \in Clients, Send(c)
  PROVE  TypeOK'
<1>0. c \in Procs /\ pc[c] # "idle" /\ "send_failed" \in Pcs /\ Left \subseteq Pcs
  BY DEF Send, Procs, Pcs, DbPc, WorkerDbPc, ClaimedPc, Left
<1>1. SentMessage(c) \in Message
  BY <1>0, HeldMessages
<1>2. queue' \in [Message -> Nat]
  BY <1>1, MessageTypes DEF Send, TypeOK
<1>3. \E S \in SUBSET Pcs : Hop(c, S)
  <2>1. Leave(c) => Hop(c, Left)
    BY <1>0, LeavingHops
  <2>2. GoTo(c, "send_failed", sess[c]) => Hop(c, {"send_failed"})
    BY <1>0 DEF GoTo, Hop, TypeOK
  <2> QED BY <1>0, <2>1, <2>2 DEF Send
<1> QED BY <1>0, <1>2, <1>3, HopTypes DEF TypeOK, Send, envVars

LEMMA DeliverTyped ==
  ASSUME TypeOK, NEW w \in Workers, NEW m \in Message, Deliver(w, m)
  PROVE  TypeOK'
<1>1. w \in Procs /\ "read" \in Pcs /\ m.pub \in Pubs /\ m.eta \in Times
  BY DEF Procs, Pcs, DbPc, WorkerDbPc, Message
<1>2. queue' \in [Message -> Nat]
  BY MessageTypes DEF Deliver
<1> QED BY <1>1, <1>2 DEF Deliver, TypeOK, envVars

LEMMA CrashTyped ==
  ASSUME TypeOK, NEW x \in Procs, ClientCrash(x) \/ WorkerCrash(x)
  PROVE  TypeOK'
<1>0. pc[x] # "idle" /\ Hop(x, Left) /\ Left \in SUBSET Pcs
  BY LeavingHops DEF ClientCrash, WorkerCrash, Left, Pcs, DbPc, WorkerDbPc
<1>1. queue' \in [Message -> Nat]
  BY <1>0, HeldMessages, MessageTypes DEF ClientCrash, WorkerCrash, TypeOK
<1> QED BY <1>0, <1>1, HopTypes DEF ClientCrash, WorkerCrash, TypeOK

LEMMA EnvironmentTyped ==
  ASSUME TypeOK,
         \/ \E p \in Pubs : Create(p)
         \/ \E m \in Message : Redeliver(m)
         \/ Tick
  PROVE  TypeOK'
<1>1. CASE \E p \in Pubs : Create(p)
  <2>1. PICK p \in Pubs : Create(p)
    BY <1>1
  <2>2. [row[p] EXCEPT !.status = "PENDING"] \in Row
    BY DEF TypeOK, Row, Statuses
  <2>3. row' \in [Pubs -> Row]
    BY <2>1, <2>2 DEF Create, TypeOK
  <2> QED BY <2>1, <2>3 DEF Create, TypeOK, procVars, envVars
<1>2. CASE \E m \in Message : Redeliver(m)
  BY <1>2, MessageTypes DEF Redeliver, TypeOK, procVars
<1>3. CASE Tick
  BY <1>3 DEF Tick, TypeOK, Times, procVars, envVars
<1> QED BY <1>1, <1>2, <1>3
(* Type correctness: every column, message and control point stays in range, *)
(* for any number of handlers and workers and any budget of faults.          *)
THEOREM TypeInvariant == Spec => []TypeOK
<1>1. Init => TypeOK
  BY InitTypes
<1>2. ASSUME TypeOK, [Next]_vars PROVE TypeOK'
  <2>0. Clients \subseteq Procs /\ Workers \subseteq Procs
    BY DEF Procs
  <2>1. CASE UNCHANGED vars
    <3>1. /\ UNCHANGED <<row, uploads, queue, now>>
          /\ UNCHANGED <<pc, cur, eta, sess>>
          /\ UNCHANGED <<faults, clientCrashes, workerCrashes, redeliveries>>
      BY <2>1 DEF vars, procVars, envVars
    <3> QED BY <1>2, <3>1 DEF TypeOK
  <2>2. ASSUME NEW c \in Clients, NEW p \in Pubs, EnqueueRead(c, p) \/ PublishRead(c, p)
        PROVE TypeOK'
    BY <1>2, <2>2, BeginTyped
  <2>3. ASSUME NEW c \in Clients, ClientStep(c) PROVE TypeOK'
    <3>1. CASE Send(c)
      BY <1>2, <3>1, SendTyped
    <3>2. CASE ~Send(c)
      BY <1>2, <2>0, <2>3, <3>2, TransitionsTyped, ReadingTyped DEF ClientStep, ClaimedStep
    <3> QED BY <3>1, <3>2
  <2>4. ASSUME NEW w \in Workers, WorkerStep(w) PROVE TypeOK'
    <3>1. CASE \E m \in Message : Deliver(w, m)
      BY <1>2, <3>1, DeliverTyped
    <3>2. CASE ~\E m \in Message : Deliver(w, m)
      BY <1>2, <2>0, <2>4, <3>2, TransitionsTyped, ReadingTyped DEF WorkerStep, ClaimedStep
    <3> QED BY <3>1, <3>2
  <2>5. CASE Fault
    BY <1>2, <2>0, <2>5, ReadingTyped, CrashTyped, EnvironmentTyped DEF Fault
  <2>6. CASE (\E p \in Pubs : Create(p)) \/ Tick
    BY <1>2, <2>6, EnvironmentTyped
  <2> QED BY <1>2, <2>1, <2>2, <2>3, <2>4, <2>5, <2>6 DEF Next
<1> QED BY <1>1, <1>2, PTL DEF Spec

-----------------------------------------------------------------------------
(* At most one upload.                                                     *)

\* A process that moves without touching the table keeps at most the claim it had.
LEMMA HopKeepsClaim ==
  ASSUME TypeOK, ClaimInv, NEW x \in Procs, NEW S, Hop(x, S),
         \/ S \cap ClaimedPc = {}
         \/ pc[x] \in ClaimedPc /\ S = {"record_failure"},
         UNCHANGED <<row, uploads>>
  PROVE  ClaimInv'
  BY DEF TypeOK, ClaimInv, UnclaimedUntilStarted, ClaimantOwnsUpload, AtMostOneUpload,
         OneClaimant, PublishedIsUploaded, Claimant, Hop, ClaimedPc

(* A process that gives its claim up, or had none, may fail a row in flight or *)
(* queue a pending one: neither gives anybody a claim.                         *)
LEMMA FailKeepsClaim ==
  ASSUME TypeOK, ClaimInv, NEW x \in Procs, pc[x] # "idle",
         NEW from \in {"QUEUED", "PUBLISHING"}, NEW code \in ErrorCodes,
         code = "queue" => from = "QUEUED",
         Write(x, from, FailedRow(x, code)),
         NEW S, Hop(x, S), S \cap ClaimedPc = {}, UNCHANGED uploads
  PROVE  ClaimInv'
<1>0. cur[x] \in Pubs /\ row[cur[x]] \in Row
  BY DEF TypeOK
<1>1. \A p \in Pubs : /\ row'[p].started = row[p].started
                      /\ row'[p].external = row[p].external
                      /\ \/ row'[p] = row[p]
                         \/ /\ p = cur[x] /\ row[p].status = from
                            /\ row'[p].status = "FAILED" /\ row'[p].error = code
  BY <1>0 DEF Write, Matches, FailedRow, Current, TypeOK, Row
<1>2. UnclaimedUntilStarted'
  BY <1>1 DEF ClaimInv, UnclaimedUntilStarted, ErrorCodes
<1>3. PublishedIsUploaded'
  BY <1>1 DEF ClaimInv, PublishedIsUploaded
<1>4. ClaimantOwnsUpload' /\ OneClaimant'
  BY <1>1 DEF TypeOK, ClaimInv, ClaimantOwnsUpload, OneClaimant, Claimant, Hop, ClaimedPc
<1>5. AtMostOneUpload'
  BY DEF ClaimInv, AtMostOneUpload
<1> QED BY <1>2, <1>3, <1>4, <1>5 DEF ClaimInv

LEMMA QueueKeepsClaim ==
  ASSUME TypeOK, ClaimInv, NEW x \in Procs, EnqueueClaim(x)
  PROVE  ClaimInv'
<1>0. pc[x] # "idle" /\ cur[x] \in Pubs /\ row[cur[x]] \in Row /\ eta[x] \in Times
  BY DEF TypeOK, EnqueueClaim, AtDb
<1>1. \A p \in Pubs : /\ row'[p].started = row[p].started
                      /\ row'[p].external = row[p].external
                      /\ \/ row'[p] = row[p]
                         \/ /\ p = cur[x] /\ row[p].status = "PENDING"
                            /\ row'[p].status = "QUEUED" /\ row'[p].error = "none"
  BY <1>0 DEF EnqueueClaim, Write, Matches, QueuedRow, Current, TypeOK, Row
<1>2. Hop(x, Left \cup {"send"}) /\ UNCHANGED uploads
  BY TransitionHops DEF EnqueueClaim
<1>3. UnclaimedUntilStarted' /\ PublishedIsUploaded'
  BY <1>1, <1>2 DEF ClaimInv, UnclaimedUntilStarted, PublishedIsUploaded
<1>4. ClaimantOwnsUpload' /\ OneClaimant'
  BY <1>0, <1>1, <1>2 DEF TypeOK, ClaimInv, ClaimantOwnsUpload, OneClaimant, Claimant, Hop,
                          ClaimedPc, Left
<1>5. AtMostOneUpload'
  BY <1>2 DEF ClaimInv, AtMostOneUpload
<1> QED BY <1>3, <1>4, <1>5 DEF ClaimInv

(* The one transition that gives a claim: the row was never started, so no    *)
(* other process can be inside _publish_claimed.                              *)
LEMMA ClaimKeepsClaim ==
  ASSUME TypeOK, ClaimInv, NEW x \in Procs, PublishClaim(x) \/ Claim(x)
  PROVE  ClaimInv'
<1>0. pc[x] \in {"publish_claim", "claim"} /\ cur[x] \in Pubs /\ row[cur[x]] \in Row
  BY DEF TypeOK, PublishClaim, Claim, AtDb
<1>1. PICK from \in {"PENDING", "QUEUED"} :
        /\ Write(x, from, ClaimedRow(x))
        /\ UNCHANGED uploads
        /\ Hop(x, Left \cup {"load", "reread"})
        /\ pc'[x] = "load" => Matches(x, from)
  <2>1. ASSUME PublishClaim(x)
        PROVE  /\ Hop(x, Left \cup {"load", "reread"})
               /\ pc'[x] = "load" => Matches(x, "PENDING")
    <3>1. Hop(x, Left \cup {"load", "reread"})
      BY <2>1, TransitionHops DEF Hop
    <3>2. ASSUME ~Matches(x, "PENDING") PROVE pc'[x] # "load"
      <4>1. Hop(x, Left)
        BY <1>0, <2>1, <3>2, LeavingHops, LostAnswerHops DEF PublishClaim, AtDb
      <4> QED BY <4>1 DEF Hop, Left, TypeOK
    <3> QED BY <3>1, <3>2
  <2>2. ASSUME Claim(x)
        PROVE  /\ Hop(x, Left \cup {"load", "reread"})
               /\ pc'[x] = "load" => Matches(x, "QUEUED")
    <3>1. Hop(x, Left \cup {"load", "reread"})
      BY <2>2, TransitionHops
    <3>2. ASSUME ~Matches(x, "QUEUED") PROVE pc'[x] # "load"
      <4>1. CASE LoseAnswer(x, "QUEUED")
        <5>1. Hop(x, Left)
          BY <1>0, <4>1, LostAnswerHops
        <5> QED BY <5>1 DEF Hop, Left, TypeOK
      <4>2. CASE GoTo(x, "reread", "closed")
        BY <4>2 DEF GoTo, TypeOK
      <4> QED BY <2>2, <3>2, <4>1, <4>2 DEF Claim
    <3> QED BY <3>1, <3>2
  <2> QED BY <2>1, <2>2 DEF PublishClaim, Claim
<1>2. \A p \in Pubs : \/ row'[p] = row[p]
                      \/ /\ p = cur[x] /\ row[p].status = from
                         /\ row'[p].status = "PUBLISHING" /\ row'[p].started
                         /\ row'[p].external = row[p].external
                         /\ row'[p].error = row[p].error
  BY <1>0, <1>1 DEF Write, Matches, ClaimedRow, Current, TypeOK, Row
<1>3. Matches(x, from) => row'[cur[x]].started
  BY <1>0, <1>1 DEF Write, ClaimedRow, Current, TypeOK, Row
<1>4. Matches(x, from) => /\ ~row[cur[x]].started /\ uploads[cur[x]] = 0
                          /\ \A y \in Procs : ~Claimant(y, cur[x])
  BY <1>0, <1>1 DEF Matches, ClaimInv, UnclaimedUntilStarted, ClaimantOwnsUpload, Claimant
<1>5. UnclaimedUntilStarted'
  BY <1>1, <1>2 DEF ClaimInv, UnclaimedUntilStarted
<1>6. PublishedIsUploaded'
  BY <1>1, <1>2 DEF ClaimInv, PublishedIsUploaded
<1>7. ClaimantOwnsUpload'
  BY <1>0, <1>1, <1>2, <1>3, <1>4
     DEF TypeOK, ClaimInv, ClaimantOwnsUpload, Hop, ClaimedPc, Left
<1>8. OneClaimant'
  BY <1>0, <1>1, <1>4 DEF TypeOK, ClaimInv, OneClaimant, Claimant, Hop, ClaimedPc, Left
<1>9. AtMostOneUpload'
  BY <1>1 DEF ClaimInv, AtMostOneUpload
<1> QED BY <1>5, <1>6, <1>7, <1>8, <1>9 DEF ClaimInv

LEMMA UploadKeepsClaim ==
  ASSUME TypeOK, ClaimInv, NEW x \in Procs, Upload(x)
  PROVE  ClaimInv'
<1>0. /\ pc[x] = "upload" /\ cur[x] \in Pubs /\ uploads[cur[x]] = 0
      /\ row[cur[x]].started /\ row[cur[x]].status # "PUBLISHED"
      /\ UNCHANGED row
  BY DEF TypeOK, Upload, AtDb, ClaimInv, ClaimantOwnsUpload, ClaimedPc, PublishedIsUploaded
<1>1. CASE UNCHANGED uploads /\ GoTo(x, "record_failure", sess[x])
  <2>1. Hop(x, {"record_failure"})
    BY <1>1 DEF GoTo, Hop, TypeOK
  <2>2. pc[x] \in ClaimedPc
    BY <1>0 DEF ClaimedPc
  <2> QED BY <1>0, <1>1, <2>1, <2>2, HopKeepsClaim
<1>2. CASE /\ uploads' = [uploads EXCEPT ![cur[x]] = @ + 1]
           /\ \E point \in {"record_success", "record_failure"} : GoTo(x, point, sess[x])
  <2>1. \A p \in Pubs : uploads'[p] = IF p = cur[x] THEN 1 ELSE uploads[p]
    BY <1>0, <1>2 DEF TypeOK
  <2>2. \A y \in Procs : y # x /\ pc[y] \in ClaimedPc => cur[y] # cur[x]
    BY <1>0 DEF ClaimInv, OneClaimant, Claimant, ClaimedPc
  <2>3. UnclaimedUntilStarted' /\ AtMostOneUpload' /\ PublishedIsUploaded'
    BY <1>0, <2>1 DEF ClaimInv, UnclaimedUntilStarted, AtMostOneUpload, PublishedIsUploaded
  <2>4. ClaimantOwnsUpload' /\ OneClaimant'
    BY <1>0, <1>2, <2>1, <2>2
       DEF TypeOK, ClaimInv, ClaimantOwnsUpload, OneClaimant, Claimant, GoTo, ClaimedPc, Pcs
  <2> QED BY <2>3, <2>4 DEF ClaimInv
<1> QED BY <1>1, <1>2 DEF Upload

LEMMA SuccessKeepsClaim ==
  ASSUME TypeOK, ClaimInv, NEW x \in Procs, RecordSuccess(x)
  PROVE  ClaimInv'
<1>0. /\ pc[x] = "record_success" /\ cur[x] \in Pubs /\ row[cur[x]] \in Row
      /\ uploads[cur[x]] = 1 /\ UNCHANGED uploads /\ Hop(x, Left)
  BY TransitionHops DEF TypeOK, RecordSuccess, AtDb, ClaimInv, ClaimantOwnsUpload
<1>1. \A p \in Pubs : /\ row'[p].started = row[p].started
                      /\ \/ row'[p] = row[p]
                         \/ /\ p = cur[x] /\ row[p].status = "PUBLISHING"
                            /\ row'[p].status = "PUBLISHED" /\ row'[p].error = "none"
                            /\ row'[p].external
  BY <1>0 DEF RecordSuccess, Write, Matches, PublishedRow, Current, TypeOK, Row
<1>2. UnclaimedUntilStarted' /\ PublishedIsUploaded' /\ AtMostOneUpload'
  BY <1>0, <1>1 DEF ClaimInv, UnclaimedUntilStarted, PublishedIsUploaded, AtMostOneUpload
<1>3. ClaimantOwnsUpload' /\ OneClaimant'
  BY <1>0, <1>1 DEF TypeOK, ClaimInv, ClaimantOwnsUpload, OneClaimant, Claimant, Hop,
                    ClaimedPc, Left
<1> QED BY <1>2, <1>3 DEF ClaimInv
\* The steps of one process between two transitions.
LEMMA ReadingKeepsClaim ==
  ASSUME TypeOK, ClaimInv, NEW x \in Procs,
         Load(x) \/ Read(x) \/ Reread(x) \/ Ack(x) \/ PendingRollback(x) \/ DbFault(x)
  PROVE  ClaimInv'
<1>0. UNCHANGED <<row, uploads>>
  BY DEF Load, Read, Reread, Ack, PendingRollback, DbFault
<1>1. CASE Load(x)
  <2>1. PICK point \in {"upload", "record_failure"} : GoTo(x, point, sess[x])
    BY <1>1 DEF Load
  <2>2. pc[x] = "load" /\ cur' = cur
    BY <1>1, <2>1 DEF Load, AtDb, GoTo
  <2> QED BY <1>0, <2>1, <2>2
          DEF TypeOK, ClaimInv, UnclaimedUntilStarted, ClaimantOwnsUpload, AtMostOneUpload,
              OneClaimant, PublishedIsUploaded, Claimant, GoTo, ClaimedPc
<1>2. CASE Read(x) \/ Reread(x) \/ Ack(x)
  <2>1. \E S : Hop(x, S) /\ S \cap ClaimedPc = {}
    <3>1. /\ {"finished", "claim", "fail_queued"} \cap ClaimedPc = {}
          /\ {"finished", "fail_queued"} \cap ClaimedPc = {}
          /\ Left \cap ClaimedPc = {}
      BY DEF ClaimedPc, Left
    <3> QED BY <1>2, <3>1, ReadingHops
  <2> QED BY <1>0, <2>1, HopKeepsClaim
<1>3. CASE PendingRollback(x) \/ DbFault(x)
  <2>1. CASE pc[x] \in {"load", "upload"}
    <3>1. Hop(x, {"record_failure"}) /\ pc[x] \in ClaimedPc
      BY <1>3, <2>1, ReadingHops DEF ClaimedPc
    <3> QED BY <1>0, <3>1, HopKeepsClaim
  <2>2. CASE pc[x] \notin {"load", "upload"}
    <3>1. Hop(x, Left) /\ Left \cap ClaimedPc = {}
      BY <1>3, <2>2, ReadingHops DEF ClaimedPc, Left
    <3> QED BY <1>0, <3>1, HopKeepsClaim
  <2> QED BY <2>1, <2>2
<1> QED BY <1>1, <1>2, <1>3

LEMMA FailuresKeepClaim ==
  ASSUME TypeOK, ClaimInv, NEW x \in Procs,
         SendFailed(x) \/ RecordFailure(x) \/ FailQueued(x) \/ FailPublishing(x)
  PROVE  ClaimInv'
<1>0. pc[x] # "idle" /\ UNCHANGED uploads
  BY DEF SendFailed, RecordFailure, FailQueued, FailPublishing, AtDb
<1>1. /\ Left \cap ClaimedPc = {}
      /\ (Left \cup {"fail_publishing"}) \cap ClaimedPc = {}
  BY DEF Left, ClaimedPc
<1>2. \E S : Hop(x, S) /\ S \cap ClaimedPc = {}
  BY <1>1, TransitionHops
<1>3. \E from \in {"QUEUED", "PUBLISHING"}, code \in ErrorCodes :
        Write(x, from, FailedRow(x, code)) /\ (code = "queue" => from = "QUEUED")
  BY DEF SendFailed, RecordFailure, FailQueued, FailPublishing, ErrorCodes
<1> QED BY <1>0, <1>2, <1>3, FailKeepsClaim

\* Steps that start or drop a process's work, or belong to the environment.
LEMMA OthersKeepClaim ==
  ASSUME TypeOK, ClaimInv,
         \/ \E p \in Pubs : Create(p)
         \/ \E c \in Clients, p \in Pubs : EnqueueRead(c, p) \/ PublishRead(c, p)
         \/ \E c \in Clients : Send(c) \/ ClientCrash(c)
         \/ \E w \in Workers : WorkerCrash(w) \/ \E m \in Message : Deliver(w, m)
         \/ \E m \in Message : Redeliver(m)
         \/ Tick
         \/ UNCHANGED vars
  PROVE  ClaimInv'
<1>0. Clients \subseteq Procs /\ Workers \subseteq Procs
  BY DEF Procs
<1>1. ASSUME NEW p \in Pubs, Create(p) PROVE ClaimInv'
  <2>1. \A q \in Pubs : /\ row'[q].started = row[q].started
                        /\ row'[q].external = row[q].external
                        /\ row'[q].error = row[q].error
                        /\ \/ row'[q] = row[q]
                           \/ row[q].status = "absent" /\ row'[q].status = "PENDING"
    BY <1>1 DEF Create, TypeOK, Row
  <2>2. UNCHANGED <<pc, cur, uploads>>
    BY <1>1 DEF Create, procVars
  <2>3. UnclaimedUntilStarted' /\ PublishedIsUploaded' /\ AtMostOneUpload'
    BY <2>1, <2>2 DEF ClaimInv, UnclaimedUntilStarted, PublishedIsUploaded, AtMostOneUpload
  <2>4. ClaimantOwnsUpload' /\ OneClaimant'
    BY <2>1, <2>2 DEF TypeOK, ClaimInv, ClaimantOwnsUpload, OneClaimant, Claimant, ClaimedPc
  <2> QED BY <2>3, <2>4 DEF ClaimInv
<1>2. ASSUME NEW x \in Procs, NEW point \in Pcs \ ClaimedPc, NEW p \in Pubs,
             pc' = [pc EXCEPT ![x] = point], cur' = [cur EXCEPT ![x] = p],
             UNCHANGED <<row, uploads>>
      PROVE ClaimInv'
  BY <1>2 DEF TypeOK, ClaimInv, UnclaimedUntilStarted, ClaimantOwnsUpload, AtMostOneUpload,
              OneClaimant, PublishedIsUploaded, Claimant, ClaimedPc
<1>3. ASSUME NEW c \in Clients, NEW p \in Pubs, EnqueueRead(c, p) \/ PublishRead(c, p)
      PROVE ClaimInv'
  <2>1. "enqueue_claim" \in Pcs \ ClaimedPc /\ "publish_claim" \in Pcs \ ClaimedPc
    BY DEF Pcs, DbPc, ClaimedPc
  <2> QED BY <1>0, <1>2, <1>3, <2>1 DEF EnqueueRead, PublishRead, Begin
<1>4. ASSUME NEW w \in Workers, NEW m \in Message, Deliver(w, m) PROVE ClaimInv'
  <2>1. "read" \in Pcs \ ClaimedPc /\ m.pub \in Pubs
    BY DEF Pcs, DbPc, WorkerDbPc, ClaimedPc, Message
  <2> QED BY <1>0, <1>2, <1>4, <2>1 DEF Deliver
<1>5. ASSUME NEW x \in Procs, Send(x) \/ ClientCrash(x) \/ WorkerCrash(x)
      PROVE ClaimInv'
  <2>1. UNCHANGED <<row, uploads>>
    BY <1>5 DEF Send, ClientCrash, WorkerCrash
  <2>2. Hop(x, Left \cup {"send_failed"})
    <3>1. Hop(x, Left) => Hop(x, Left \cup {"send_failed"})
      BY DEF Hop
    <3>2. GoTo(x, "send_failed", sess[x]) => Hop(x, Left \cup {"send_failed"})
      <4>1. sess[x] \in Sessions /\ "send_failed" \in Left \cup {"send_failed"}
        BY DEF TypeOK
      <4> QED BY <4>1 DEF GoTo, Hop
    <3> QED BY <1>5, <3>1, <3>2, LeavingHops DEF Send, ClientCrash, WorkerCrash
  <2>3. (Left \cup {"send_failed"}) \cap ClaimedPc = {}
    BY DEF Left, ClaimedPc
  <2> QED BY <2>1, <2>2, <2>3, HopKeepsClaim
<1>6. ASSUME UNCHANGED <<row, uploads, pc, cur>> PROVE ClaimInv'
  BY <1>6 DEF ClaimInv, UnclaimedUntilStarted, ClaimantOwnsUpload, AtMostOneUpload,
              OneClaimant, PublishedIsUploaded, Claimant, Current
<1>7. ASSUME (\E m \in Message : Redeliver(m)) \/ Tick \/ UNCHANGED vars PROVE ClaimInv'
  BY <1>6, <1>7 DEF Redeliver, Tick, vars, procVars
<1> QED BY <1>0, <1>1, <1>3, <1>4, <1>5, <1>7
LEMMA InitClaim == Init => ClaimInv
  BY DEF Init, NoRow, ClaimInv, UnclaimedUntilStarted, ClaimantOwnsUpload, AtMostOneUpload,
         OneClaimant, PublishedIsUploaded, Claimant, ClaimedPc

(* The claim invariant is inductive: every step of every process, and every   *)
(* fault, keeps "never uploaded before the claim, once after it, one owner".  *)
THEOREM ClaimInvariant == Spec => []ClaimInv
<1>1. Init => ClaimInv
  BY InitClaim
<1>2. ASSUME TypeOK, ClaimInv, [Next]_vars PROVE ClaimInv'
  <2>0. Clients \subseteq Procs /\ Workers \subseteq Procs
    BY DEF Procs
  <2>1. ASSUME NEW x \in Procs, ClaimedStep(x) \/ PendingRollback(x) PROVE ClaimInv'
    BY <1>2, <2>1, ReadingKeepsClaim, UploadKeepsClaim, FailuresKeepClaim, SuccessKeepsClaim
       DEF ClaimedStep
  <2>2. ASSUME NEW c \in Clients, ClientStep(c) PROVE ClaimInv'
    BY <1>2, <2>0, <2>1, <2>2, QueueKeepsClaim, OthersKeepClaim, FailuresKeepClaim,
       ClaimKeepsClaim DEF ClientStep
  <2>3. ASSUME NEW w \in Workers, WorkerStep(w) PROVE ClaimInv'
    BY <1>2, <2>0, <2>1, <2>3, OthersKeepClaim, ReadingKeepsClaim, FailuresKeepClaim,
       ClaimKeepsClaim DEF WorkerStep
  <2>4. CASE Fault
    BY <1>2, <2>4, ReadingKeepsClaim, OthersKeepClaim DEF Fault
  <2> QED BY <1>2, <2>2, <2>3, <2>4, OthersKeepClaim DEF Next
<1> QED BY <1>1, <1>2, TypeInvariant, PTL DEF Spec

(* publish_queued's "at most once", for every number of workers, redeliveries *)
(* and faults: the platform receives a publication's video at most once.      *)
THEOREM UploadsAtMostOnce == Spec => []AtMostOneUpload
<1>1. ClaimInv => AtMostOneUpload
  BY DEF ClaimInv
<1> QED BY <1>1, ClaimInvariant, PTL

(* _publish_claimed is never inside two processes for the same publication.   *)
THEOREM ClaimIsExclusive == Spec => []OneClaimant
<1>1. ClaimInv => OneClaimant
  BY DEF ClaimInv
<1> QED BY <1>1, ClaimInvariant, PTL

(* A row shown as PUBLISHED has its video on the platform and no error.       *)
THEOREM PublishedMeansUploaded == Spec => []PublishedIsUploaded
<1>1. ClaimInv => PublishedIsUploaded
  BY DEF ClaimInv
<1> QED BY <1>1, ClaimInvariant, PTL

(* A publication whose enqueue was compensated with PUBLISHING_QUEUE_ERROR was *)
(* not uploaded and nobody is about to, even if its task reached the broker.   *)
THEOREM QueueErrorNotUploaded == Spec => []QueueErrorMeansNotUploaded
<1>1. ClaimInv => QueueErrorMeansNotUploaded
  BY DEF ClaimInv, UnclaimedUntilStarted, ClaimantOwnsUpload, QueueErrorMeansNotUploaded,
         Claimant
<1> QED BY <1>1, ClaimInvariant, PTL
-----------------------------------------------------------------------------
(* The lifecycle: every step is an edge of one row, one upload, or neither. *)

Edge(p, new) ==
  \/ row[p].status = "absent" /\ new.status = "PENDING" /\ new.started = row[p].started
  \/ row[p].status = "PENDING" /\ new.status = "QUEUED" /\ new.started = row[p].started
  \/ row[p].status \in {"PENDING", "QUEUED"} /\ new.status = "PUBLISHING" /\ new.started
  \/ /\ row[p].status \in {"QUEUED", "PUBLISHING"}
     /\ new.status = "FAILED" /\ new.started = row[p].started
  \/ /\ row[p].status = "PUBLISHING" /\ uploads[p] = 1
     /\ new.status = "PUBLISHED" /\ new.started = row[p].started

RowEdge ==
  /\ UNCHANGED uploads
  /\ \E p \in Pubs, new \in Row : Edge(p, new) /\ row' = [row EXCEPT ![p] = new]

FirstUpload ==
  /\ UNCHANGED row
  /\ \E p \in Pubs : /\ row[p].started /\ uploads[p] = 0
                     /\ uploads' = [uploads EXCEPT ![p] = 1]

Effect == UNCHANGED <<row, uploads>> \/ RowEdge \/ FirstUpload

\* A guarded write is an edge or nothing.
LEMMA WriteEffect ==
  ASSUME TypeOK, NEW x \in Procs, pc[x] # "idle", NEW from, NEW new \in Row,
         Write(x, from, new), UNCHANGED uploads,
         Matches(x, from) => Edge(cur[x], new)
  PROVE  Effect
<1>1. cur[x] \in Pubs
  BY DEF TypeOK
<1>2. CASE Matches(x, from)
  BY <1>1, <1>2 DEF Write, Effect, RowEdge
<1>3. CASE ~Matches(x, from)
  BY <1>3 DEF Write, Effect
<1> QED BY <1>2, <1>3

LEMMA TransitionEffect ==
  ASSUME TypeOK, ClaimInv, NEW x \in Procs,
         EnqueueClaim(x) \/ SendFailed(x) \/ PublishClaim(x) \/ RecordFailure(x)
           \/ RecordSuccess(x) \/ Claim(x) \/ FailQueued(x) \/ FailPublishing(x)
  PROVE  Effect
<1>0. /\ pc[x] # "idle" /\ UNCHANGED uploads
      /\ cur[x] \in Pubs /\ row[cur[x]] \in Row
  BY DEF TypeOK, EnqueueClaim, SendFailed, PublishClaim, RecordFailure, RecordSuccess,
         Claim, FailQueued, FailPublishing, AtDb
<1>1. /\ QueuedRow(x) \in Row /\ ClaimedRow(x) \in Row /\ PublishedRow(x) \in Row
      /\ FailedRow(x, "queue") \in Row /\ FailedRow(x, "provider") \in Row
      /\ FailedRow(x, "worker") \in Row
  BY <1>0, NewRows DEF ErrorCodes
<1>2. /\ QueuedRow(x).status = "QUEUED" /\ QueuedRow(x).started = row[cur[x]].started
      /\ ClaimedRow(x).status = "PUBLISHING" /\ ClaimedRow(x).started
      /\ PublishedRow(x).status = "PUBLISHED"
      /\ PublishedRow(x).started = row[cur[x]].started
  BY <1>0 DEF Row, Current, QueuedRow, ClaimedRow, PublishedRow
<1>3. \A code : /\ FailedRow(x, code).status = "FAILED"
                /\ FailedRow(x, code).started = row[cur[x]].started
  BY <1>0 DEF Row, Current, FailedRow
<1>4. CASE EnqueueClaim(x)
  BY <1>0, <1>1, <1>2, <1>4, WriteEffect DEF EnqueueClaim, Matches, Edge
<1>5. CASE PublishClaim(x) \/ Claim(x)
  BY <1>0, <1>1, <1>2, <1>5, WriteEffect DEF PublishClaim, Claim, Matches, Edge
<1>6. CASE SendFailed(x) \/ RecordFailure(x) \/ FailQueued(x) \/ FailPublishing(x)
  BY <1>0, <1>1, <1>3, <1>6, WriteEffect
     DEF SendFailed, RecordFailure, FailQueued, FailPublishing, Matches, Edge
<1>7. CASE RecordSuccess(x)
  <2>1. uploads[cur[x]] = 1
    BY <1>7 DEF RecordSuccess, AtDb, ClaimInv, ClaimantOwnsUpload
  <2> QED BY <1>0, <1>1, <1>2, <1>7, <2>1, WriteEffect DEF RecordSuccess, Matches, Edge
<1> QED BY <1>4, <1>5, <1>6, <1>7

LEMMA OtherEffect ==
  ASSUME TypeOK, ClaimInv, NEW x \in Procs,
         Load(x) \/ Upload(x) \/ Read(x) \/ Reread(x) \/ Ack(x) \/ PendingRollback(x)
           \/ DbFault(x) \/ Send(x) \/ ClientCrash(x) \/ WorkerCrash(x)
  PROVE  Effect
<1>1. CASE Upload(x)
  <2>1. /\ pc[x] = "upload" /\ cur[x] \in Pubs /\ uploads[cur[x]] = 0
        /\ row[cur[x]].started /\ UNCHANGED row
    BY <1>1 DEF Upload, AtDb, TypeOK, ClaimInv, ClaimantOwnsUpload, ClaimedPc
  <2>2. [uploads EXCEPT ![cur[x]] = @ + 1] = [uploads EXCEPT ![cur[x]] = 1]
    BY <2>1
  <2> QED BY <1>1, <2>1, <2>2 DEF Upload, Effect, FirstUpload
<1>2. CASE ~Upload(x)
  BY <1>2 DEF Load, Read, Reread, Ack, PendingRollback, DbFault, Send, ClientCrash,
              WorkerCrash, Effect
<1> QED BY <1>1, <1>2

LEMMA NextEffect ==
  ASSUME TypeOK, ClaimInv, [Next]_vars
  PROVE  Effect
<1>0. Clients \subseteq Procs /\ Workers \subseteq Procs
  BY DEF Procs
<1>1. ASSUME NEW p \in Pubs, Create(p) PROVE Effect
  <2>1. /\ [row[p] EXCEPT !.status = "PENDING"] \in Row
        /\ Edge(p, [row[p] EXCEPT !.status = "PENDING"])
        /\ row' = [row EXCEPT ![p] = [row[p] EXCEPT !.status = "PENDING"]]
    BY <1>1 DEF Create, TypeOK, Row, Statuses, Edge
  <2> QED BY <1>1, <2>1 DEF Create, Effect, RowEdge
<1>2. ASSUME NEW c \in Clients, NEW p \in Pubs, EnqueueRead(c, p) \/ PublishRead(c, p)
      PROVE Effect
  BY <1>2 DEF EnqueueRead, PublishRead, Begin, Effect
<1>3. ASSUME NEW x \in Procs, ClaimedStep(x) \/ PendingRollback(x) PROVE Effect
  BY <1>3, TransitionEffect, OtherEffect DEF ClaimedStep
<1>4. ASSUME NEW c \in Clients, ClientStep(c) PROVE Effect
  BY <1>0, <1>3, <1>4, TransitionEffect, OtherEffect DEF ClientStep
<1>5. ASSUME NEW w \in Workers, WorkerStep(w) PROVE Effect
  <2>1. CASE \E m \in Message : Deliver(w, m)
    BY <2>1 DEF Deliver, Effect
  <2>2. CASE ~\E m \in Message : Deliver(w, m)
    BY <1>0, <1>3, <1>5, <2>2, TransitionEffect, OtherEffect DEF WorkerStep
  <2> QED BY <2>1, <2>2
<1>6. CASE Fault
  <2>1. ASSUME NEW m \in Message, Redeliver(m) PROVE Effect
    BY <2>1 DEF Redeliver, Effect
  <2> QED BY <1>0, <1>6, <2>1, OtherEffect DEF Fault
<1>7. CASE Tick \/ UNCHANGED vars
  BY <1>7 DEF Tick, vars, Effect
<1> QED BY <1>1, <1>2, <1>4, <1>5, <1>6, <1>7 DEF Next

(* "Retry and reset transitions remain undefined": no late answer, duplicate  *)
(* delivery or worker failure changes a PUBLISHED or FAILED row.              *)
THEOREM SettledIsFinal == Spec => SettledRowsAreFinal
<1>1. ASSUME TypeOK, ClaimInv, [Next]_vars
      PROVE  [\A p \in Pubs : row[p].status \in Settled => row'[p] = row[p]]_vars
  <2>1. Effect
    BY <1>1, NextEffect
  <2>2. CASE RowEdge
    BY <1>1, <2>2 DEF RowEdge, Edge, Settled, TypeOK
  <2>3. CASE UNCHANGED row
    BY <2>3
  <2> QED BY <2>1, <2>2, <2>3 DEF Effect, FirstUpload
<1> QED BY <1>1, TypeInvariant, ClaimInvariant, PTL DEF Spec, SettledRowsAreFinal

(* Publishing implements PublicationLifecycle: whatever the processes, the    *)
(* sessions and the broker do, a publication's row and the platform move      *)
(* along the promised lifecycle.                                              *)
THEOREM ImplementsLifecycle == Spec => LifecycleSpec
<1>1. Init => Lifecycle!LInit
  BY DEF Init, NoRow, Lifecycle!LInit
<1>2. ASSUME TypeOK, ClaimInv, [Next]_vars
      PROVE  [Lifecycle!LNext]_(Lifecycle!lifecycleVars)
  <2>1. Effect
    BY <1>1, <1>2, NextEffect
  <2>2. CASE UNCHANGED <<row, uploads>>
    BY <2>2 DEF Lifecycle!lifecycleVars
  <2>3. CASE RowEdge
    <3>1. PICK p \in Pubs, new \in Row : Edge(p, new) /\ row' = [row EXCEPT ![p] = new]
      BY <2>3 DEF RowEdge
    <3> DEFINE st == [q \in Pubs |-> row[q].status]
               cl == [q \in Pubs |-> row[q].started]
    <3>2. /\ [q \in Pubs |-> row'[q].status] = [st EXCEPT ![p] = new.status]
          /\ [q \in Pubs |-> row'[q].started] = [cl EXCEPT ![p] = new.started]
          /\ new.started \in BOOLEAN /\ UNCHANGED uploads
      BY <1>2, <2>3, <3>1 DEF TypeOK, Row, RowEdge
    <3>3. new.started = row[p].started => [cl EXCEPT ![p] = new.started] = cl
      OBVIOUS
    <3> QED BY <3>1, <3>2, <3>3
            DEF Edge, Lifecycle!LNext, Lifecycle!LCreate, Lifecycle!LQueue, Lifecycle!LClaim,
                Lifecycle!LPublish, Lifecycle!LFail, Lifecycle!LMove
  <2>4. CASE FirstUpload
    BY <2>4 DEF FirstUpload, Lifecycle!LNext, Lifecycle!LUpload
  <2> QED BY <2>1, <2>2, <2>3, <2>4 DEF Effect
<1> QED BY <1>1, <1>2, TypeInvariant, ClaimInvariant, PTL
        DEF Spec, LifecycleSpec, Lifecycle!LSpec
=============================================================================
