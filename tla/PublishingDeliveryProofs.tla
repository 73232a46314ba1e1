---------------------- MODULE PublishingDeliveryProofs ----------------------
(***************************************************************************)
(* Proofs about what a queued publication can rely on: that it is not        *)
(* uploaded before its time, that the response to its upload finds its       *)
(* claim, and that somebody always has it on his agenda.  For any numbers   *)
(* of publications, handlers, workers, crashes and redeliveries.            *)
(***************************************************************************)
EXTENDS PublishingProofs

USE NoPubAssumption, ProcsAssumption, BoundsAssumption

-----------------------------------------------------------------------------
(* A step is one of one process, of which the others notice only the tables,  *)
(* or one of the environment, of which no process notices anything.          *)

Still(x) == /\ pc'[x] = pc[x] /\ cur'[x] = cur[x]
            /\ eta'[x] = eta[x] /\ sess'[x] = sess[x]

ClientActs(c) ==
  \/ \E p \in Pubs : EnqueueRead(c, p) \/ PublishRead(c, p)
  \/ ClientStep(c) \/ ClientCrash(c) \/ DbFault(c)

WorkerActs(w) == WorkerStep(w) \/ WorkerCrash(w) \/ DbFault(w)

Acts(x) == \/ x \in Clients /\ ClientActs(x)
           \/ x \in Workers /\ WorkerActs(x)

EnvironmentActs ==
  (\E p \in Pubs : Create(p)) \/ (\E m \in Message : Redeliver(m)) \/ Tick \/ UNCHANGED vars

LEMMA WhoActs ==
  ASSUME [Next]_vars
  PROVE  EnvironmentActs \/ \E x \in Procs : Acts(x)
<1>1. ASSUME NEW x \in Procs, DbFault(x) PROVE Acts(x)
  BY <1>1 DEF Procs, Acts, ClientActs, WorkerActs
<1>2. ASSUME NEW c \in Clients, ClientActs(c) PROVE c \in Procs /\ Acts(c)
  BY <1>2, Zenon DEF Procs, Acts
<1>3. ASSUME NEW w \in Workers, WorkerActs(w) PROVE w \in Procs /\ Acts(w)
  BY <1>3, Zenon DEF Procs, Acts
<1>4. CASE Fault
  BY <1>1, <1>2, <1>3, <1>4, Zenon DEF Fault, EnvironmentActs, ClientActs, WorkerActs
<1>5. CASE Next /\ ~Fault
  BY <1>2, <1>3, <1>5, Zenon DEF Next, EnvironmentActs, ClientActs, WorkerActs
<1> QED BY <1>4, <1>5 DEF EnvironmentActs

LEMMA EnvironmentLeavesAlone ==
  ASSUME EnvironmentActs, NEW x \in Procs
  PROVE  Still(x)
  BY DEF EnvironmentActs, Create, Redeliver, Tick, vars, procVars, Still

\* One process moves, whatever it moves to.
Moves(x) == \E point, p, t, session :
  /\ pc' = [pc EXCEPT ![x] = point] /\ sess' = [sess EXCEPT ![x] = session]
  /\ cur' = cur \/ cur' = [cur EXCEPT ![x] = p]
  /\ eta' = eta \/ eta' = [eta EXCEPT ![x] = t]

LEMMA HopMoves ==
  ASSUME NEW x \in Procs, NEW S, Hop(x, S)
  PROVE  Moves(x)
<1>1. PICK point \in S, session \in Sessions :
        /\ pc' = [pc EXCEPT ![x] = point] /\ sess' = [sess EXCEPT ![x] = session]
        /\ cur' = cur \/ cur' = [cur EXCEPT ![x] = NoPub]
        /\ eta' = eta \/ eta' = [eta EXCEPT ![x] = 0]
  BY DEF Hop
<1> QED BY <1>1, Zenon DEF Moves

LEMMA OthersAreStill ==
  ASSUME TypeOK, NEW x \in Procs, Acts(x), NEW y \in Procs, y # x
  PROVE  Still(y)
<1>1. Moves(x)
  <2>1. ASSUME NEW p \in Pubs, EnqueueRead(x, p) \/ PublishRead(x, p) PROVE Moves(x)
    <3>1. PICK point, t : Begin(x, p, point, t)
      BY <2>1 DEF EnqueueRead, PublishRead
    <3> QED BY <3>1, Zenon DEF Begin, Moves
  <2>2. ASSUME NEW m \in Message, Deliver(x, m) PROVE Moves(x)
    <3>1. sess' = [sess EXCEPT ![x] = sess[x]]
      BY <2>2 DEF Deliver, TypeOK
    <3> QED BY <2>2, <3>1, Zenon DEF Deliver, Moves
  <2>3. CASE Send(x)
    <3>1. Leave(x) => Moves(x)
      BY LeavingHops, HopMoves
    <3>2. GoTo(x, "send_failed", sess[x]) => Moves(x)
      BY Zenon DEF GoTo, Moves
    <3> QED BY <2>3, <3>1, <3>2 DEF Send
  <2>4. CASE ClientCrash(x) \/ WorkerCrash(x)
    <3>1. Leave(x) => Moves(x)
      BY LeavingHops, HopMoves
    <3> QED BY <2>4, <3>1 DEF ClientCrash, WorkerCrash
  <2>5. CASE \/ EnqueueClaim(x) \/ SendFailed(x) \/ PublishClaim(x) \/ RecordFailure(x)
             \/ RecordSuccess(x) \/ Claim(x) \/ FailQueued(x) \/ FailPublishing(x)
    BY <2>5, TransitionHops, HopMoves
  <2>6. CASE \/ Load(x) \/ Upload(x) \/ Read(x) \/ Reread(x) \/ Ack(x) \/ PendingRollback(x)
             \/ DbFault(x)
    BY <2>6, ReadingHops, HopMoves
  <2> QED BY <2>1, <2>2, <2>3, <2>4, <2>5, <2>6
          DEF Acts, ClientActs, WorkerActs, ClientStep, WorkerStep, ClaimedStep
<1> QED BY <1>1 DEF Moves, Still, TypeOK

-----------------------------------------------------------------------------
(* The schedule.  A row gets its time with its first transition and keeps it;   *)
(* every message, and whoever works on one, has the same time as the row.       *)

Untimed == {"absent", "PENDING"}

Owes(p, t) == row[p].status \notin Untimed /\ row[p].scheduled = t

PendingHasNoTime == \A p \in Pubs : row[p].status \in Untimed => row[p].scheduled = 0

MessagesOnTime == \A m \in Message : queue[m] > 0 => Owes(m.pub, m.eta)

WorkersOnTime ==
  \A w \in Workers : pc[w] # "idle" => Owes(cur[w], eta[w]) /\ eta[w] <= now

SendersOnTime ==
  \A c \in Clients : pc[c] \in {"send", "send_failed"} => Owes(cur[c], eta[c])

ClaimantsOnTime ==
  \A x \in Procs : pc[x] \in ClaimedPc => row[cur[x]].scheduled <= now

ScheduleInv ==
  /\ PendingHasNoTime /\ MessagesOnTime /\ WorkersOnTime /\ SendersOnTime
  /\ ClaimantsOnTime /\ NotBeforeSchedule

\* A row that has its time keeps it, and no row loses it.
TimesStay ==
  \A p \in Pubs :
    \/ row'[p].status \in Untimed /\ row[p].status \in Untimed
       /\ row'[p].scheduled = row[p].scheduled
    \/ row'[p].status \notin Untimed
       /\ (row[p].status \notin Untimed => row'[p].scheduled = row[p].scheduled)

LEMMA WritesKeepTimes ==
  ASSUME TypeOK, NEW x \in Procs, pc[x] # "idle", NEW from, NEW new \in Row,
         Write(x, from, new), new.status \notin Untimed,
         from \in Untimed \/ new.scheduled = row[cur[x]].scheduled
  PROVE  TimesStay
<1>1. cur[x] \in Pubs
  BY DEF TypeOK
<1>2. \A p \in Pubs : \/ row'[p] = row[p]
                      \/ p = cur[x] /\ Matches(x, from) /\ row'[p] = new
  <2>1. CASE Matches(x, from)
    <3>1. row' = [row EXCEPT ![cur[x]] = new]
      BY <2>1 DEF Write
    <3> QED BY <1>1, <2>1, <3>1 DEF TypeOK
  <2>2. CASE ~Matches(x, from)
    BY <2>2, Zenon DEF Write
  <2> QED BY <2>1, <2>2
<1> QED BY <1>1, <1>2 DEF TimesStay, Matches, Untimed

LEMMA NextKeepsTimes ==
  ASSUME TypeOK, [Next]_vars
  PROVE  TimesStay
<1>0. UNCHANGED row => TimesStay
  BY DEF TimesStay
<1>1. ASSUME NEW p \in Pubs, Create(p) PROVE TimesStay
  <2>1. row[p] \in Row
    BY DEF TypeOK
  <2>2. \A q \in Pubs : row'[q] = IF q = p THEN [row[p] EXCEPT !.status = "PENDING"] ELSE row[q]
    BY <1>1 DEF Create, TypeOK
  <2> QED BY <1>1, <2>1, <2>2 DEF Create, TimesStay, Untimed, Row
<1>2. ASSUME EnvironmentActs PROVE TimesStay
  BY <1>0, <1>1, <1>2 DEF EnvironmentActs, Redeliver, Tick, vars
<1>3. ASSUME NEW x \in Procs, Acts(x) PROVE TimesStay
  <2>1. CASE \/ EnqueueClaim(x) \/ SendFailed(x) \/ PublishClaim(x) \/ RecordFailure(x)
             \/ RecordSuccess(x) \/ Claim(x) \/ FailQueued(x) \/ FailPublishing(x)
    <3>1. pc[x] # "idle"
      BY <2>1 DEF EnqueueClaim, SendFailed, PublishClaim, RecordFailure, RecordSuccess, Claim,
                  FailQueued, FailPublishing, AtDb
    <3>2. row[cur[x]] \in Row /\ eta[x] \in Times
      BY <3>1 DEF TypeOK
    <3>3. /\ QueuedRow(x) \in Row /\ ClaimedRow(x) \in Row /\ PublishedRow(x) \in Row
          /\ \A code \in ErrorCodes : FailedRow(x, code) \in Row
      BY <3>1, NewRows
    <3>4. /\ QueuedRow(x).status = "QUEUED" /\ ClaimedRow(x).status = "PUBLISHING"
          /\ PublishedRow(x).status = "PUBLISHED"
          /\ ClaimedRow(x).scheduled = row[cur[x]].scheduled
          /\ PublishedRow(x).scheduled = row[cur[x]].scheduled
      BY <3>2 DEF Row, Current, QueuedRow, ClaimedRow, PublishedRow
    <3>5. \A code : /\ FailedRow(x, code).status = "FAILED"
                    /\ FailedRow(x, code).scheduled = row[cur[x]].scheduled
      BY <3>2 DEF Row, Current, FailedRow
    <3>6. \E from : \E new \in Row :
            /\ Write(x, from, new) /\ new.status \notin Untimed
            /\ from \in Untimed \/ new.scheduled = row[cur[x]].scheduled
      <4> USE <3>3, <3>4, <3>5 DEF Untimed
      <4>1. CASE EnqueueClaim(x)
        BY <4>1 DEF EnqueueClaim
      <4>2. CASE PublishClaim(x) \/ Claim(x)
        BY <4>2 DEF PublishClaim, Claim
      <4>3. CASE RecordSuccess(x)
        BY <4>3 DEF RecordSuccess
      <4>4. CASE SendFailed(x) \/ RecordFailure(x) \/ FailQueued(x) \/ FailPublishing(x)
        BY <4>4 DEF SendFailed, RecordFailure, FailQueued, FailPublishing, ErrorCodes
      <4> QED BY <2>1, <4>1, <4>2, <4>3, <4>4
    <3> QED BY <3>1, <3>6, WritesKeepTimes
  <2>2. CASE ~(\/ EnqueueClaim(x) \/ SendFailed(x) \/ PublishClaim(x) \/ RecordFailure(x)
               \/ RecordSuccess(x) \/ Claim(x) \/ FailQueued(x) \/ FailPublishing(x))
    <3>1. UNCHANGED row
      BY <1>3, <2>2 DEF Acts, ClientActs, WorkerActs, ClientStep, WorkerStep, ClaimedStep,
           EnqueueRead, PublishRead, Begin, Deliver, Send, ClientCrash, WorkerCrash, Load,
           Upload, Read, Reread, Ack, PendingRollback, DbFault
    <3> QED BY <1>0, <3>1
  <2> QED BY <2>1, <2>2
<1> QED BY <1>2, <1>3, WhoActs

-----------------------------------------------------------------------------
(* Where a message, a worker's errand, a sender's and a claim come from.      *)

LEMMA TimeGoesForward ==
  ASSUME TypeOK, [Next]_vars
  PROVE  now \in Nat /\ now' \in Nat /\ now <= now'
<1>1. now \in Nat
  BY DEF TypeOK, Times
<1>2. UNCHANGED now \/ now' = now + 1
  <2>1. CASE EnvironmentActs
    BY <2>1 DEF EnvironmentActs, Create, Redeliver, Tick, vars
  <2>2. ASSUME NEW x \in Procs, Acts(x) PROVE UNCHANGED now
    BY <2>2 DEF Acts, ClientActs, WorkerActs, ClientStep, WorkerStep, ClaimedStep,
         EnqueueRead, PublishRead, Begin, Deliver, EnqueueClaim, Send, SendFailed, PublishClaim,
         Load, Upload, RecordFailure, RecordSuccess, Read, Claim, Reread, FailQueued,
         FailPublishing, Ack, PendingRollback, DbFault, ClientCrash, WorkerCrash, Quiet
  <2> QED BY <2>1, <2>2, WhoActs
<1> QED BY <1>1, <1>2

\* A message is one of the queue, or a request sent it, or its worker was lost with it.
LEMMA MessageSource ==
  ASSUME TypeOK, [Next]_vars, NEW m \in Message, queue'[m] > 0
  PROVE  \/ queue[m] > 0
         \/ \E c \in Clients : pc[c] = "send" /\ m = SentMessage(c)
         \/ \E w \in Workers : pc[w] # "idle" /\ m = HeldMessage(w)
<1>0. Clients \subseteq Procs /\ Workers \subseteq Procs
  BY DEF Procs
<1>1. ASSUME NEW n \in Message, Accept(n), n # m PROVE queue'[m] = queue[m]
  BY <1>1 DEF Accept, TypeOK
<1>2. CASE EnvironmentActs
  BY <1>1, <1>2 DEF EnvironmentActs, Create, Redeliver, Tick, vars
<1>3. ASSUME NEW w \in Workers, NEW n \in Message, Deliver(w, n) PROVE queue[m] > 0
  BY <1>3 DEF Deliver, TypeOK
<1>4. ASSUME NEW c \in Clients, Send(c)
      PROVE  queue[m] > 0 \/ (pc[c] = "send" /\ m = SentMessage(c))
  <2>1. SentMessage(c) \in Message
    BY <1>0, <1>4, HeldMessages DEF Send
  <2> QED BY <1>1, <1>4, <2>1 DEF Send
<1>5. ASSUME NEW w \in Workers, WorkerCrash(w)
      PROVE  queue[m] > 0 \/ (pc[w] # "idle" /\ m = HeldMessage(w))
  <2>1. HeldMessage(w) \in Message
    BY <1>0, <1>5, HeldMessages DEF WorkerCrash
  <2> QED BY <1>1, <1>5, <2>1 DEF WorkerCrash
<1>6. ASSUME NEW x \in Procs, Acts(x),
             x \in Clients => ~Send(x),
             x \in Workers => ~WorkerCrash(x) /\ ~\E n \in Message : Deliver(x, n)
      PROVE  UNCHANGED queue
  BY <1>6 DEF Acts, ClientActs, WorkerActs, ClientStep, WorkerStep, ClaimedStep, EnqueueRead,
       PublishRead, Begin, EnqueueClaim, SendFailed, PublishClaim, Load, Upload, RecordFailure,
       RecordSuccess, Read, Claim, Reread, FailQueued, FailPublishing, Ack, PendingRollback,
       DbFault, ClientCrash
<1> QED BY <1>2, <1>3, <1>4, <1>5, <1>6, WhoActs

\* A worker keeps the message it holds, or takes one whose time has come.
LEMMA WorkerSource ==
  ASSUME TypeOK, [Next]_vars, NEW w \in Workers, pc'[w] # "idle"
  PROVE  \/ pc[w] # "idle" /\ cur'[w] = cur[w] /\ eta'[w] = eta[w]
         \/ \E m \in Message : /\ queue[m] > 0 /\ m.eta <= now
                               /\ cur'[w] = m.pub /\ eta'[w] = m.eta
<1>0. w \in Procs /\ w \notin Clients
  BY DEF Procs
<1>1. Still(w) => pc[w] # "idle" /\ cur'[w] = cur[w] /\ eta'[w] = eta[w]
  BY DEF Still
<1>2. ASSUME NEW m \in Message, Deliver(w, m)
      PROVE  queue[m] > 0 /\ m.eta <= now /\ cur'[w] = m.pub /\ eta'[w] = m.eta
  BY <1>0, <1>2 DEF Deliver, TypeOK
<1>3. ASSUME NEW S, Hop(w, S), pc[w] # "idle"
      PROVE  pc[w] # "idle" /\ cur'[w] = cur[w] /\ eta'[w] = eta[w]
  BY <1>0, <1>3 DEF Hop, TypeOK
<1>4. ASSUME Acts(w), ~\E m \in Message : Deliver(w, m)
      PROVE  pc[w] # "idle" /\ \E S : Hop(w, S)
  <2>1. CASE WorkerCrash(w)
    BY <1>0, <2>1, LeavingHops DEF WorkerCrash
  <2>2. CASE \/ Claim(w) \/ FailQueued(w) \/ FailPublishing(w) \/ RecordFailure(w)
             \/ RecordSuccess(w)
    <3>1. pc[w] # "idle"
      BY <2>2 DEF Claim, FailQueued, FailPublishing, RecordFailure, RecordSuccess, AtDb
    <3> QED BY <1>0, <2>2, <3>1, TransitionHops
  <2>3. CASE \/ Load(w) \/ Upload(w) \/ Read(w) \/ Reread(w) \/ Ack(w) \/ PendingRollback(w)
             \/ DbFault(w)
    <3>1. pc[w] # "idle"
      BY <2>3 DEF Load, Upload, Read, Reread, Ack, PendingRollback, DbFault, AtDb, DbPc,
                  WorkerDbPc, ClaimedPc
    <3> QED BY <1>0, <2>3, <3>1, ReadingHops
  <2> QED BY <1>0, <1>4, <2>1, <2>2, <2>3 DEF Acts, WorkerActs, WorkerStep, ClaimedStep
<1>5. CASE Acts(w)
  BY <1>2, <1>3, <1>4, <1>5
<1>6. CASE ~Acts(w)
  BY <1>0, <1>1, <1>6, WhoActs, EnvironmentLeavesAlone, OthersAreStill
<1> QED BY <1>5, <1>6

LEMMA HopPoint ==
  ASSUME TypeOK, NEW x \in Procs, NEW S, Hop(x, S)
  PROVE  /\ pc'[x] \in S
         /\ pc'[x] # "idle" => cur'[x] = cur[x] /\ eta'[x] = eta[x]
  BY DEF Hop, TypeOK

\* A lost answer leads to no point at which something is sent, claimed or read again.
LEMMA LostAnswerPoint ==
  ASSUME TypeOK, NEW x \in Procs, NEW from, LoseAnswer(x, from), pc[x] \notin {"load", "upload"}
  PROVE  pc'[x] \in Left
<1>1. Hop(x, Left)
  BY LostAnswerHops
<1> QED BY <1>1, HopPoint

\* A request is about to send its task because its transition to QUEUED matched.
LEMMA SenderSource ==
  ASSUME TypeOK, [Next]_vars, NEW c \in Clients, pc'[c] \in {"send", "send_failed"}
  PROVE  /\ cur'[c] = cur[c] /\ eta'[c] = eta[c]
         /\ \/ pc[c] \in {"send", "send_failed"}
            \/ /\ pc[c] = "enqueue_claim"
               /\ row' = [row EXCEPT ![cur[c]] = QueuedRow(c)]
<1>0. c \in Procs /\ c \notin Workers
  BY DEF Procs
<1>1. CASE ~Acts(c)
  <2>1. Still(c)
    BY <1>0, <1>1, WhoActs, EnvironmentLeavesAlone, OthersAreStill
  <2> QED BY <2>1 DEF Still
<1>2. CASE EnqueueClaim(c)
  <2>1. pc[c] = "enqueue_claim"
    BY <1>2 DEF EnqueueClaim, AtDb
  <2>2. ~LoseAnswer(c, "PENDING")
    BY <1>0, <2>1, LostAnswerPoint DEF Left
  <2>3. Matches(c, "PENDING")
    <3>1. Leave(c) => pc'[c] = "idle"
      BY <1>0 DEF Leave, TypeOK
    <3> QED BY <1>2, <2>2, <3>1 DEF EnqueueClaim
  <2>4. Hop(c, Left \cup {"send"})
    BY <1>0, <1>2, TransitionHops
  <2> QED BY <1>0, <1>2, <2>1, <2>3, <2>4, HopPoint DEF EnqueueClaim, Write
<1>3. CASE Send(c)
  <2>1. Leave(c) => pc'[c] = "idle"
    BY <1>0 DEF Leave, TypeOK
  <2> QED BY <1>0, <1>3, <2>1 DEF Send, GoTo
<1>4. ASSUME NEW p \in Pubs, EnqueueRead(c, p) \/ PublishRead(c, p) PROVE FALSE
  <2>1. PICK point \in {"enqueue_claim", "publish_claim"}, t \in Times : Begin(c, p, point, t)
    BY <1>4 DEF EnqueueRead, PublishRead, Times
  <2> QED BY <1>0, <2>1 DEF Begin, TypeOK
<1>5. CASE SendFailed(c) \/ RecordFailure(c) \/ RecordSuccess(c) \/ ClientCrash(c)
  <2>1. Hop(c, Left)
    BY <1>0, <1>5, TransitionHops, LeavingHops DEF ClientCrash
  <2> QED BY <1>0, <2>1, HopPoint DEF Left
<1>6. CASE PublishClaim(c)
  <2>1. Hop(c, Left \cup {"load"})
    BY <1>0, <1>6, TransitionHops
  <2> QED BY <1>0, <2>1, HopPoint DEF Left
<1>7. CASE Load(c) \/ Upload(c)
  <2>1. Hop(c, {"upload", "record_failure"}) \/ Hop(c, {"record_success", "record_failure"})
    BY <1>0, <1>7, ReadingHops
  <2> QED BY <1>0, <2>1, HopPoint
<1>8. CASE PendingRollback(c) \/ DbFault(c)
  <2>1. Hop(c, {"record_failure"}) \/ Hop(c, Left)
    BY <1>0, <1>8, ReadingHops
  <2> QED BY <1>0, <2>1, HopPoint DEF Left
<1> QED BY <1>0, <1>1, <1>2, <1>3, <1>4, <1>5, <1>6, <1>7, <1>8
        DEF Acts, ClientActs, ClientStep, ClaimedStep

\* A claim is kept, or won by a compare-and-set from PENDING or from QUEUED.
LEMMA ClaimantSource ==
  ASSUME TypeOK, [Next]_vars, NEW x \in Procs, pc'[x] \in ClaimedPc
  PROVE  /\ cur'[x] = cur[x] /\ pc[x] # "idle"
         /\ \/ pc[x] \in ClaimedPc
            \/ /\ \/ pc[x] = "publish_claim" /\ Matches(x, "PENDING")
                  \/ pc[x] = "claim" /\ x \in Workers
               /\ row' = [row EXCEPT ![cur[x]] = ClaimedRow(x)]
<1>1. CASE ~Acts(x)
  <2>1. Still(x)
    BY <1>1, WhoActs, EnvironmentLeavesAlone, OthersAreStill
  <2> QED BY <2>1 DEF Still, ClaimedPc
<1>2. CASE PublishClaim(x)
  <2>1. pc[x] = "publish_claim" /\ pc'[x] \notin Left
    BY <1>2 DEF PublishClaim, AtDb, Left, ClaimedPc
  <2>2. ~LoseAnswer(x, "PENDING") /\ ~Leave(x)
    BY <2>1, LostAnswerPoint DEF Leave, Left, TypeOK
  <2>3. Matches(x, "PENDING") /\ GoTo(x, "load", "open")
    BY <1>2, <2>2 DEF PublishClaim
  <2> QED BY <1>2, <2>1, <2>3 DEF PublishClaim, Write, GoTo
<1>3. CASE Claim(x) /\ x \in Workers
  <2>1. pc[x] = "claim" /\ pc'[x] \notin Left /\ pc'[x] # "reread"
    BY <1>3 DEF Claim, AtDb, Left, ClaimedPc
  <2>2. ~LoseAnswer(x, "QUEUED") /\ ~GoTo(x, "reread", "closed")
    BY <2>1, LostAnswerPoint DEF GoTo, Left, TypeOK
  <2>3. Matches(x, "QUEUED") /\ GoTo(x, "load", "open")
    BY <1>3, <2>2 DEF Claim
  <2> QED BY <1>3, <2>1, <2>3 DEF Claim, Write, GoTo
<1>4. CASE Load(x) \/ Upload(x)
  <2>1. Hop(x, {"upload", "record_failure"}) \/ Hop(x, {"record_success", "record_failure"})
    BY <1>4, ReadingHops
  <2> QED BY <1>4, <2>1, HopPoint DEF Load, Upload, AtDb, ClaimedPc
<1>5. CASE PendingRollback(x) \/ DbFault(x)
  <2>1. CASE pc[x] \in {"load", "upload"}
    <3>1. Hop(x, {"record_failure"})
      BY <1>5, <2>1, ReadingHops
    <3> QED BY <2>1, <3>1, HopPoint DEF ClaimedPc
  <2>2. CASE pc[x] \notin {"load", "upload"}
    <3>1. Hop(x, Left)
      BY <1>5, <2>2, ReadingHops
    <3> QED BY <3>1, HopPoint DEF Left, ClaimedPc
  <2> QED BY <2>1, <2>2
<1>6. ASSUME NEW S, Hop(x, S), S \cap ClaimedPc = {} PROVE FALSE
  BY <1>6, HopPoint
<1>7. CASE \/ EnqueueClaim(x) \/ SendFailed(x) \/ RecordFailure(x) \/ RecordSuccess(x)
           \/ FailQueued(x) \/ FailPublishing(x) \/ Read(x) \/ Reread(x) \/ Ack(x)
           \/ ClientCrash(x) \/ WorkerCrash(x)
  <2>1. /\ Left \cap ClaimedPc = {} /\ (Left \cup {"send"}) \cap ClaimedPc = {}
        /\ (Left \cup {"fail_publishing"}) \cap ClaimedPc = {}
        /\ {"finished", "claim", "fail_queued"} \cap ClaimedPc = {}
        /\ {"finished", "fail_queued"} \cap ClaimedPc = {}
    BY DEF Left, ClaimedPc
  <2>2. ~(\/ EnqueueClaim(x) \/ SendFailed(x) \/ RecordFailure(x) \/ RecordSuccess(x)
           \/ FailQueued(x) \/ FailPublishing(x))
    BY <1>6, <2>1, TransitionHops
  <2>3. ~(Read(x) \/ Reread(x) \/ Ack(x))
    BY <1>6, <2>1, ReadingHops
  <2>4. ~(ClientCrash(x) \/ WorkerCrash(x))
    BY <1>6, <2>1, LeavingHops DEF ClientCrash, WorkerCrash
  <2> QED BY <1>7, <2>2, <2>3, <2>4
<1>8. CASE \/ \E p \in Pubs : EnqueueRead(x, p) \/ PublishRead(x, p)
           \/ \E m \in Message : Deliver(x, m)
           \/ Send(x)
  <2>1. pc'[x] \in {"enqueue_claim", "publish_claim", "read", "send_failed", "idle"}
    BY <1>8 DEF EnqueueRead, PublishRead, Begin, Deliver, Send, GoTo, Leave, TypeOK
  <2> QED BY <2>1 DEF ClaimedPc
<1> QED BY <1>1, <1>2, <1>3, <1>4, <1>5, <1>7, <1>8
        DEF Acts, ClientActs, WorkerActs, ClientStep, WorkerStep, ClaimedStep

\* Only the upload step of a process reaches the platform.
LEMMA UploadSource ==
  ASSUME TypeOK, [Next]_vars, NEW p \in Pubs, uploads'[p] # uploads[p]
  PROVE  \E x \in Procs : pc[x] = "upload" /\ cur[x] = p
<1>1. ~EnvironmentActs
  BY DEF EnvironmentActs, Create, Redeliver, Tick, vars
<1>2. PICK x \in Procs : Acts(x)
  BY <1>1, WhoActs
<1>3. Upload(x)
  BY <1>2 DEF Acts, ClientActs, WorkerActs, ClientStep, WorkerStep, ClaimedStep, EnqueueRead,
       PublishRead, Begin, Deliver, EnqueueClaim, Send, SendFailed, PublishClaim, Load,
       RecordFailure, RecordSuccess, Read, Claim, Reread, FailQueued, FailPublishing, Ack,
       PendingRollback, DbFault, ClientCrash, WorkerCrash
<1>4. cur[x] = p
  BY <1>3 DEF Upload, TypeOK
<1> QED BY <1>3, <1>4 DEF Upload, AtDb

-----------------------------------------------------------------------------
(* Nothing is uploaded before its time.                                       *)

LEMMA DebtsStay ==
  ASSUME TimesStay, NEW p \in Pubs, NEW t, Owes(p, t)
  PROVE  Owes(p, t)'
  BY DEF TimesStay, Owes

LEMMA MessagesStayOnTime ==
  ASSUME TypeOK, ScheduleInv, [Next]_vars
  PROVE  MessagesOnTime'
<1> SUFFICES ASSUME NEW m \in Message, queue'[m] > 0
             PROVE  Owes(m.pub, m.eta)'
  BY DEF MessagesOnTime
<1>1. m.pub \in Pubs /\ TimesStay
  BY NextKeepsTimes DEF Message
<1>2. queue[m] > 0 => Owes(m.pub, m.eta)
  BY DEF ScheduleInv, MessagesOnTime
<1>3. ASSUME NEW c \in Clients, pc[c] = "send" /\ m = SentMessage(c) PROVE Owes(m.pub, m.eta)
  BY <1>3 DEF ScheduleInv, SendersOnTime, SentMessage
<1>4. ASSUME NEW w \in Workers, pc[w] # "idle" /\ m = HeldMessage(w) PROVE Owes(m.pub, m.eta)
  BY <1>4 DEF ScheduleInv, WorkersOnTime, HeldMessage
<1>5. Owes(m.pub, m.eta)
  BY <1>2, <1>3, <1>4, MessageSource
<1> QED BY <1>1, <1>5, DebtsStay

LEMMA WorkersStayOnTime ==
  ASSUME TypeOK, ScheduleInv, [Next]_vars
  PROVE  WorkersOnTime'
<1> SUFFICES ASSUME NEW w \in Workers, pc'[w] # "idle"
             PROVE  Owes(cur[w], eta[w])' /\ eta'[w] <= now'
  BY DEF WorkersOnTime
<1>0. w \in Procs /\ TimesStay /\ now \in Nat /\ now' \in Nat /\ now <= now'
  BY NextKeepsTimes, TimeGoesForward DEF Procs
<1>1. CASE pc[w] # "idle" /\ cur'[w] = cur[w] /\ eta'[w] = eta[w]
  <2>1. cur[w] \in Pubs /\ eta[w] \in Nat /\ Owes(cur[w], eta[w]) /\ eta[w] <= now
    BY <1>0, <1>1 DEF TypeOK, Times, ScheduleInv, WorkersOnTime
  <2> QED BY <1>0, <1>1, <2>1 DEF TimesStay, Owes
<1>2. ASSUME NEW m \in Message, queue[m] > 0, m.eta <= now,
             cur'[w] = m.pub, eta'[w] = m.eta
      PROVE  Owes(cur[w], eta[w])' /\ eta'[w] <= now'
  <2>1. m.pub \in Pubs /\ m.eta \in Nat /\ Owes(m.pub, m.eta)
    BY <1>2 DEF Message, Times, ScheduleInv, MessagesOnTime
  <2>2. Owes(m.pub, m.eta)'
    BY <1>0, <2>1, DebtsStay
  <2> QED BY <1>0, <1>2, <2>1, <2>2 DEF Owes
<1> QED BY <1>1, <1>2, WorkerSource

LEMMA SendersStayOnTime ==
  ASSUME TypeOK, ScheduleInv, [Next]_vars
  PROVE  SendersOnTime'
<1> SUFFICES ASSUME NEW c \in Clients, pc'[c] \in {"send", "send_failed"}
             PROVE  Owes(cur[c], eta[c])'
  BY DEF SendersOnTime
<1>0. c \in Procs /\ TimesStay /\ cur'[c] = cur[c] /\ eta'[c] = eta[c]
  BY NextKeepsTimes, SenderSource DEF Procs
<1>1. CASE pc[c] \in {"send", "send_failed"}
  <2>1. cur[c] \in Pubs /\ Owes(cur[c], eta[c])
    BY <1>0, <1>1 DEF TypeOK, ScheduleInv, SendersOnTime
  <2> QED BY <1>0, <2>1 DEF TimesStay, Owes
<1>2. CASE pc[c] = "enqueue_claim" /\ row' = [row EXCEPT ![cur[c]] = QueuedRow(c)]
  <2>1. cur[c] \in Pubs /\ row[cur[c]] \in Row /\ eta[c] \in Times
    BY <1>0, <1>2 DEF TypeOK
  <2>2. row'[cur[c]] = QueuedRow(c)
    BY <1>2, <2>1 DEF TypeOK
  <2>3. QueuedRow(c).status = "QUEUED" /\ QueuedRow(c).scheduled = eta[c]
    BY <2>1 DEF QueuedRow, Current, Row
  <2> QED BY <1>0, <2>2, <2>3 DEF Owes, Untimed
<1> QED BY <1>1, <1>2, SenderSource

LEMMA ClaimantsStayOnTime ==
  ASSUME TypeOK, ClaimInv, ScheduleInv, [Next]_vars
  PROVE  ClaimantsOnTime'
<1> SUFFICES ASSUME NEW x \in Procs, pc'[x] \in ClaimedPc
             PROVE  row'[cur'[x]].scheduled <= now'
  BY DEF ClaimantsOnTime
<1>0. /\ TimesStay /\ now \in Nat /\ now' \in Nat /\ now <= now'
      /\ cur'[x] = cur[x] /\ cur[x] \in Pubs /\ row[cur[x]] \in Row
  BY NextKeepsTimes, TimeGoesForward, ClaimantSource DEF TypeOK
<1>1. row[cur[x]].scheduled \in Nat
  BY <1>0 DEF Row, Times
<1>2. CASE pc[x] \in ClaimedPc
  <2>1. row[cur[x]].status \notin Untimed
    BY <1>0, <1>2 DEF ClaimInv, ClaimantOwnsUpload, UnclaimedUntilStarted, Untimed
  <2>2. row[cur[x]].scheduled <= now
    BY <1>2 DEF ScheduleInv, ClaimantsOnTime
  <2>3. row'[cur[x]].scheduled = row[cur[x]].scheduled
    BY <1>0, <2>1 DEF TimesStay
  <2> QED BY <1>0, <1>1, <2>2, <2>3
<1>3. CASE /\ \/ pc[x] = "publish_claim" /\ Matches(x, "PENDING")
              \/ pc[x] = "claim" /\ x \in Workers
           /\ row' = [row EXCEPT ![cur[x]] = ClaimedRow(x)]
  <2>1. row'[cur[x]].scheduled = row[cur[x]].scheduled
    BY <1>0, <1>3 DEF ClaimedRow, Current, TypeOK, Row
  <2>2. row[cur[x]].scheduled <= now
    <3>1. CASE Matches(x, "PENDING")
      <4>1. row[cur[x]].scheduled = 0
        BY <1>0, <3>1 DEF Matches, ScheduleInv, PendingHasNoTime, Untimed
      <4> QED BY <1>0, <4>1
    <3>2. CASE pc[x] = "claim" /\ x \in Workers
      BY <3>2 DEF ScheduleInv, WorkersOnTime, Owes
    <3> QED BY <1>3, <3>1, <3>2
  <2> QED BY <1>0, <1>1, <2>1, <2>2
<1> QED BY <1>2, <1>3, ClaimantSource

LEMMA UploadsStayOnTime ==
  ASSUME TypeOK, ClaimInv, ScheduleInv, [Next]_vars
  PROVE  NotBeforeSchedule'
<1> SUFFICES ASSUME NEW p \in Pubs, uploads'[p] > 0
             PROVE  row'[p].scheduled <= now'
  BY DEF NotBeforeSchedule
<1>0. /\ TimesStay /\ now \in Nat /\ now' \in Nat /\ now <= now'
      /\ row[p] \in Row /\ row[p].scheduled \in Nat /\ uploads[p] \in Nat
  BY NextKeepsTimes, TimeGoesForward DEF TypeOK, Row, Times
<1>1. row[p].started /\ row[p].scheduled <= now
  <2>1. CASE uploads[p] > 0
    BY <1>0, <2>1 DEF ScheduleInv, NotBeforeSchedule, ClaimInv, UnclaimedUntilStarted
  <2>2. CASE ~(uploads[p] > 0)
    <3>1. PICK x \in Procs : pc[x] = "upload" /\ cur[x] = p
      BY <2>2, UploadSource
    <3> QED BY <3>1 DEF ScheduleInv, ClaimantsOnTime, ClaimInv, ClaimantOwnsUpload, ClaimedPc
  <2> QED BY <2>1, <2>2
<1>2. row[p].status \notin Untimed
  BY <1>1 DEF ClaimInv, UnclaimedUntilStarted, Untimed
<1>3. row'[p].scheduled = row[p].scheduled
  BY <1>0, <1>2 DEF TimesStay
<1> QED BY <1>0, <1>1, <1>3

LEMMA InitOnTime == Init => ScheduleInv
  BY DEF Init, NoRow, ScheduleInv, PendingHasNoTime, MessagesOnTime, WorkersOnTime,
         SendersOnTime, ClaimantsOnTime, NotBeforeSchedule, Untimed, ClaimedPc, Procs

(* The schedule is inductive: the time a row was queued with is the time of   *)
(* its messages and of whoever works on it, however often it is redelivered.  *)
THEOREM ScheduleInvariant == Spec => []ScheduleInv
<1>1. ASSUME TypeOK, ClaimInv, ScheduleInv, [Next]_vars PROVE ScheduleInv'
  <2>1. PendingHasNoTime'
    BY <1>1, NextKeepsTimes DEF TimesStay, ScheduleInv, PendingHasNoTime
  <2> QED BY <1>1, <2>1, MessagesStayOnTime, WorkersStayOnTime, SendersStayOnTime,
             ClaimantsStayOnTime, UploadsStayOnTime DEF ScheduleInv
<1> QED BY <1>1, InitOnTime, TypeInvariant, ClaimInvariant, PTL DEF Spec

(* Whatever is redelivered, requeued, crashes or is published synchronously,  *)
(* the platform receives no scheduled video before its time.                  *)
THEOREM UploadsNotBeforeSchedule == Spec => []NotBeforeSchedule
<1>1. ScheduleInv => NotBeforeSchedule
  BY DEF ScheduleInv
<1> QED BY <1>1, ScheduleInvariant, PTL

-----------------------------------------------------------------------------
(* While the database answers, who holds a claim has a PUBLISHING row, and a   *)
(* worker fails a publication only after somebody settled it.                 *)

SessionsHealthy == \A x \in Procs : Healthy(x)

ClaimantsPublishing == \A x \in Procs : pc[x] \in ClaimedPc => Current(x).status = "PUBLISHING"

Taken == Settled \cup {"PUBLISHING"}

RereadersLate == \A x \in Procs : pc[x] = "reread" => Current(x).status \in Taken

FailersLate ==
  \A x \in Procs : pc[x] \in {"fail_queued", "fail_publishing"} => Current(x).status \in Settled

DutyInv ==
  faults = 0 => SessionsHealthy /\ ClaimantsPublishing /\ RereadersLate /\ FailersLate

Transition(x) ==
  \/ EnqueueClaim(x) \/ SendFailed(x) \/ PublishClaim(x) \/ RecordFailure(x)
  \/ RecordSuccess(x) \/ Claim(x) \/ FailQueued(x) \/ FailPublishing(x)

LEMMA FaultsOnlyGrow ==
  ASSUME TypeOK, [Next]_vars, faults' = 0
  PROVE  /\ faults = 0
         /\ \A x : ~DbFault(x) /\ \A from : ~LoseAnswer(x, from)
<1>0. faults \in Nat
  BY DEF TypeOK
<1>1. \A x : ~DbFault(x) /\ \A from : ~LoseAnswer(x, from)
  BY <1>0 DEF DbFault, LoseAnswer
<1>2. CASE EnvironmentActs
  BY <1>1, <1>2 DEF EnvironmentActs, Create, Redeliver, Tick, vars, envVars
<1>3. ASSUME NEW x \in Procs, Acts(x) PROVE faults = 0
  <2>1. CASE Transition(x)
    BY <1>1, <2>1 DEF Transition, EnqueueClaim, SendFailed, PublishClaim, RecordFailure,
         RecordSuccess, Claim, FailQueued, FailPublishing, Answered
  <2>2. CASE ~Transition(x)
    BY <1>1, <1>3, <2>2 DEF Transition, Acts, ClientActs, WorkerActs, ClientStep, WorkerStep,
         ClaimedStep, EnqueueRead, PublishRead, Begin, Deliver, Send, Load, Upload, Read, Reread,
         Ack, PendingRollback, ClientCrash, WorkerCrash, envVars
  <2> QED BY <2>1, <2>2
<1> QED BY <1>1, <1>2, <1>3, WhoActs

\* What a healthy process may do while nothing fails.
CalmAct(x) ==
  \/ /\ Answered
     /\ \/ EnqueueClaim(x) \/ SendFailed(x) \/ PublishClaim(x)
        \/ RecordFailure(x) \/ RecordSuccess(x)
        \/ x \in Workers /\ (Claim(x) \/ FailQueued(x) \/ FailPublishing(x))
  \/ \E p \in Pubs : EnqueueRead(x, p) \/ PublishRead(x, p)
  \/ Send(x) \/ Load(x) \/ Upload(x) \/ ClientCrash(x)
  \/ /\ x \in Workers
     /\ \/ \E m \in Message : Deliver(x, m)
        \/ Read(x) \/ Reread(x) \/ Ack(x) \/ WorkerCrash(x)

LEMMA CalmActs ==
  ASSUME TypeOK, [Next]_vars, faults' = 0, NEW x \in Procs, Acts(x), Healthy(x)
  PROVE  CalmAct(x)
<1>1. ~DbFault(x) /\ ~PendingRollback(x) /\ \A from : ~LoseAnswer(x, from)
  BY FaultsOnlyGrow DEF PendingRollback
<1>2. Transition(x) => Answered
  BY <1>1 DEF Transition, EnqueueClaim, SendFailed, PublishClaim, RecordFailure,
         RecordSuccess, Claim, FailQueued, FailPublishing
<1>3. CASE x \in Clients /\ ClientActs(x)
  BY <1>1, <1>2, <1>3 DEF ClientActs, ClientStep, ClaimedStep, Transition, CalmAct
<1>4. CASE x \in Workers /\ WorkerActs(x)
  BY <1>1, <1>2, <1>4 DEF WorkerActs, WorkerStep, ClaimedStep, Transition, CalmAct
<1> QED BY <1>3, <1>4 DEF Acts

LEMMA SessionsStayHealthy ==
  ASSUME TypeOK, DutyInv, [Next]_vars, faults' = 0
  PROVE  SessionsHealthy'
<1> SUFFICES ASSUME NEW x \in Procs PROVE sess'[x] # "broken"
  BY DEF SessionsHealthy, Healthy
<1>0. /\ sess[x] # "broken" /\ Healthy(x)
      /\ \A y : ~DbFault(y) /\ \A from : ~LoseAnswer(y, from)
  BY FaultsOnlyGrow DEF DutyInv, SessionsHealthy, Healthy
<1>1. CASE ~Acts(x)
  BY <1>0, <1>1, WhoActs, EnvironmentLeavesAlone, OthersAreStill DEF Still
<1>2. CASE Acts(x)
  <2>1. \A point, session : session # "broken" /\ GoTo(x, point, session) => sess'[x] # "broken"
    BY DEF GoTo, TypeOK
  <2>2. Leave(x) => sess'[x] # "broken"
    BY DEF Leave, TypeOK
  <2>3. Return(x) => sess'[x] # "broken"
    BY <1>0, <2>1, <2>2 DEF Return
  <2>4. \A session : session # "broken" /\ Raise(x, session) => sess'[x] # "broken"
    BY <2>1, <2>2 DEF Raise
  <2>5. CASE Transition(x)
    BY <1>0, <2>1, <2>2, <2>3, <2>4, <2>5
       DEF Transition, EnqueueClaim, SendFailed, PublishClaim, RecordFailure, RecordSuccess,
           Claim, FailQueued, FailPublishing
  <2>6. CASE \/ Send(x) \/ Load(x) \/ Upload(x) \/ Read(x) \/ Reread(x) \/ Ack(x)
             \/ ClientCrash(x) \/ WorkerCrash(x)
    BY <1>0, <2>1, <2>2, <2>6 DEF Send, Load, Upload, Read, Reread, Ack, ClientCrash, WorkerCrash
  <2>7. CASE \/ \E p \in Pubs : EnqueueRead(x, p) \/ PublishRead(x, p)
             \/ \E m \in Message : Deliver(x, m)
    BY <1>0, <2>7 DEF EnqueueRead, PublishRead, Begin, Deliver, TypeOK
  <2> QED BY <1>0, <1>2, <2>5, <2>6, <2>7, CalmActs DEF CalmAct, Transition
<1> QED BY <1>1, <1>2

LEMMA TakenStays ==
  ASSUME TypeOK, ClaimInv, [Next]_vars, NEW p \in Pubs
  PROVE  /\ row[p].status \in Settled => row'[p].status \in Settled
         /\ row[p].status \in Taken => row'[p].status \in Taken
<1>1. Effect
  BY NextEffect
<1>2. CASE RowEdge
  BY <1>2 DEF RowEdge, Edge, Settled, Taken, TypeOK
<1>3. CASE UNCHANGED row
  BY <1>3
<1> QED BY <1>1, <1>2, <1>3 DEF Effect, FirstUpload

\* A row leaves PUBLISHING by its claimant's report or by a worker's failure.
LEMMA PublishingRowSource ==
  ASSUME TypeOK, [Next]_vars, NEW p \in Pubs,
         row[p].status = "PUBLISHING", row'[p].status # "PUBLISHING"
  PROVE  \E x \in Procs :
           /\ cur[x] = p
           /\ \/ pc[x] = "fail_publishing"
              \/ pc[x] \in ClaimedPc /\ pc'[x] \notin ClaimedPc
<1>1. ~EnvironmentActs
  <2>1. ASSUME NEW q \in Pubs, Create(q) PROVE row'[p] = row[p]
    BY <2>1 DEF Create, TypeOK
  <2> QED BY <2>1 DEF EnvironmentActs, Redeliver, Tick, vars
<1>2. PICK x \in Procs : Acts(x)
  BY <1>1, WhoActs
<1>3. Transition(x)
  BY <1>2 DEF Transition, Acts, ClientActs, WorkerActs, ClientStep, WorkerStep, ClaimedStep,
       EnqueueRead, PublishRead, Begin, Deliver, Send, Load, Upload, Read, Reread, Ack,
       PendingRollback, DbFault, ClientCrash, WorkerCrash
<1>4. pc[x] # "idle" /\ cur[x] \in Pubs
  BY <1>3 DEF TypeOK, Transition, EnqueueClaim, SendFailed, PublishClaim, RecordFailure,
       RecordSuccess, Claim, FailQueued, FailPublishing, AtDb
<1>5. ASSUME NEW from, NEW new, Write(x, from, new) PROVE cur[x] = p /\ from = "PUBLISHING"
  <2>1. Matches(x, from)
    BY <1>5, Zenon DEF Write
  <2>2. row' = [row EXCEPT ![cur[x]] = new]
    BY <1>5, <2>1 DEF Write
  <2>3. cur[x] = p
    BY <1>4, <2>2 DEF TypeOK
  <2> QED BY <2>1, <2>3 DEF Matches
<1>6. cur[x] = p /\ (RecordFailure(x) \/ RecordSuccess(x) \/ FailPublishing(x))
  BY <1>3, <1>5 DEF Transition, EnqueueClaim, SendFailed, PublishClaim, RecordFailure,
       RecordSuccess, Claim, FailQueued, FailPublishing
<1>7. ASSUME RecordFailure(x) \/ RecordSuccess(x)
      PROVE  pc[x] \in ClaimedPc /\ pc'[x] \notin ClaimedPc
  <2>1. Hop(x, Left)
    BY <1>7, TransitionHops
  <2> QED BY <1>7, <2>1, HopPoint DEF RecordFailure, RecordSuccess, AtDb, ClaimedPc, Left
<1> QED BY <1>6, <1>7 DEF FailPublishing, AtDb

LEMMA ClaimantsStayPublishing ==
  ASSUME TypeOK, ClaimInv, DutyInv, [Next]_vars, faults' = 0
  PROVE  ClaimantsPublishing'
<1> SUFFICES ASSUME NEW x \in Procs, pc'[x] \in ClaimedPc
             PROVE  row'[cur'[x]].status = "PUBLISHING"
  BY DEF ClaimantsPublishing, Current
<1>0. cur'[x] = cur[x] /\ cur[x] \in Pubs /\ row[cur[x]] \in Row /\ faults = 0
  BY ClaimantSource, FaultsOnlyGrow DEF TypeOK
<1>1. CASE pc[x] \in ClaimedPc
  <2>1. row[cur[x]].status = "PUBLISHING"
    BY <1>0, <1>1 DEF DutyInv, ClaimantsPublishing, Current
  <2>2. SUFFICES ASSUME row'[cur[x]].status # "PUBLISHING" PROVE FALSE
    BY <1>0
  <2>3. PICK y \in Procs : /\ cur[y] = cur[x]
                           /\ \/ pc[y] = "fail_publishing"
                              \/ pc[y] \in ClaimedPc /\ pc'[y] \notin ClaimedPc
    BY <1>0, <2>1, <2>2, PublishingRowSource
  <2>4. pc[y] # "fail_publishing"
    BY <1>0, <2>1, <2>3 DEF DutyInv, FailersLate, Current, Settled
  <2>5. y = x
    BY <1>0, <1>1, <2>3, <2>4 DEF ClaimInv, OneClaimant, Claimant
  <2> QED BY <2>3, <2>4, <2>5
<1>2. CASE row' = [row EXCEPT ![cur[x]] = ClaimedRow(x)]
  BY <1>0, <1>2 DEF TypeOK, ClaimedRow, Current, Row
<1> QED BY <1>0, <1>1, <1>2, ClaimantSource

\* A worker whose claim did not match finds the row settled or claimed.
LEMMA RereadersStayLate ==
  ASSUME TypeOK, ClaimInv, ScheduleInv, DutyInv, [Next]_vars, faults' = 0
  PROVE  RereadersLate'
<1> SUFFICES ASSUME NEW x \in Procs, pc'[x] = "reread"
             PROVE  row'[cur'[x]].status \in Taken
  BY DEF RereadersLate, Current
<1>0. faults = 0 /\ Healthy(x)
  BY FaultsOnlyGrow DEF DutyInv, SessionsHealthy
<1>1. CASE ~Acts(x)
  <2>1. pc[x] = "reread" /\ cur'[x] = cur[x]
    BY <1>1, WhoActs, EnvironmentLeavesAlone, OthersAreStill DEF Still
  <2>2. cur[x] \in Pubs /\ row[cur[x]].status \in Taken
    BY <1>0, <2>1 DEF TypeOK, DutyInv, RereadersLate, Current
  <2> QED BY <2>1, <2>2, TakenStays
<1>2. CASE Acts(x)
  <2>1. ASSUME NEW S, Hop(x, S) PROVE "reread" \in S /\ cur'[x] = cur[x]
    BY <2>1, HopPoint
  <2>2. Claim(x) /\ x \in Workers
    <3>1. CASE \/ EnqueueClaim(x) \/ SendFailed(x) \/ PublishClaim(x) \/ RecordFailure(x)
               \/ RecordSuccess(x) \/ FailQueued(x) \/ FailPublishing(x)
      <4>1. \/ Hop(x, Left) \/ Hop(x, Left \cup {"send"}) \/ Hop(x, Left \cup {"load"})
            \/ Hop(x, Left \cup {"fail_publishing"})
        BY <3>1, TransitionHops
      <4> QED BY <2>1, <4>1 DEF Left
    <3>2. CASE Load(x) \/ Upload(x) \/ Read(x) \/ Reread(x) \/ Ack(x)
      <4>1. \/ Hop(x, {"upload", "record_failure"}) \/ Hop(x, Left)
            \/ Hop(x, {"record_success", "record_failure"})
            \/ Hop(x, {"finished", "claim", "fail_queued"})
            \/ Hop(x, {"finished", "fail_queued"})
        BY <3>2, ReadingHops
      <4> QED BY <2>1, <4>1 DEF Left
    <3>3. CASE \/ \E p \in Pubs : EnqueueRead(x, p) \/ PublishRead(x, p)
               \/ \E m \in Message : Deliver(x, m)
               \/ Send(x)
      <4>1. pc'[x] \in {"enqueue_claim", "publish_claim", "read", "send_failed", "idle"}
        BY <3>3 DEF EnqueueRead, PublishRead, Begin, Deliver, Send, GoTo, Leave, TypeOK
      <4> QED BY <4>1
    <3>4. CASE ClientCrash(x) \/ WorkerCrash(x)
      BY <2>1, <3>4, LeavingHops DEF ClientCrash, WorkerCrash, Left
    <3> QED BY <1>0, <1>2, <3>1, <3>2, <3>3, <3>4, CalmActs DEF CalmAct
  <2>3. x \in Workers /\ pc[x] = "claim" /\ row[cur[x]].status \notin Untimed
    BY <2>2 DEF Claim, AtDb, ScheduleInv, WorkersOnTime, Owes
  <2>4. ~Matches(x, "QUEUED")
    <3>1. ~GoTo(x, "load", "open")
      BY DEF GoTo, TypeOK
    <3>2. ~LoseAnswer(x, "QUEUED")
      BY FaultsOnlyGrow
    <3> QED BY <2>2, <3>1, <3>2 DEF Claim
  <2>5. cur'[x] = cur[x] /\ cur[x] \in Pubs /\ row[cur[x]] \in Row /\ UNCHANGED row
    <3>1. Hop(x, Left \cup {"load", "reread"})
      BY <2>2, TransitionHops
    <3> QED BY <2>2, <2>3, <2>4, <3>1, HopPoint DEF TypeOK, Claim, Write
  <2> QED BY <2>3, <2>4, <2>5 DEF Matches, Untimed, Taken, Settled, Row, Statuses
<1> QED BY <1>1, <1>2

LEMMA FailersStayLate ==
  ASSUME TypeOK, ClaimInv, ScheduleInv, DutyInv, [Next]_vars, faults' = 0
  PROVE  FailersLate'
<1> DEFINE Failing == {"fail_queued", "fail_publishing"}
<1> SUFFICES ASSUME NEW x \in Procs, pc'[x] \in Failing
             PROVE  row'[cur'[x]].status \in Settled
  BY DEF FailersLate, Current
<1>0. faults = 0 /\ Healthy(x) /\ \A from : ~LoseAnswer(x, from)
  BY FaultsOnlyGrow DEF DutyInv, SessionsHealthy
<1>1. CASE pc[x] \in Failing /\ cur'[x] = cur[x]
  <2>1. cur[x] \in Pubs /\ row[cur[x]].status \in Settled
    BY <1>0, <1>1 DEF TypeOK, DutyInv, FailersLate, Current
  <2> QED BY <1>1, <2>1, TakenStays
<1>2. CASE ~Acts(x)
  <2>1. Still(x)
    BY <1>2, WhoActs, EnvironmentLeavesAlone, OthersAreStill
  <2> QED BY <1>1, <2>1 DEF Still
<1>3. CASE RecordFailure(x)
  <2>1. cur[x] \in Pubs /\ row[cur[x]] \in Row /\ row[cur[x]].status = "PUBLISHING"
    BY <1>0, <1>3 DEF RecordFailure, AtDb, TypeOK, DutyInv, ClaimantsPublishing, ClaimedPc, Current
  <2>2. row' = [row EXCEPT ![cur[x]] = FailedRow(x, "provider")]
    BY <1>3, <2>1 DEF RecordFailure, Write, Matches
  <2>3. FailedRow(x, "provider").status = "FAILED"
    BY <2>1 DEF FailedRow, Current, Row
  <2>4. row'[cur[x]].status \in Settled
    BY <2>1, <2>2, <2>3 DEF TypeOK, Settled
  <2>5. Hop(x, Left)
    BY <1>3, TransitionHops
  <2> QED BY <2>4, <2>5, HopPoint
<1>4. CASE RecordSuccess(x)
  <2>1. Matches(x, "PUBLISHING")
    BY <1>0, <1>4 DEF RecordSuccess, AtDb, TypeOK, DutyInv, ClaimantsPublishing, ClaimedPc,
         Current, Matches
  <2>2. Return(x)
    BY <1>0, <1>4, <2>1 DEF RecordSuccess
  <2>3. pc'[x] \in {"finished", "idle"}
    BY <2>2 DEF Return, GoTo, Leave, TypeOK
  <2> QED BY <2>3
<1>5. CASE Read(x) /\ x \in Workers
  <2>1. cur[x] \in Pubs /\ row[cur[x]] \in Row /\ row[cur[x]].status \notin Untimed
    BY <1>5 DEF Read, AtDb, TypeOK, ScheduleInv, WorkersOnTime, Owes
  <2>2. HandledElsewhere(x) \/ Current(x).status = "QUEUED"
    BY <2>1 DEF HandledElsewhere, Current, Untimed, Settled, Row, Statuses
  <2>3. pc'[x] \in {"finished", "claim"}
    BY <1>5, <2>2 DEF Read, GoTo, TypeOK
  <2> QED BY <2>3
<1>6. CASE Reread(x)
  <2>1. HandledElsewhere(x)
    BY <1>0, <1>6 DEF Reread, AtDb, DutyInv, RereadersLate, HandledElsewhere, Taken
  <2>2. pc'[x] = "finished"
    BY <1>6, <2>1 DEF Reread, GoTo, TypeOK
  <2> QED BY <2>2
<1>7. CASE FailQueued(x)
  <2>1. Hop(x, Left \cup {"fail_publishing"})
    BY <1>7, TransitionHops
  <2> QED BY <1>1, <1>7, <2>1, HopPoint DEF FailQueued, AtDb
<1>8. CASE \/ EnqueueClaim(x) \/ SendFailed(x) \/ PublishClaim(x) \/ Claim(x) \/ FailPublishing(x)
  <2>1. \A point, session : GoTo(x, point, session) => pc'[x] = point
    BY DEF GoTo, TypeOK
  <2>2. Leave(x) => pc'[x] = "idle"
    BY DEF Leave, TypeOK
  <2> QED BY <1>0, <1>8, <2>1, <2>2
          DEF EnqueueClaim, SendFailed, PublishClaim, Claim, FailPublishing
<1>9. CASE \/ \E p \in Pubs : EnqueueRead(x, p) \/ PublishRead(x, p)
           \/ \E m \in Message : Deliver(x, m)
           \/ Send(x) \/ Load(x) \/ Upload(x)
  <2>1. pc'[x] \in {"enqueue_claim", "publish_claim", "read", "send_failed", "idle", "upload",
                    "record_failure", "record_success"}
    BY <1>9 DEF EnqueueRead, PublishRead, Begin, Deliver, Send, Load, Upload, GoTo, Leave, TypeOK
  <2> QED BY <2>1
<1>10. CASE Ack(x) \/ ClientCrash(x) \/ WorkerCrash(x)
  <2>1. pc'[x] = "idle"
    BY <1>10 DEF Ack, ClientCrash, WorkerCrash, Leave, TypeOK
  <2> QED BY <2>1
<1> HIDE DEF Failing
<1> QED BY <1>0, <1>2, <1>3, <1>4, <1>5, <1>6, <1>7, <1>8, <1>9, <1>10, CalmActs DEF CalmAct

LEMMA InitDuty == Init => DutyInv
  BY DEF Init, DutyInv, SessionsHealthy, Healthy, ClaimantsPublishing, RereadersLate,
         FailersLate, ClaimedPc, Procs

(* The claim, seen from the database while it answers: its holder's row stays  *)
(* PUBLISHING, so a duplicate's failure never strikes a publication in flight. *)
THEOREM DutyInvariant == Spec => []DutyInv
<1>1. ASSUME TypeOK, ClaimInv, ScheduleInv, DutyInv, [Next]_vars PROVE DutyInv'
  BY <1>1, SessionsStayHealthy, ClaimantsStayPublishing, RereadersStayLate, FailersStayLate
     DEF DutyInv
<1> QED BY <1>1, InitDuty, TypeInvariant, ClaimInvariant, ScheduleInvariant, PTL DEF Spec

(* The external id a successful response brings is never refused, unless a    *)
(* database call failed somewhere.                                            *)
THEOREM ResponseIsPersisted == Spec => []ResponseFindsItsClaim
<1>1. TypeOK /\ DutyInv => ResponseFindsItsClaim
  BY DEF DutyInv, ClaimantsPublishing, ClaimedPc, ResponseFindsItsClaim
<1> QED BY <1>1, TypeInvariant, DutyInvariant, PTL

-----------------------------------------------------------------------------
(* A queued publication is on somebody's agenda.                              *)

OnAgenda(p) ==
  \/ \E m \in Message : m.pub = p /\ queue[m] > 0
  \/ \E w \in Workers : cur[w] = p /\ pc[w] \in {"read", "claim"}
  \/ \E c \in Clients : cur[c] = p /\ pc[c] \in {"send", "send_failed"}

\* A row becomes QUEUED only under the request that will send its task.
LEMMA QueuedSource ==
  ASSUME TypeOK, ClaimInv, [Next]_vars, faults' = 0, DutyInv, NEW p \in Pubs,
         row[p].status # "QUEUED", row'[p].status = "QUEUED"
  PROVE  \E c \in Clients : cur'[c] = p /\ pc'[c] = "send"
<1>0. faults = 0 /\ \A x : ~DbFault(x) /\ \A from : ~LoseAnswer(x, from)
  BY FaultsOnlyGrow
<1>1. ~EnvironmentActs
  <2>1. ASSUME NEW q \in Pubs, Create(q) PROVE row'[p] = row[p] \/ row'[p].status = "PENDING"
    BY <2>1 DEF Create, TypeOK, Row
  <2> QED BY <2>1 DEF EnvironmentActs, Redeliver, Tick, vars
<1>2. PICK x \in Procs : Acts(x)
  BY <1>1, WhoActs
<1>3. CalmAct(x)
  BY <1>0, <1>2, CalmActs DEF DutyInv, SessionsHealthy
<1>4. ASSUME pc[x] # "idle", NEW from, NEW new, Write(x, from, new), new.status # "QUEUED"
      PROVE FALSE
  <2>1. Matches(x, from)
    BY <1>4, Zenon DEF Write
  <2>2. row' = [row EXCEPT ![cur[x]] = new]
    BY <1>4, <2>1 DEF Write
  <2> QED BY <1>4, <2>2 DEF TypeOK
<1>5. ASSUME pc[x] # "idle"
      PROVE  /\ ClaimedRow(x).status = "PUBLISHING" /\ PublishedRow(x).status = "PUBLISHED"
             /\ \A code : FailedRow(x, code).status = "FAILED"
  <2>1. row[cur[x]] \in Row
    BY <1>5 DEF TypeOK
  <2> QED BY <2>1 DEF ClaimedRow, PublishedRow, FailedRow, Current, Row
<1>6. ~(\/ SendFailed(x) \/ PublishClaim(x) \/ RecordFailure(x) \/ RecordSuccess(x) \/ Claim(x)
        \/ FailQueued(x) \/ FailPublishing(x))
  <2>1. SendFailed(x) \/ RecordFailure(x) \/ FailQueued(x) \/ FailPublishing(x) =>
          pc[x] # "idle" /\ \E from, code : Write(x, from, FailedRow(x, code))
    BY DEF SendFailed, RecordFailure, FailQueued, FailPublishing, AtDb
  <2>2. PublishClaim(x) \/ Claim(x) =>
          pc[x] # "idle" /\ \E from : Write(x, from, ClaimedRow(x))
    BY DEF PublishClaim, Claim, AtDb
  <2>3. RecordSuccess(x) => pc[x] # "idle" /\ \E from : Write(x, from, PublishedRow(x))
    BY DEF RecordSuccess, AtDb
  <2> QED BY <1>4, <1>5, <2>1, <2>2, <2>3
<1>7. EnqueueClaim(x)
  BY <1>3, <1>6 DEF CalmAct, EnqueueRead, PublishRead, Begin, Deliver, Send, Load, Upload, Read,
       Reread, Ack, ClientCrash, WorkerCrash
<1>8. x \in Clients
  <2>1. ASSUME x \in Workers PROVE FALSE
    <3>1. WorkerStep(x) \/ WorkerCrash(x)
      BY <1>0, <1>2, <2>1 DEF Acts, WorkerActs, Procs
    <3> QED BY <1>6, <1>7, <3>1 DEF WorkerStep, ClaimedStep, Deliver, Load, Upload, Read, Reread,
          Ack, PendingRollback, WorkerCrash, EnqueueClaim
  <2> QED BY <2>1 DEF Procs
<1>9. Matches(x, "PENDING")
  BY <1>7, Zenon DEF EnqueueClaim, Write
<1>10. cur[x] = p
  BY <1>7, <1>9 DEF EnqueueClaim, AtDb, Write, TypeOK
<1> QED BY <1>0, <1>7, <1>8, <1>9, <1>10 DEF EnqueueClaim, GoTo, TypeOK

\* A message leaves the queue only into the hands of a worker.
LEMMA MessageTaken ==
  ASSUME TypeOK, [Next]_vars, NEW m \in Message, queue[m] > 0, ~(queue'[m] > 0)
  PROVE  \E w \in Workers : pc'[w] = "read" /\ cur'[w] = m.pub
<1>0. Clients \subseteq Procs /\ Workers \subseteq Procs
  BY DEF Procs
<1>1. ASSUME NEW n \in Message, Accept(n) PROVE FALSE
  BY <1>1 DEF Accept, TypeOK
<1>2. ~EnvironmentActs
  BY <1>1 DEF EnvironmentActs, Create, Redeliver, Tick, vars
<1>3. PICK x \in Procs : Acts(x)
  BY <1>2, WhoActs
<1>4. ~Send(x) /\ ~WorkerCrash(x)
  <2>1. pc[x] # "idle" => SentMessage(x) \in Message /\ HeldMessage(x) \in Message
    BY HeldMessages
  <2> QED BY <1>1, <2>1 DEF Send, WorkerCrash
<1>5. x \in Workers /\ \E n \in Message : Deliver(x, n)
  BY <1>3, <1>4 DEF Acts, ClientActs, WorkerActs, ClientStep, WorkerStep, ClaimedStep, EnqueueRead,
       PublishRead, Begin, EnqueueClaim, SendFailed, PublishClaim, Load, Upload, RecordFailure,
       RecordSuccess, Read, Claim, Reread, FailQueued, FailPublishing, Ack, PendingRollback,
       DbFault, ClientCrash
<1>6. PICK n \in Message : Deliver(x, n)
  BY <1>5
<1>7. n = m
  BY <1>6 DEF Deliver, TypeOK
<1> QED BY <1>5, <1>6, <1>7 DEF Deliver, TypeOK

\* A worker that holds a queued publication hands it to nobody but the broker.
LEMMA WorkerKeepsTask ==
  ASSUME TypeOK, [Next]_vars, DutyInv, faults' = 0, NEW w \in Workers,
         pc[w] \in {"read", "claim"}, row[cur[w]].status = "QUEUED",
         row'[cur[w]].status = "QUEUED"
  PROVE  \/ cur'[w] = cur[w] /\ pc'[w] \in {"read", "claim"}
         \/ \E m \in Message : m.pub = cur[w] /\ queue'[m] > 0
<1>0. /\ w \in Procs /\ w \notin Clients /\ faults = 0 /\ Healthy(w)
      /\ cur[w] \in Pubs /\ row[cur[w]] \in Row
      /\ ~DbFault(w) /\ ~PendingRollback(w) /\ \A from : ~LoseAnswer(w, from)
  BY FaultsOnlyGrow DEF Procs, DutyInv, SessionsHealthy, TypeOK, PendingRollback
<1>1. CASE ~Acts(w)
  BY <1>0, <1>1, WhoActs, EnvironmentLeavesAlone, OthersAreStill DEF Still
<1>2. CASE Read(w)
  BY <1>0, <1>2 DEF Read, HandledElsewhere, Settled, Current, GoTo, TypeOK
<1>3. CASE Claim(w)
  <2>1. row' = [row EXCEPT ![cur[w]] = ClaimedRow(w)]
    BY <1>3 DEF Claim, Write, Matches
  <2>2. row'[cur[w]].status = "PUBLISHING"
    BY <1>0, <2>1 DEF ClaimedRow, Current, Row, TypeOK
  <2> QED BY <2>2
<1>4. CASE WorkerCrash(w)
  <2>1. HeldMessage(w) \in Message /\ HeldMessage(w).pub = cur[w]
    BY <1>0, <1>4, HeldMessages DEF WorkerCrash, HeldMessage
  <2>2. queue'[HeldMessage(w)] > 0
    BY <1>4, <2>1 DEF WorkerCrash, Accept, TypeOK
  <2> QED BY <2>1, <2>2
<1>5. CASE Acts(w) /\ ~Read(w) /\ ~Claim(w) /\ ~WorkerCrash(w)
  BY <1>0, <1>5 DEF Acts, WorkerActs, WorkerStep, ClaimedStep, Deliver, Load, Upload,
       RecordFailure, RecordSuccess, Reread, FailQueued, FailPublishing, Ack, AtDb
<1> QED BY <1>1, <1>2, <1>3, <1>4, <1>5

\* A request that is to send a task sends it, or fails the row.
LEMMA SenderKeepsTask ==
  ASSUME TypeOK, [Next]_vars, DutyInv, faults' = 0, NEW c \in Clients, ~ClientCrash(c),
         pc[c] \in {"send", "send_failed"}, row[cur[c]].status = "QUEUED",
         row'[cur[c]].status = "QUEUED"
  PROVE  \/ cur'[c] = cur[c] /\ pc'[c] \in {"send", "send_failed"}
         \/ \E m \in Message : m.pub = cur[c] /\ queue'[m] > 0
<1>0. /\ c \in Procs /\ c \notin Workers /\ faults = 0 /\ Healthy(c)
      /\ cur[c] \in Pubs /\ row[cur[c]] \in Row
      /\ ~DbFault(c) /\ ~PendingRollback(c) /\ \A from : ~LoseAnswer(c, from)
  BY FaultsOnlyGrow DEF Procs, DutyInv, SessionsHealthy, TypeOK, PendingRollback
<1>1. CASE ~Acts(c)
  BY <1>0, <1>1, WhoActs, EnvironmentLeavesAlone, OthersAreStill DEF Still
<1>2. CASE Send(c)
  <2>1. SentMessage(c) \in Message /\ SentMessage(c).pub = cur[c]
    BY <1>0, <1>2, HeldMessages DEF Send, SentMessage
  <2>2. Accept(SentMessage(c)) => queue'[SentMessage(c)] > 0
    BY <2>1 DEF Accept, TypeOK
  <2>3. GoTo(c, "send_failed", sess[c]) => cur'[c] = cur[c] /\ pc'[c] = "send_failed"
    BY <1>0 DEF GoTo, TypeOK
  <2> QED BY <1>2, <2>1, <2>2, <2>3 DEF Send
<1>3. CASE SendFailed(c)
  <2>1. row' = [row EXCEPT ![cur[c]] = FailedRow(c, "queue")]
    BY <1>3 DEF SendFailed, Write, Matches
  <2>2. row'[cur[c]].status = "FAILED"
    BY <1>0, <2>1 DEF FailedRow, Current, Row, TypeOK
  <2> QED BY <2>2
<1>4. CASE Acts(c) /\ ~Send(c) /\ ~SendFailed(c)
  BY <1>0, <1>4 DEF Acts, ClientActs, ClientStep, ClaimedStep, EnqueueRead, PublishRead, Begin,
       EnqueueClaim, PublishClaim, Load, Upload, RecordFailure, RecordSuccess, AtDb
<1> QED BY <1>1, <1>2, <1>3, <1>4

LEMMA CrashesOnlyGrow ==
  ASSUME TypeOK, [Next]_vars, clientCrashes' = 0
  PROVE  clientCrashes = 0 /\ \A c : ~ClientCrash(c)
<1>0. clientCrashes \in Nat
  BY DEF TypeOK
<1>1. \A c : ~ClientCrash(c)
  BY <1>0 DEF ClientCrash
<1>2. CASE EnvironmentActs
  BY <1>1, <1>2 DEF EnvironmentActs, Create, Redeliver, Tick, vars, envVars
<1>3. ASSUME NEW x \in Procs, Acts(x) PROVE clientCrashes = 0
  BY <1>1, <1>3 DEF Acts, ClientActs, WorkerActs, ClientStep, WorkerStep, ClaimedStep,
       EnqueueRead, PublishRead, Begin, Deliver, EnqueueClaim, Send, SendFailed, PublishClaim,
       Load, Upload, RecordFailure, RecordSuccess, Read, Claim, Reread, FailQueued,
       FailPublishing, Ack, PendingRollback, DbFault, WorkerCrash, Quiet, envVars
<1> QED BY <1>1, <1>2, <1>3, WhoActs

(* Acknowledging late and compensating a failing send leave no gap: while API  *)
(* processes survive and the database answers, a QUEUED row has a message, a   *)
(* worker, or a request that will send or fail it.                            *)
THEOREM QueuedIsOnAgenda == Spec => []QueuedHasTask
<1>0. QueuedHasTask <=> (Undisturbed => \A p \in Pubs : row[p].status = "QUEUED" => OnAgenda(p))
  BY DEF QueuedHasTask, OnAgenda
<1>1. Init => QueuedHasTask
  BY DEF Init, NoRow, QueuedHasTask
<1>2. ASSUME TypeOK, ClaimInv, DutyInv, QueuedHasTask, [Next]_vars PROVE QueuedHasTask'
  <2> SUFFICES ASSUME Undisturbed', NEW p \in Pubs, row'[p].status = "QUEUED"
               PROVE  OnAgenda(p)'
    BY DEF QueuedHasTask, OnAgenda
  <2>0. /\ faults' = 0 /\ Undisturbed /\ \A c : ~ClientCrash(c)
    BY <1>2, FaultsOnlyGrow, CrashesOnlyGrow DEF Undisturbed
  <2>1. CASE row[p].status # "QUEUED"
    BY <1>2, <2>0, <2>1, QueuedSource DEF OnAgenda
  <2>2. CASE row[p].status = "QUEUED"
    <3>1. OnAgenda(p)
      BY <1>0, <1>2, <2>0, <2>2
    <3>2. ASSUME NEW m \in Message, m.pub = p, queue[m] > 0 PROVE OnAgenda(p)'
      BY <1>2, <3>2, MessageTaken DEF OnAgenda
    <3>3. ASSUME NEW w \in Workers, cur[w] = p, pc[w] \in {"read", "claim"} PROVE OnAgenda(p)'
      BY <1>2, <2>0, <2>2, <3>3, WorkerKeepsTask DEF OnAgenda
    <3>4. ASSUME NEW c \in Clients, cur[c] = p, pc[c] \in {"send", "send_failed"}
          PROVE OnAgenda(p)'
      BY <1>2, <2>0, <2>2, <3>4, SenderKeepsTask DEF OnAgenda
    <3> QED BY <3>1, <3>2, <3>3, <3>4 DEF OnAgenda
  <2> QED BY <2>1, <2>2
<1> QED BY <1>1, <1>2, TypeInvariant, ClaimInvariant, DutyInvariant, PTL DEF Spec
=============================================================================
