------------------------- MODULE MediaPipelineProofs -------------------------
(***************************************************************************)
(* Proofs about MediaPipeline for any sets of assets, processes and          *)
(* publications and any number of failing calls: the types, what is handed    *)
(* out is served, what is accepted can be uploaded, failures are honest about *)
(* what YouTube received, and an orphan has cost a fault of its own.        *)
(***************************************************************************)
EXTENDS MediaPipeline, FiniteSetTheorems, TLAPS

USE NoAssetAssumption, NoContentAssumption, ProcsAssumption, BudgetsAssumption

-----------------------------------------------------------------------------
\* The control of a process, whichever of its ways of moving it takes.
ControlTypeOK ==
  /\ pc \in [Procs -> HandlerPcs \cup RunPcs]
  /\ \A h \in Handlers : pc[h] \in HandlerPcs
  /\ \A r \in Runs : pc[r] \in RunPcs
  /\ cur \in [Procs -> Assets \cup {NoAsset}]
  /\ body \in [Procs -> Content \cup {NoContent}]
  /\ \A x \in Procs : pc[x] \notin RestPcs => cur[x] \in Assets /\ body[x] \in Content

\* Where a process may go next: a handler or a run, by its own points.
PointsOf(x) == IF x \in Handlers THEN HandlerPcs ELSE RunPcs

\* Going on, leaving and taking an asset keep the control of every process typed.
LEMMA ControlTypes ==
  ASSUME ControlTypeOK, NEW x \in Procs
  PROVE  /\ \A point \in PointsOf(x) :
              (pc[x] \in RestPcs => point \in RestPcs) /\ GoTo(x, point) => ControlTypeOK'
         /\ \A point \in PointsOf(x) \cap RestPcs : Leave(x, point) => ControlTypeOK'
         /\ \A a \in Assets, content \in Content, maker \in {"upload", "step"} :
              Take(x, a, content, maker) => ControlTypeOK'
<1>1. ASSUME NEW point \in PointsOf(x), pc[x] \in RestPcs => point \in RestPcs, GoTo(x, point)
      PROVE  ControlTypeOK'
  BY <1>1 DEF ControlTypeOK, PointsOf, GoTo, Procs, HandlerPcs, RunPcs, RestPcs
<1>2. ASSUME NEW point \in PointsOf(x) \cap RestPcs, Leave(x, point)
      PROVE  ControlTypeOK'
  BY <1>2 DEF ControlTypeOK, PointsOf, Leave, Procs, HandlerPcs, RunPcs, RestPcs
<1>3. ASSUME NEW a \in Assets, NEW content \in Content, NEW maker \in {"upload", "step"},
             Take(x, a, content, maker)
      PROVE  ControlTypeOK'
  BY <1>3 DEF ControlTypeOK, Take, Procs, HandlerPcs, RunPcs, RestPcs
<1> QED BY <1>1, <1>2, <1>3

\* The types of what the processes work on.
DataTypeOK ==
  /\ bucket \in BOOLEAN
  /\ objects \in [Assets -> Content \cup {NoContent}]
  /\ rows \in [Assets -> Content \cup {NoContent}]
  /\ origin \in [Assets -> {"none", "upload", "step"}]
  /\ answered \subseteq Assets /\ artifacts \subseteq Assets /\ reported \subseteq Assets
  /\ dbFaults \in 0..MaxDbFaults
  /\ storageFaults \in 0..MaxStorageFaults
  /\ crashes \in 0..MaxCrashes

PublicationTypeOK ==
  /\ attempt \in [Pubs -> AttemptPcs]
  /\ media \in [Pubs -> Assets \cup {NoAsset}]
  /\ error \in [Pubs -> Errors]
  /\ stage \in [Pubs -> Stages]
  /\ received \in [Pubs -> BOOLEAN]

LEMMA TypeParts == TypeOK <=> ControlTypeOK /\ DataTypeOK /\ PublicationTypeOK
  BY DEF TypeOK, ControlTypeOK, DataTypeOK, PublicationTypeOK

\* A step of a handler keeps the types of the control and of the data.
LEMMA HandlerTypes ==
  ASSUME ControlTypeOK, DataTypeOK, NEW h \in Handlers, HandlerStep(h),
         UNCHANGED <<artifacts, reported>>
  PROVE  ControlTypeOK' /\ DataTypeOK'
<1> USE DEF DataTypeOK, stores, procs, spent, DbAnswers, DbFails, StorageAnswers, StorageFails,
            Stored, Recorded
<1>0. /\ h \in Procs /\ PointsOf(h) = HandlerPcs
      /\ pc[h] \notin RestPcs => cur[h] \in Assets /\ body[h] \in Content
  BY DEF Procs, PointsOf, ControlTypeOK
<1>1. CASE Start(h)
  <2>1. {"idle", "create_bucket"} \subseteq HandlerPcs /\ {"idle", "create_bucket"} \subseteq RestPcs
    BY DEF HandlerPcs, RestPcs
  <2>2. ControlTypeOK'
    BY <1>0, <1>1, <2>1, ControlTypes DEF Start
  <2>3. DataTypeOK'
    BY <1>1 DEF Start
  <2> QED BY <2>2, <2>3
<1>2. CASE CreateBucket(h)
  <2>1. "idle" \in HandlerPcs /\ "idle" \in RestPcs
    BY DEF HandlerPcs, RestPcs
  <2>2. ControlTypeOK'
    BY <1>0, <1>2, <2>1, ControlTypes DEF CreateBucket
  <2>3. bucket' \in BOOLEAN
    <3>1. bucket' = TRUE \/ bucket' \in {bucket, TRUE}
      BY <1>2 DEF CreateBucket
    <3> QED BY <3>1, Zenon
  <2>4. storageFaults' \in 0..MaxStorageFaults
    <3>1. StorageAnswers \/ StorageFails
      BY <1>2, Zenon DEF CreateBucket
    <3> QED BY <3>1
  <2>5. UNCHANGED <<objects, rows, origin, answered, dbFaults, crashes>>
    BY <1>2, Zenon DEF CreateBucket
  <2>6. DataTypeOK'
    BY <2>3, <2>4, <2>5
  <2> QED BY <2>2, <2>6
<1>3. CASE Stop(h)
  <2>1. "down" \in HandlerPcs /\ "down" \in RestPcs
    BY DEF HandlerPcs, RestPcs
  <2>2. ControlTypeOK'
    BY <1>0, <1>3, <2>1, ControlTypes DEF Stop
  <2>3. DataTypeOK'
    BY <1>3 DEF Stop
  <2> QED BY <2>2, <2>3
<1>4. ASSUME NEW a \in Assets, NEW content \in Content, UploadRequest(h, a, content)
      PROVE  ControlTypeOK' /\ DataTypeOK'
  <2>1. ControlTypeOK'
    BY <1>0, <1>4, ControlTypes DEF UploadRequest
  <2>2. DataTypeOK'
    BY <1>4 DEF UploadRequest, Take
  <2> QED BY <2>1, <2>2
<1>5. CASE Put(h, "insert")
  <2>1. {"insert", "idle"} \subseteq HandlerPcs /\ "idle" \in RestPcs /\ pc[h] \notin RestPcs
    BY <1>5 DEF Put, HandlerPcs, RestPcs
  <2>2. ControlTypeOK'
    BY <1>0, <1>5, <2>1, ControlTypes DEF Put
  <2>3. DataTypeOK'
    BY <1>0, <1>5, <2>1 DEF Put
  <2> QED BY <2>2, <2>3
<1>6. CASE Insert(h)
  <2>1. {"compensate", "idle"} \subseteq HandlerPcs /\ "idle" \in RestPcs /\ pc[h] \notin RestPcs
    BY <1>6 DEF Insert, HandlerPcs, RestPcs
  <2>2. ControlTypeOK'
    BY <1>0, <1>6, <2>1, ControlTypes DEF Insert
  <2>3. DataTypeOK'
    BY <1>0, <1>6, <2>1 DEF Insert
  <2> QED BY <2>2, <2>3
<1>7. CASE Compensate(h)
  <2>1. "idle" \in HandlerPcs /\ "idle" \in RestPcs
    BY DEF HandlerPcs, RestPcs
  <2>2. ControlTypeOK'
    BY <1>0, <1>7, <2>1, ControlTypes DEF Compensate
  <2>3. DataTypeOK'
    BY <1>0, <1>7 DEF Compensate
  <2> QED BY <2>2, <2>3
<1>8. CASE Crash(h)
  <2>1. "down" \in HandlerPcs /\ "down" \in RestPcs
    BY DEF HandlerPcs, RestPcs
  <2>2. ControlTypeOK'
    BY <1>0, <1>8, <2>1, ControlTypes DEF Crash
  <2>3. DataTypeOK'
    BY <1>8 DEF Crash
  <2> QED BY <2>2, <2>3
<1> QED BY <1>1, <1>2, <1>3, <1>4, <1>5, <1>6, <1>7, <1>8 DEF HandlerStep

\* So does a step of a run.
LEMMA RunTypes ==
  ASSUME ControlTypeOK, DataTypeOK, NEW r \in Runs, RunStep(r)
  PROVE  ControlTypeOK' /\ DataTypeOK'
<1> USE DEF DataTypeOK, stores, procs, spent, tables, publisher, DbAnswers, DbFails,
            StorageAnswers, StorageFails, Stored, Recorded
<1>0. /\ r \in Procs /\ PointsOf(r) = RunPcs /\ r \notin Handlers
      /\ pc[r] \notin RestPcs => cur[r] \in Assets /\ body[r] \in Content
      /\ RunPcs = {"idle", "put", "register", "artifact", "report"} /\ "idle" \in RestPcs
  BY DEF Procs, PointsOf, ControlTypeOK, RunPcs, RestPcs
<1>1. ASSUME NEW a \in Assets, ImageStep(r, a) PROVE ControlTypeOK' /\ DataTypeOK'
  <2>1. PICK size \in {"empty", "fits"} : Take(r, a, [type |-> "png", size |-> size], "step")
    BY <1>1 DEF ImageStep
  <2>2. [type |-> "png", size |-> size] \in Content
    BY DEF Content, Types
  <2>3. ControlTypeOK'
    BY <1>0, <2>1, <2>2, ControlTypes
  <2>4. DataTypeOK'
    BY <1>1, <2>1 DEF ImageStep, Take
  <2> QED BY <2>3, <2>4
<1>2. ASSUME NEW a \in Assets, VideoStep(r, a) PROVE ControlTypeOK' /\ DataTypeOK'
  <2>1. VideoContent \in Content
    BY DEF VideoContent, Content, Types
  <2>2. ControlTypeOK'
    BY <1>0, <1>2, <2>1, ControlTypes DEF VideoStep
  <2>3. DataTypeOK'
    BY <1>2 DEF VideoStep, Take
  <2> QED BY <2>2, <2>3
<1>3. CASE Put(r, "register") /\ UNCHANGED <<tables, publisher>>
  <2>1. pc[r] \notin RestPcs
    BY <1>3 DEF Put, RestPcs
  <2>2. ControlTypeOK'
    BY <1>0, <1>3, <2>1, ControlTypes DEF Put
  <2>3. DataTypeOK'
    BY <1>0, <1>3, <2>1 DEF Put
  <2> QED BY <2>2, <2>3
<1>4. CASE Crash(r) /\ UNCHANGED <<tables, publisher>>
  <2>1. ControlTypeOK'
    BY <1>0, <1>4, ControlTypes DEF Crash
  <2>2. DataTypeOK'
    BY <1>4 DEF Crash
  <2> QED BY <2>1, <2>2
<1>5. CASE Register(r)
  <2>1. pc[r] \notin RestPcs
    BY <1>5 DEF Register, RestPcs
  <2>2. ControlTypeOK'
    BY <1>0, <1>5, <2>1, ControlTypes DEF Register
  <2>3. DataTypeOK'
    BY <1>0, <1>5, <2>1 DEF Register
  <2> QED BY <2>2, <2>3
<1>6. CASE RecordArtifact(r)
  <2>1. pc[r] \notin RestPcs
    BY <1>6 DEF RecordArtifact, RestPcs
  <2>2. ControlTypeOK'
    BY <1>0, <1>6, <2>1, ControlTypes DEF RecordArtifact
  <2>3. DataTypeOK'
    BY <1>0, <1>6, <2>1 DEF RecordArtifact
  <2> QED BY <2>2, <2>3
<1>7. CASE Report(r)
  <2>1. pc[r] \notin RestPcs
    BY <1>7 DEF Report, RestPcs
  <2>2. ControlTypeOK'
    BY <1>0, <1>7, ControlTypes DEF Report
  <2>3. DataTypeOK'
    BY <1>0, <1>7, <2>1 DEF Report
  <2> QED BY <2>2, <2>3
<1> QED BY <1>1, <1>2, <1>3, <1>4, <1>5, <1>6, <1>7 DEF RunStep

\* And a step of a publication, which is no process of the pipeline.
LEMMA PublicationTypes ==
  ASSUME DataTypeOK, PublicationTypeOK, NEW p \in Pubs, PublicationStep(p)
  PROVE  DataTypeOK' /\ PublicationTypeOK'
<1> USE DEF DataTypeOK, PublicationTypeOK, stores, procs, spent, tables, DbAnswers, DbFails,
            StorageAnswers, StorageFails, Fail, Advance, AttemptPcs, Errors, EarlyErrors,
            Stages, EarlyStages
<1>1. ASSUME NEW a \in Assets, Accept(p, a) PROVE DataTypeOK' /\ PublicationTypeOK'
  BY <1>1 DEF Accept
<1>2. CASE Load(p)
  BY <1>2 DEF Load
<1>3. CASE Resolve(p)
  BY <1>3 DEF Resolve
<1>4. CASE Download(p)
  BY <1>4 DEF Download
<1>5. CASE Construct(p)
  BY <1>5 DEF Construct
<1>6. CASE Execute(p)
  <2>1. received' \in [Pubs -> BOOLEAN]
    <3>1. \/ received' = [received EXCEPT ![p] = TRUE]
          \/ \E arrived \in BOOLEAN : received' = [received EXCEPT ![p] = arrived]
          \/ received' = received
      BY <1>6, Zenon DEF Execute
    <3> QED BY <3>1
  <2>2. /\ attempt' \in [Pubs -> AttemptPcs]
        /\ error' \in [Pubs -> Errors]
        /\ stage' \in [Pubs -> Stages]
    BY <1>6 DEF Execute
  <2>3. UNCHANGED <<stores, procs, spent, tables, media>>
    BY <1>6, Zenon DEF Execute
  <2> QED BY <2>1, <2>2, <2>3
<1> QED BY <1>1, <1>2, <1>3, <1>4, <1>5, <1>6 DEF PublicationStep

\* Every step keeps the types.
LEMMA TypeStep ==
  ASSUME TypeOK, [Next]_vars
  PROVE  TypeOK'
<1>0. ControlTypeOK /\ DataTypeOK /\ PublicationTypeOK
  BY TypeParts
<1>1. ASSUME NEW h \in Handlers, HandlerStep(h), UNCHANGED <<tables, publisher>>
      PROVE  ControlTypeOK' /\ DataTypeOK' /\ PublicationTypeOK'
  BY <1>0, <1>1, HandlerTypes DEF tables, publisher, PublicationTypeOK
<1>2. ASSUME NEW r \in Runs, RunStep(r)
      PROVE  ControlTypeOK' /\ DataTypeOK' /\ PublicationTypeOK'
  <2>1. UNCHANGED publisher
    BY <1>2 DEF RunStep, ImageStep, VideoStep, Register, RecordArtifact, Report
  <2> QED BY <1>0, <1>2, <2>1, RunTypes DEF publisher, PublicationTypeOK
<1>3. ASSUME NEW p \in Pubs, PublicationStep(p)
      PROVE  ControlTypeOK' /\ DataTypeOK' /\ PublicationTypeOK'
  <2>1. UNCHANGED procs
    BY <1>3 DEF PublicationStep, Accept, Load, Resolve, Download, Construct, Execute
  <2> QED BY <1>0, <1>3, <2>1, PublicationTypes DEF procs, ControlTypeOK
<1>4. ASSUME UNCHANGED vars
      PROVE  ControlTypeOK' /\ DataTypeOK' /\ PublicationTypeOK'
  BY <1>0, <1>4 DEF vars, stores, procs, spent, tables, publisher, ControlTypeOK, DataTypeOK,
              PublicationTypeOK
<1>5. ControlTypeOK' /\ DataTypeOK' /\ PublicationTypeOK'
  BY <1>1, <1>2, <1>3, <1>4 DEF Next
<1> QED BY <1>5 DEF TypeOK, ControlTypeOK, DataTypeOK, PublicationTypeOK

\* The initial states have the types.
LEMMA InitTypes ==
  ASSUME Init
  PROVE  TypeOK
<1>1. ControlTypeOK
  BY DEF Init, StorageInit, ControlTypeOK, Procs, HandlerPcs, RunPcs, RestPcs
<1>2. DataTypeOK
  BY DEF Init, StorageInit, DataTypeOK
<1>3. PublicationTypeOK
  BY DEF Init, PublicationTypeOK, AttemptPcs, Errors, EarlyErrors, Stages, EarlyStages
<1> QED BY <1>1, <1>2, <1>3, TypeParts

\* Every variable stays in its range, whatever the sets and the bounds are.
THEOREM TypeInvariant == Spec => []TypeOK
<1>1. Init => TypeOK
  BY InitTypes
<1>2. TypeOK /\ [Next]_vars => TypeOK'
  BY TypeStep
<1> QED BY <1>1, <1>2, PTL DEF Spec
-----------------------------------------------------------------------------
\* The asset a process has in hand: nothing is handed out before it is stored,
\* and what is being registered or recorded is what was stored.
WorkOK(x) ==
  /\ pc[x] \in RestPcs => cur[x] = NoAsset
  /\ pc[x] \in {"put", "insert", "compensate", "register"} => cur[x] \notin HandedOut
  /\ pc[x] \in {"insert", "register", "artifact", "report"} => objects[cur[x]] = body[x]
  /\ pc[x] \in {"artifact", "report"} => rows[cur[x]] = body[x]
  /\ pc[x] = "report" => cur[x] \in artifacts

\* No two processes work on one asset, and nobody knows one that has no maker.
OwnedOK ==
  /\ \A x, y \in Procs : cur[x] = cur[y] /\ cur[x] # NoAsset => x = y
  /\ \A a \in Assets : origin[a] = "none" => a \notin HandedOut /\ \A x \in Procs : cur[x] # a

ServedOK == \A a \in HandedOut : rows[a] \in Content /\ objects[a] = rows[a]

\* What makes HandedOutIsServed inductive.
StoreInv ==
  /\ TypeOK
  /\ reported \subseteq artifacts
  /\ OwnedOK
  /\ \A x \in Procs : WorkOK(x)
  /\ ServedOK

\* What makes the properties of an attempt inductive: it is about a video that
\* was handed out, fails once, and YouTube has it only when the failure says so.
AttemptOK(p) ==
  /\ attempt[p] # "absent" => media[p] \in HandedOut /\ Publishable(rows[media[p]])
  /\ attempt[p] # "failed" => error[p] = "none" /\ stage[p] = "none"
  /\ received[p] => /\ attempt[p] \in {"published", "failed"}
                    /\ error[p] \notin EarlyErrors /\ stage[p] \notin EarlyStages
  /\ error[p] \notin {"ASSET_NOT_FOUND", "ASSET_NOT_PUBLISHABLE", "YOUTUBE_INVALID_MEDIA"}
  /\ error[p] = "YOUTUBE_ASSET_RETRIEVAL_ERROR" => storageFaults > 0

PipelineInv == StoreInv /\ \A p \in Pubs : AttemptOK(p)

\* A step of a process: it leaves the others, and what is stored or known of any
\* other asset than the one it has in hand, alone.
Frame(x) ==
  /\ UNCHANGED origin
  /\ \A y \in Procs \ {x} : pc'[y] = pc[y] /\ cur'[y] = cur[y] /\ body'[y] = body[y]
  /\ cur'[x] \in {cur[x], NoAsset}
  /\ \A a \in Assets \ {cur[x]} :
       /\ objects'[a] = objects[a] /\ rows'[a] = rows[a]
       /\ a \in answered' <=> a \in answered
       /\ a \in artifacts' <=> a \in artifacts
       /\ a \in reported' <=> a \in reported

\* What it does to that one: handed out means served, reported means recorded.
OwnOK(x) ==
  /\ cur[x] \in reported' => cur[x] \in artifacts'
  /\ cur[x] \in HandedOut' => /\ rows'[cur[x]] \in Content
                              /\ objects'[cur[x]] = rows'[cur[x]]

\* Publications may rely on what was handed out once.
Kept == \A a \in HandedOut : a \in HandedOut' /\ rows'[a] = rows[a]

\* A step within its frame that is right about its own asset keeps the invariant.
LEMMA FrameKeeps ==
  ASSUME StoreInv, TypeOK', NEW x \in Procs, Frame(x), OwnOK(x), WorkOK(x)'
  PROVE  StoreInv'
<1> USE DEF HandedOut
<1>0. /\ \A y \in Procs : pc[y] \notin RestPcs => cur[y] \in Assets
      /\ \A y \in Procs : cur[y] \in Assets \cup {NoAsset}
      /\ answered' \subseteq Assets /\ artifacts' \subseteq Assets /\ reported' \subseteq Assets
  BY DEF StoreInv, TypeOK
<1>1. (reported \subseteq artifacts)'
  BY <1>0 DEF StoreInv, Frame, OwnOK
<1>2. OwnedOK'
  <2>1. \A y, z \in Procs : cur'[y] = cur'[z] /\ cur'[y] # NoAsset => y = z
    BY DEF StoreInv, OwnedOK, Frame
  <2>2. ASSUME NEW a \in Assets, origin[a] = "none"
        PROVE  a \notin HandedOut' /\ \A y \in Procs : cur'[y] # a
    BY <2>2 DEF StoreInv, OwnedOK, Frame
  <2> QED BY <2>1, <2>2 DEF OwnedOK, Frame
<1>3. ASSUME NEW y \in Procs PROVE WorkOK(y)'
  <2>1. CASE y = x
    BY <2>1
  <2>2. CASE y # x
    <3>1. pc'[y] = pc[y] /\ cur'[y] = cur[y] /\ body'[y] = body[y]
      BY <2>2 DEF Frame
    <3>2. CASE cur[y] = NoAsset
      BY <1>0, <3>1, <3>2 DEF WorkOK, StoreInv, RestPcs
    <3>3. CASE cur[y] \in Assets
      <4>1. cur[y] \in Assets \ {cur[x]}
        BY <2>2, <3>3 DEF StoreInv, OwnedOK
      <4> QED BY <1>0, <3>1, <4>1 DEF WorkOK, StoreInv, Frame, RestPcs
    <3> QED BY <1>0, <3>2, <3>3
  <2> QED BY <2>1, <2>2
<1>4. ServedOK'
  BY <1>0 DEF StoreInv, ServedOK, Frame, OwnOK
<1> QED BY <1>1, <1>2, <1>3, <1>4 DEF StoreInv

\* A process that takes a fresh asset keeps it too: nobody knows that asset.
LEMMA TakeKeeps ==
  ASSUME StoreInv, TypeOK', NEW x \in Procs, NEW a \in Assets, NEW content,
         NEW maker \in {"upload", "step"}, Take(x, a, content, maker),
         UNCHANGED <<objects, rows, answered, artifacts, reported>>
  PROVE  StoreInv' /\ Kept
<1> USE DEF HandedOut
<1>0. /\ pc[x] = "idle" /\ origin[a] = "none" /\ cur[x] = NoAsset
      /\ pc' = [pc EXCEPT ![x] = "put"] /\ pc \in [Procs -> HandlerPcs \cup RunPcs]
      /\ cur' = [cur EXCEPT ![x] = a] /\ cur \in [Procs -> Assets \cup {NoAsset}]
      /\ body' = [body EXCEPT ![x] = content] /\ body \in [Procs -> Content \cup {NoContent}]
      /\ origin' = [origin EXCEPT ![a] = maker]
      /\ origin \in [Assets -> {"none", "upload", "step"}]
  BY DEF StoreInv, TypeOK, Take, WorkOK, RestPcs
<1>1. a \notin HandedOut /\ \A y \in Procs : cur[y] # a
  BY <1>0 DEF StoreInv, OwnedOK
<1>2. OwnedOK'
  BY <1>0, <1>1 DEF StoreInv, OwnedOK
<1>3. ASSUME NEW y \in Procs PROVE WorkOK(y)'
  BY <1>0, <1>1 DEF StoreInv, WorkOK, RestPcs
<1>4. ServedOK' /\ (reported \subseteq artifacts)'
  BY DEF StoreInv, ServedOK
<1>5. Kept
  BY DEF Kept
<1> QED BY <1>2, <1>3, <1>4, <1>5 DEF StoreInv

\* The steps of a handler.
LEMMA HandlerKeeps ==
  ASSUME StoreInv, TypeOK', NEW h \in Handlers, HandlerStep(h), UNCHANGED <<artifacts, reported>>
  PROVE  StoreInv' /\ Kept
<1> USE DEF HandedOut, stores, procs, spent, Stored, Recorded
<1> DEFINE Sound == Frame(h) /\ OwnOK(h) /\ WorkOK(h)' /\ Kept
<1>0. /\ h \in Procs /\ WorkOK(h) /\ ServedOK /\ reported \subseteq artifacts
      /\ pc[h] \notin RestPcs => cur[h] \in Assets /\ body[h] \in Content
      /\ pc \in [Procs -> HandlerPcs \cup RunPcs]
      /\ cur \in [Procs -> Assets \cup {NoAsset}]
      /\ body \in [Procs -> Content \cup {NoContent}]
      /\ objects \in [Assets -> Content \cup {NoContent}]
      /\ rows \in [Assets -> Content \cup {NoContent}]
      /\ answered \subseteq Assets /\ artifacts \subseteq Assets /\ reported \subseteq Assets
  BY DEF StoreInv, TypeOK, Procs
<1>1. CASE Start(h) \/ CreateBucket(h) \/ Stop(h)
  <2>1. /\ pc[h] \in RestPcs
        /\ \E point \in RestPcs : GoTo(h, point)
        /\ UNCHANGED <<objects, rows, origin, answered>>
    BY <1>1, Zenon DEF Start, CreateBucket, Stop, RestPcs
  <2>2. Sound
    BY <1>0, <2>1 DEF GoTo, RestPcs, Frame, OwnOK, WorkOK, Kept, ServedOK
  <2> QED BY <1>0, <2>2, FrameKeeps
<1>2. ASSUME NEW a \in Assets, NEW content \in Content, UploadRequest(h, a, content)
      PROVE  StoreInv' /\ Kept
  BY <1>0, <1>2, TakeKeeps DEF UploadRequest
<1>3. CASE Put(h, "insert")
  <2>1. Sound
    BY <1>0, <1>3 DEF Put, GoTo, Leave, RestPcs, Frame, OwnOK, WorkOK, Kept, ServedOK
  <2> QED BY <1>0, <2>1, FrameKeeps
<1>4. CASE Insert(h)
  <2>1. Sound
    BY <1>0, <1>4 DEF Insert, GoTo, Leave, RestPcs, Frame, OwnOK, WorkOK, Kept, ServedOK
  <2> QED BY <1>0, <2>1, FrameKeeps
<1>5. CASE Compensate(h)
  <2>1. Sound
    BY <1>0, <1>5 DEF Compensate, Leave, RestPcs, Frame, OwnOK, WorkOK, Kept, ServedOK
  <2> QED BY <1>0, <2>1, FrameKeeps
<1>6. CASE Crash(h)
  <2>1. Sound
    BY <1>0, <1>6 DEF Crash, Leave, RestPcs, Frame, OwnOK, WorkOK, Kept, ServedOK
  <2> QED BY <1>0, <2>1, FrameKeeps
<1> QED BY <1>1, <1>2, <1>3, <1>4, <1>5, <1>6 DEF HandlerStep

\* The steps of a run.
LEMMA RunKeeps ==
  ASSUME StoreInv, TypeOK', NEW r \in Runs, RunStep(r)
  PROVE  StoreInv' /\ Kept
<1> USE DEF HandedOut, stores, procs, spent, tables, publisher, Stored, Recorded
<1> DEFINE Sound == Frame(r) /\ OwnOK(r) /\ WorkOK(r)' /\ Kept
<1>0. /\ r \in Procs /\ r \notin Handlers /\ WorkOK(r) /\ ServedOK /\ reported \subseteq artifacts
      /\ pc[r] \notin RestPcs => cur[r] \in Assets /\ body[r] \in Content
      /\ pc \in [Procs -> HandlerPcs \cup RunPcs]
      /\ cur \in [Procs -> Assets \cup {NoAsset}]
      /\ body \in [Procs -> Content \cup {NoContent}]
      /\ objects \in [Assets -> Content \cup {NoContent}]
      /\ rows \in [Assets -> Content \cup {NoContent}]
      /\ answered \subseteq Assets /\ artifacts \subseteq Assets /\ reported \subseteq Assets
  BY DEF StoreInv, TypeOK, Procs
<1>1. ASSUME NEW a \in Assets, ImageStep(r, a) \/ VideoStep(r, a)
      PROVE  StoreInv' /\ Kept
  <2>1. \E content : Take(r, a, content, "step")
    BY <1>1 DEF ImageStep, VideoStep
  <2>2. UNCHANGED <<objects, rows, answered, artifacts, reported>>
    BY <1>1 DEF ImageStep, VideoStep
  <2> QED BY <1>0, <2>1, <2>2, TakeKeeps
<1>2. CASE Put(r, "register") /\ UNCHANGED <<tables, publisher>>
  <2>1. Sound
    BY <1>0, <1>2 DEF Put, GoTo, Leave, RestPcs, Frame, OwnOK, WorkOK, Kept, ServedOK
  <2> QED BY <1>0, <2>1, FrameKeeps
<1>3. CASE Crash(r) /\ UNCHANGED <<tables, publisher>>
  <2>1. Sound
    BY <1>0, <1>3 DEF Crash, Leave, RestPcs, Frame, OwnOK, WorkOK, Kept, ServedOK
  <2> QED BY <1>0, <2>1, FrameKeeps
<1>4. CASE Register(r)
  <2>1. Sound
    BY <1>0, <1>4 DEF Register, GoTo, Leave, RestPcs, Frame, OwnOK, WorkOK, Kept, ServedOK
  <2> QED BY <1>0, <2>1, FrameKeeps
<1>5. CASE RecordArtifact(r)
  <2>1. Sound
    BY <1>0, <1>5 DEF RecordArtifact, GoTo, Leave, RestPcs, Frame, OwnOK, WorkOK, Kept, ServedOK
  <2> QED BY <1>0, <2>1, FrameKeeps
<1>6. CASE Report(r)
  <2>1. Sound
    BY <1>0, <1>6 DEF Report, Leave, RestPcs, Frame, OwnOK, WorkOK, Kept, ServedOK
  <2> QED BY <1>0, <2>1, FrameKeeps
<1> QED BY <1>1, <1>2, <1>3, <1>4, <1>5, <1>6 DEF RunStep

\* A step of a publication has no part in the stores, and keeps its attempt right.
LEMMA AttemptKeeps ==
  ASSUME StoreInv, TypeOK', \A q \in Pubs : AttemptOK(q), NEW p \in Pubs, PublicationStep(p)
  PROVE  \A q \in Pubs : AttemptOK(q)'
<1> USE DEF HandedOut, stores, procs, spent, tables
<1>0. /\ attempt \in [Pubs -> AttemptPcs] /\ media \in [Pubs -> Assets \cup {NoAsset}]
      /\ error \in [Pubs -> Errors] /\ stage \in [Pubs -> Stages]
      /\ received \in [Pubs -> BOOLEAN]
      /\ storageFaults \in Nat /\ NoContent \notin Content
      /\ AttemptOK(p) /\ \A q \in Pubs : AttemptOK(q)
  BY DEF StoreInv, TypeOK
<1>1. UNCHANGED <<objects, rows, answered, artifacts, reported>>
  BY DEF PublicationStep, Accept, Load, Resolve, Download, Construct, Execute
<1>2. \A q \in Pubs \ {p} : /\ attempt'[q] = attempt[q] /\ media'[q] = media[q]
                            /\ error'[q] = error[q] /\ stage'[q] = stage[q]
                            /\ received'[q] = received[q]
  BY <1>0 DEF PublicationStep, Accept, Load, Resolve, Download, Construct, Execute, Fail, Advance
<1>3. storageFaults' \in {storageFaults, storageFaults + 1}
  BY DEF PublicationStep, Accept, Load, Resolve, Download, Construct, Execute,
         StorageAnswers, StorageFails
<1>4. ASSUME NEW q \in Pubs \ {p} PROVE AttemptOK(q)'
  BY <1>0, <1>1, <1>2, <1>3 DEF AttemptOK, Publishable
<1>5. AttemptOK(p)'
  <2> USE DEF AttemptOK, Fail, Advance, EarlyErrors, EarlyStages
  <2>1. ASSUME NEW a \in Assets, Accept(p, a) PROVE AttemptOK(p)'
    BY <1>0, <2>1 DEF Accept, Publishable
  <2>2. CASE Load(p)
    <3>1. rows[media[p]] # NoContent /\ Publishable(rows[media[p]])
      BY <1>0, <2>2 DEF Load, StoreInv, ServedOK
    <3> QED BY <1>0, <2>2, <3>1 DEF Load, Publishable
  <2>3. CASE Resolve(p)
    BY <1>0, <2>3 DEF Resolve, Publishable
  <2>4. CASE Download(p)
    <3>1. objects[media[p]] # NoContent /\ Uploadable(rows[media[p]], objects[media[p]])
      BY <1>0, <2>4 DEF Download, StoreInv, ServedOK, Publishable, Uploadable
    <3>2. StorageFails => storageFaults' > 0
      BY <1>0 DEF StorageFails
    <3> QED BY <1>0, <2>4, <3>1, <3>2 DEF Download, Publishable
  <2>5. CASE Construct(p)
    BY <1>0, <2>5 DEF Construct, Publishable
  <2>6. CASE Execute(p)
    BY <1>0, <2>6 DEF Execute, Publishable
  <2> QED BY <2>1, <2>2, <2>3, <2>4, <2>5, <2>6 DEF PublicationStep
<1> QED BY <1>4, <1>5

\* What a process does leaves every attempt right: what was handed out is kept.
LEMMA KeptKeepsAttempts ==
  ASSUME StoreInv, TypeOK', Kept, \A q \in Pubs : AttemptOK(q),
         UNCHANGED publisher, storageFaults' >= storageFaults
  PROVE  \A q \in Pubs : AttemptOK(q)'
<1>1. storageFaults \in Nat /\ storageFaults' \in Nat
  BY DEF StoreInv, TypeOK
<1> QED BY <1>1 DEF publisher, AttemptOK, Kept

\* A handler's step sees the storage answer or fail, and counts the failures.
LEMMA StorageCalls ==
  ASSUME NEW h \in Handlers, HandlerStep(h)
  PROVE  StorageAnswers \/ StorageFails
<1>1. CASE CreateBucket(h)
  BY <1>1, Zenon DEF CreateBucket
<1>2. CASE Put(h, "insert")
  BY <1>2, Zenon DEF Put
<1>3. ASSUME ~CreateBucket(h), ~Put(h, "insert")
      PROVE  StorageAnswers \/ StorageFails
  BY <1>3 DEF HandlerStep, Start, Stop, UploadRequest, Insert, Compensate, Crash,
              StorageAnswers, stores, spent
<1> QED BY <1>1, <1>2, <1>3

\* The step of the induction.
LEMMA PipelineStep ==
  ASSUME PipelineInv, [Next]_vars
  PROVE  PipelineInv'
<1>0. StoreInv /\ TypeOK' /\ storageFaults \in Nat /\ \A q \in Pubs : AttemptOK(q)
  BY TypeStep DEF PipelineInv, StoreInv, TypeOK
<1>1. ASSUME NEW h \in Handlers, HandlerStep(h), UNCHANGED <<tables, publisher>>
      PROVE  PipelineInv'
  <2>1. StoreInv' /\ Kept
    BY <1>0, <1>1, HandlerKeeps DEF tables
  <2>2. storageFaults' >= storageFaults
    BY <1>0, <1>1, StorageCalls DEF StorageAnswers, StorageFails
  <2> QED BY <1>0, <1>1, <2>1, <2>2, KeptKeepsAttempts DEF PipelineInv
<1>2. ASSUME NEW r \in Runs, RunStep(r) PROVE PipelineInv'
  <2>1. StoreInv' /\ Kept
    BY <1>0, <1>2, RunKeeps
  <2>2. storageFaults' >= storageFaults /\ UNCHANGED publisher
    BY <1>0, <1>2 DEF RunStep, ImageStep, VideoStep, Put, Crash, Register, RecordArtifact, Report,
                      StorageAnswers, StorageFails, spent
  <2> QED BY <1>0, <2>1, <2>2, KeptKeepsAttempts DEF PipelineInv
<1>3. ASSUME NEW p \in Pubs, PublicationStep(p) PROVE PipelineInv'
  <2>1. UNCHANGED <<objects, rows, origin, answered, pc, cur, body, artifacts, reported>>
    BY <1>3 DEF PublicationStep, Accept, Load, Resolve, Download, Construct, Execute,
                stores, procs, tables
  <2>2. StoreInv'
    <3>1. OwnedOK' /\ ServedOK' /\ (reported \subseteq artifacts)'
      BY <1>0, <2>1 DEF StoreInv, OwnedOK, ServedOK, HandedOut
    <3>2. ASSUME NEW x \in Procs PROVE WorkOK(x)'
      BY <1>0, <2>1 DEF StoreInv, WorkOK, HandedOut
    <3> QED BY <1>0, <3>1, <3>2 DEF StoreInv
  <2> QED BY <1>0, <1>3, <2>2, AttemptKeeps DEF PipelineInv
<1>4. CASE UNCHANGED vars
  BY <1>0, <1>4 DEF vars, stores, procs, spent, tables, publisher, PipelineInv, StoreInv, OwnedOK,
                    WorkOK, ServedOK, HandedOut, AttemptOK
<1> QED BY <1>1, <1>2, <1>3, <1>4 DEF Next

\* The inductive invariant: one maker per asset until it is handed out, and an
\* attempt that knows what YouTube may have received.
THEOREM PipelineInvariant == Spec => []PipelineInv
<1>1. Init => PipelineInv
  <2> SUFFICES ASSUME Init PROVE PipelineInv
    OBVIOUS
  <2>1. TypeOK
    BY InitTypes
  <2>2. \A x \in Procs : pc[x] \in RestPcs /\ cur[x] = NoAsset /\ WorkOK(x)
    BY DEF Init, StorageInit, WorkOK, RestPcs
  <2>3. OwnedOK /\ ServedOK /\ reported \subseteq artifacts
    BY <2>2 DEF Init, StorageInit, OwnedOK, ServedOK, HandedOut
  <2>4. \A p \in Pubs : AttemptOK(p)
    BY DEF Init, AttemptOK
  <2> QED BY <2>1, <2>2, <2>3, <2>4 DEF PipelineInv, StoreInv
<1>2. PipelineInv /\ [Next]_vars => PipelineInv'
  BY PipelineStep
<1> QED BY <1>1, <1>2, PTL DEF Spec

\* No failure, compensation or crash takes from under an answer, an artifact or
\* a job's output what it promises.
THEOREM HandedOutServed == Spec => []HandedOutIsServed
<1>1. PipelineInv => HandedOutIsServed
  BY DEF PipelineInv, StoreInv, ServedOK, HandedOutIsServed, DownloadResponse, Content
<1> QED BY <1>1, PipelineInvariant, PTL

\* What the API accepts the worker uploads or fails for another reason.
THEOREM AcceptedUploadable == Spec => []AcceptedVideoIsUploadable
<1>1. PipelineInv => AcceptedVideoIsUploadable
  BY DEF PipelineInv, AttemptOK, AcceptedVideoIsUploadable
<1> QED BY <1>1, PipelineInvariant, PTL

\* What a row keeps of a failure tells whether YouTube may have the video.
THEOREM FailureHonest == Spec => []FailureTellsReceipt
<1>1. PipelineInv => FailureTellsReceipt
  BY DEF PipelineInv, AttemptOK, FailureTellsReceipt
<1> QED BY <1>1, PipelineInvariant, PTL

\* API processes that start at once, or again, leave none serving without a bucket.
THEOREM ServedWithBucket == Spec => []ServedApiHasBucket
<1>1. Init => ServedApiHasBucket
  BY DEF Init, StorageInit, ServedApiHasBucket, Procs
<1>2. TypeOK /\ ServedApiHasBucket /\ [Next]_vars => ServedApiHasBucket'
  <2> SUFFICES ASSUME TypeOK, ServedApiHasBucket, [Next]_vars, storageFaults' = 0,
                      NEW h \in Handlers, pc'[h] \notin {"down", "create_bucket"}
               PROVE  bucket'
    BY DEF ServedApiHasBucket
  <2>0. /\ storageFaults \in Nat /\ h \in Procs
        /\ pc \in [Procs -> HandlerPcs \cup RunPcs]
    BY DEF TypeOK, Procs
  <2>1. ASSUME NEW g \in Handlers, HandlerStep(g) PROVE bucket'
    <3>1. storageFaults = 0 /\ ~StorageFails /\ g \in Procs
      BY <2>0, <2>1, StorageCalls DEF Procs, StorageAnswers, StorageFails
    <3>2. CASE CreateBucket(g)
      BY <3>1, <3>2, Zenon DEF CreateBucket
    <3>3. CASE Start(g)
      <4>1. (IF bucket THEN pc'[g] = "idle" ELSE pc'[g] = "create_bucket") /\ bucket' = bucket
        BY <2>0, <3>1, <3>3 DEF Start, GoTo, stores
      <4>2. \A k \in Handlers \ {g} : pc'[k] = pc[k]
        BY <2>0, <3>3 DEF Start, GoTo, Procs
      <4> QED BY <2>0, <3>1, <4>1, <4>2 DEF ServedApiHasBucket
    <3>4. ASSUME ~CreateBucket(g), ~Start(g) PROVE bucket'
      <4>1. bucket' = bucket
        BY <2>1, <3>4, Zenon DEF HandlerStep, Stop, UploadRequest, Put, Insert, Compensate, Crash,
                                 stores
      <4>2. \/ pc[g] \notin {"down", "create_bucket"}
            \/ pc'[g] = "down" /\ \A k \in Handlers \ {g} : pc'[k] = pc[k]
        BY <2>0, <2>1, <3>1, <3>4 DEF HandlerStep, Stop, UploadRequest, Take, Put, Insert,
                                      Compensate, Crash, GoTo, Leave, Procs
      <4> QED BY <2>0, <3>1, <4>1, <4>2 DEF ServedApiHasBucket
    <3> QED BY <3>2, <3>3, <3>4
  <2>2. ASSUME UNCHANGED bucket, \A k \in Handlers : pc'[k] = pc[k],
               storageFaults' \in {storageFaults, storageFaults + 1}
        PROVE  bucket'
    BY <2>0, <2>2 DEF ServedApiHasBucket
  <2>3. ASSUME NEW r \in Runs, RunStep(r) PROVE bucket'
    <3>1. UNCHANGED bucket /\ \A k \in Handlers : pc'[k] = pc[k]
      BY <2>0, <2>3, ProcsAssumption
         DEF RunStep, ImageStep, VideoStep, Put, Crash, Register, RecordArtifact, Report,
             Take, GoTo, Leave, Procs, stores
    <3>2. storageFaults' \in {storageFaults, storageFaults + 1}
      BY <2>3 DEF RunStep, ImageStep, VideoStep, Put, Crash, Register, RecordArtifact, Report,
                  StorageAnswers, StorageFails, spent
    <3> QED BY <2>2, <3>1, <3>2
  <2>4. ASSUME NEW p \in Pubs, PublicationStep(p) PROVE bucket'
    <3>1. UNCHANGED <<bucket, pc>> /\ storageFaults' \in {storageFaults, storageFaults + 1}
      BY <2>4 DEF PublicationStep, Accept, Load, Resolve, Download, Construct, Execute,
                  stores, procs, spent, StorageAnswers, StorageFails
    <3> QED BY <2>2, <3>1
  <2>5. CASE UNCHANGED vars
    BY <2>2, <2>5 DEF vars, stores, procs, spent
  <2> QED BY <2>1, <2>3, <2>4, <2>5 DEF Next
<1> QED BY <1>1, <1>2, TypeInvariant, PTL DEF Spec
-----------------------------------------------------------------------------
\* What UploadsLeaveNoOrphan counts, which is finite since each costs a fault.
Orphans == {a \in Assets : /\ origin[a] = "upload" /\ Idle(a)
                           /\ objects[a] # NoContent /\ rows[a] = NoContent}

Spent == storageFaults + crashes

OrphansCounted == IsFiniteSet(Orphans) /\ Cardinality(Orphans) <= Spent

\* Nothing is stored for an asset before its one Put, and a run has only its own.
MakingOK ==
  /\ \A a \in Assets : origin[a] = "none" => objects[a] = NoContent
  /\ \A x \in Procs : pc[x] = "put" => objects[cur[x]] = NoContent
  /\ \A r \in Runs : cur[r] \in Assets => origin[cur[r]] = "step"

OrphanInv == MakingOK /\ OrphansCounted

\* A set that grows by at most one element when the bound of its size grows by one.
LEMMA BoundedGrowth ==
  ASSUME NEW S, IsFiniteSet(S), NEW m \in Nat, Cardinality(S) <= m,
         NEW T, NEW n \in Nat, NEW a,
         \/ T \subseteq S /\ n >= m
         \/ T \subseteq S \cup {a} /\ n = m + 1
  PROVE  IsFiniteSet(T) /\ Cardinality(T) <= n
<1>1. Cardinality(S) \in Nat
  BY FS_CardinalityType
<1>2. CASE T \subseteq S /\ n >= m
  <2>1. IsFiniteSet(T) /\ Cardinality(T) <= Cardinality(S)
    BY <1>2, FS_Subset
  <2>2. Cardinality(T) \in Nat
    BY <2>1, FS_CardinalityType
  <2> QED BY <1>1, <1>2, <2>1, <2>2
<1>3. CASE T \subseteq S \cup {a} /\ n = m + 1
  <2>1. /\ IsFiniteSet(S \cup {a})
        /\ Cardinality(S \cup {a}) \in {Cardinality(S), Cardinality(S) + 1}
    BY FS_AddElement
  <2>2. IsFiniteSet(T) /\ Cardinality(T) <= Cardinality(S \cup {a})
    BY <1>3, <2>1, FS_Subset
  <2>3. Cardinality(T) \in Nat
    BY <2>2, FS_CardinalityType
  <2> QED BY <1>1, <1>3, <2>1, <2>2, <2>3
<1> QED BY <1>2, <1>3

\* Sums of counters, stated over values since the counters occur primed.
LEMMA Sums ==
  ASSUME NEW m \in Nat, NEW n \in Nat, NEW p \in Nat, NEW q \in Nat
  PROVE  /\ m + n \in Nat
         /\ p >= m /\ q >= n => p + q >= m + n
         /\ \/ p = m + 1 /\ q = n
            \/ p = m /\ q = n + 1
            => p + q = m + n + 1
  OBVIOUS

\* What failed and broke off so far is not taken back.
LEMMA SpentGrows ==
  ASSUME TypeOK, TypeOK'
  PROVE  /\ Spent \in Nat /\ Spent' \in Nat
         /\ storageFaults' >= storageFaults /\ crashes' >= crashes => Spent' >= Spent
         /\ \/ storageFaults' = storageFaults + 1 /\ crashes' = crashes
            \/ storageFaults' = storageFaults /\ crashes' = crashes + 1
            => Spent' = Spent + 1
<1>1. storageFaults \in Nat /\ crashes \in Nat
  BY DEF TypeOK
<1>2. storageFaults' \in 0..MaxStorageFaults /\ crashes' \in 0..MaxCrashes
  BY DEF TypeOK
<1>3. storageFaults' \in Nat /\ crashes' \in Nat
  BY <1>2
<1>4. /\ Spent = storageFaults + crashes
      /\ Spent' = storageFaults' + crashes'
  BY Zenon DEF Spent
<1>5. Spent \in Nat /\ Spent' \in Nat
  BY <1>1, <1>3, <1>4, Sums
<1>6. ASSUME storageFaults' >= storageFaults, crashes' >= crashes PROVE Spent' >= Spent
  BY <1>1, <1>3, <1>4, <1>6, Sums
<1>7. ASSUME \/ storageFaults' = storageFaults + 1 /\ crashes' = crashes
             \/ storageFaults' = storageFaults /\ crashes' = crashes + 1
      PROVE  Spent' = Spent + 1
  <2>1. CASE storageFaults' = storageFaults + 1 /\ crashes' = crashes
    BY <1>1, <1>4, <2>1
  <2>2. CASE storageFaults' = storageFaults /\ crashes' = crashes + 1
    BY <1>1, <1>4, <2>2
  <2> QED BY <1>7, <2>1, <2>2
<1> QED BY <1>5, <1>6, <1>7

\* A step keeps the count if it makes no orphan, or one at the price of a fault.
LEMMA CountKeeps ==
  ASSUME OrphansCounted, TypeOK, TypeOK', NEW a,
         \/ Orphans' \subseteq Orphans /\ Spent' >= Spent
         \/ Orphans' \subseteq Orphans \cup {a} /\ Spent' = Spent + 1
  PROVE  OrphansCounted'
  BY BoundedGrowth, SpentGrows DEF OrphansCounted

\* Within its frame a step can make an orphan of its own asset only.
LEMMA FrameOrphans ==
  ASSUME TypeOK, TypeOK', NEW x \in Procs, Frame(x)
  PROVE  Orphans' \subseteq Orphans \cup {cur[x]}
<1>1. ASSUME NEW a \in Assets, a # cur[x] PROVE Idle(a)' => Idle(a)
  BY <1>1 DEF Frame, Idle
<1> QED BY <1>1 DEF Frame, Orphans

\* And it keeps what is known of the assets still to be stored, if it is right
\* about its own.
LEMMA FrameMaking ==
  ASSUME StoreInv, MakingOK, TypeOK', NEW x \in Procs, Frame(x), pc'[x] # "put",
         cur[x] \in Assets => origin[cur[x]] # "none"
  PROVE  MakingOK'
<1>0. /\ \A a \in Assets : origin'[a] = origin[a]
      /\ \A y \in Procs : y # x /\ cur[y] # NoAsset => cur[y] # cur[x]
  BY DEF Frame, StoreInv, OwnedOK
<1>1. \A a \in Assets : origin'[a] = "none" => objects'[a] = NoContent
  BY <1>0 DEF Frame, MakingOK
<1>2. ASSUME NEW y \in Procs, pc'[y] = "put" PROVE objects'[cur'[y]] = NoContent
  <2>1. y # x /\ pc[y] = "put" /\ cur'[y] = cur[y]
    BY <1>2 DEF Frame
  <2>2. cur[y] \in Assets /\ cur[y] # NoAsset
    BY <2>1 DEF StoreInv, TypeOK, RestPcs
  <2> QED BY <1>0, <2>1, <2>2 DEF Frame, MakingOK
<1>3. ASSUME NEW r \in Runs, cur'[r] \in Assets PROVE origin'[cur'[r]] = "step"
  <2>1. r \in Procs /\ cur'[r] = cur[r]
    BY <1>3 DEF Frame, Procs
  <2> QED BY <1>0, <1>3, <2>1 DEF MakingOK
<1> QED BY <1>1, <1>2, <1>3 DEF MakingOK
\* A step within its frame keeps the invariant if it leaves its asset no orphan,
\* or fails or breaks off.
LEMMA FrameKeepsOrphans ==
  ASSUME StoreInv, OrphanInv, TypeOK', NEW x \in Procs, Frame(x), pc'[x] # "put",
         \/ cur[x] \notin Orphans' /\ Spent' >= Spent
         \/ Spent' = Spent + 1
  PROVE  OrphanInv'
<1>1. TypeOK /\ Orphans' \subseteq Orphans \cup {cur[x]}
  BY FrameOrphans DEF StoreInv
<1>2. cur[x] \notin Orphans' => Orphans' \subseteq Orphans
  BY <1>1
<1>3. OrphansCounted'
  BY <1>1, <1>2, CountKeeps DEF OrphanInv
<1>4. cur[x] \in Assets => origin[cur[x]] # "none"
  BY DEF StoreInv, OwnedOK
<1> QED BY <1>3, <1>4, FrameMaking DEF OrphanInv

\* Taking an asset makes no orphan, and finds its key unused.
LEMMA TakeKeepsOrphans ==
  ASSUME StoreInv, OrphanInv, TypeOK', NEW x \in Procs, NEW a \in Assets, NEW content,
         \/ Take(x, a, content, "upload") /\ x \in Handlers
         \/ Take(x, a, content, "step"),
         UNCHANGED <<objects, rows, storageFaults, crashes>>
  PROVE  OrphanInv'
<1>0. /\ origin[a] = "none" /\ objects[a] = NoContent
      /\ \A y \in Procs : y # x => pc'[y] = pc[y] /\ cur'[y] = cur[y]
      /\ cur'[x] = a /\ cur[x] = NoAsset
      /\ \A b \in Assets : b # a => origin'[b] = origin[b]
      /\ origin'[a] \in {"upload", "step"} /\ (x \in Runs => origin'[a] = "step")
  BY DEF Take, StoreInv, TypeOK, WorkOK, RestPcs, OrphanInv, MakingOK
<1>1. \A b \in Assets : b # a => (Idle(b)' <=> Idle(b))
  BY <1>0 DEF Idle
<1>2. Orphans' \subseteq Orphans
  BY <1>0, <1>1 DEF Orphans
<1>3. Spent' = Spent /\ Spent \in Nat
  BY DEF Spent, StoreInv, TypeOK
<1>4. OrphansCounted'
  BY <1>2, <1>3, CountKeeps DEF StoreInv, OrphanInv
<1>5. MakingOK'
  <2>1. \A b \in Assets : origin'[b] = "none" => objects'[b] = NoContent
    BY <1>0 DEF OrphanInv, MakingOK
  <2>2. \A y \in Procs : pc'[y] = "put" => objects'[cur'[y]] = NoContent
    BY <1>0 DEF OrphanInv, MakingOK
  <2>3. ASSUME NEW r \in Runs, cur'[r] \in Assets PROVE origin'[cur'[r]] = "step"
    <3>1. r \in Procs
      BY DEF Procs
    <3>2. r # x => cur[r] # a
      BY <1>0, <2>3, <3>1 DEF StoreInv, OwnedOK
    <3> QED BY <1>0, <2>3, <3>1, <3>2 DEF OrphanInv, MakingOK
  <2> QED BY <2>1, <2>2, <2>3 DEF MakingOK
<1> QED BY <1>4, <1>5 DEF OrphanInv

\* A handler leaves an orphan only with a failed storage call or by being lost.
LEMMA HandlerKeepsOrphans ==
  ASSUME StoreInv, OrphanInv, TypeOK', NEW h \in Handlers, HandlerStep(h),
         UNCHANGED <<artifacts, reported>>
  PROVE  OrphanInv'
<1> USE DEF stores, procs, spent, Stored, Recorded
<1> DEFINE Sound == /\ Frame(h) /\ pc'[h] # "put"
                    /\ \/ cur[h] \notin Orphans' /\ Spent' >= Spent
                       \/ Spent' = Spent + 1
<1>0. /\ h \in Procs /\ WorkOK(h) /\ MakingOK /\ TypeOK
      /\ pc[h] \notin RestPcs => cur[h] \in Assets /\ body[h] \in Content
      /\ pc \in [Procs -> HandlerPcs \cup RunPcs]
      /\ cur \in [Procs -> Assets \cup {NoAsset}]
      /\ body \in [Procs -> Content \cup {NoContent}]
      /\ objects \in [Assets -> Content \cup {NoContent}]
      /\ rows \in [Assets -> Content \cup {NoContent}]
      /\ storageFaults \in Nat /\ crashes \in Nat
  BY DEF StoreInv, TypeOK, Procs, OrphanInv
<1>1. CASE Start(h) \/ CreateBucket(h) \/ Stop(h)
  <2>1. /\ pc[h] \in RestPcs
        /\ \E point \in RestPcs : GoTo(h, point)
        /\ UNCHANGED <<objects, rows, origin, answered>>
    BY <1>1, Zenon DEF Start, CreateBucket, Stop, RestPcs
  <2>2. Frame(h) /\ pc'[h] # "put" /\ cur[h] = NoAsset
    BY <1>0, <2>1 DEF GoTo, RestPcs, Frame, WorkOK
  <2>3. storageFaults' >= storageFaults /\ crashes' >= crashes
    <3>1. (StorageAnswers \/ StorageFails) /\ UNCHANGED crashes
      BY <1>1, Zenon DEF Start, CreateBucket, Stop, StorageAnswers
    <3> QED BY <1>0, <3>1 DEF StorageAnswers, StorageFails
  <2> QED BY <1>0, <2>2, <2>3, SpentGrows, FrameKeepsOrphans DEF Orphans, StoreInv
<1>2. ASSUME NEW a \in Assets, NEW content \in Content, UploadRequest(h, a, content)
      PROVE  OrphanInv'
  BY <1>0, <1>2, TakeKeepsOrphans DEF UploadRequest
<1>3. CASE Put(h, "insert")
  <2>1. Frame(h) /\ pc'[h] # "put"
    BY <1>0, <1>3 DEF Put, GoTo, Leave, RestPcs, Frame
  <2>2. pc[h] = "put" /\ UNCHANGED <<rows, crashes>>
    BY <1>3, Zenon DEF Put
  <2>3. cur[h] \in Assets /\ rows'[cur[h]] = rows[cur[h]]
    BY <1>0, <2>2 DEF RestPcs
  <2>4. ASSUME StorageAnswers PROVE Sound
    <3>1. cur[h] \notin Orphans'
      <4>1. CASE GoTo(h, "insert")
        BY <1>0, <2>3, <4>1 DEF GoTo, Orphans, Idle
      <4>2. CASE UNCHANGED objects
        BY <1>0, <2>2, <2>3, <4>2 DEF Orphans, MakingOK
      <4>3. ~StorageFails
        BY <1>0, <2>4 DEF StorageAnswers, StorageFails
      <4> QED BY <1>3, <4>1, <4>2, <4>3, Zenon DEF Put
    <3>2. storageFaults' >= storageFaults /\ crashes' >= crashes
      BY <1>0, <2>2, <2>4 DEF StorageAnswers
    <3>3. Spent' >= Spent
      BY <1>0, <3>2, SpentGrows
    <3> QED BY <2>1, <3>1, <3>3
  <2>5. ASSUME StorageFails PROVE Sound
    <3>1. storageFaults' = storageFaults + 1 /\ crashes' = crashes
      BY <2>2, <2>5 DEF StorageFails
    <3>2. Spent' = Spent + 1
      BY <1>0, <3>1, SpentGrows
    <3> QED BY <2>1, <3>2
  <2>6. Sound
    BY <2>4, <2>5, StorageCalls
  <2> QED BY <1>0, <2>6, FrameKeepsOrphans
<1>4. CASE Insert(h)
  <2>1. Sound
    BY <1>0, <1>4 DEF Insert, GoTo, Leave, RestPcs, Frame, Orphans, Idle, DbAnswers, DbFails, Spent
  <2> QED BY <1>0, <2>1, FrameKeepsOrphans
<1>5. CASE Compensate(h)
  <2>1. Sound
    BY <1>0, <1>5 DEF Compensate, Leave, RestPcs, Frame, Orphans, StorageAnswers,
                      StorageFails, Spent
  <2> QED BY <1>0, <2>1, FrameKeepsOrphans
<1>6. CASE Crash(h)
  <2>1. Sound
    BY <1>0, <1>6 DEF Crash, Leave, RestPcs, Frame, Spent
  <2> QED BY <1>0, <2>1, FrameKeepsOrphans
<1> QED BY <1>1, <1>2, <1>3, <1>4, <1>5, <1>6 DEF HandlerStep

\* What a run leaves is no upload.
LEMMA RunKeepsOrphans ==
  ASSUME StoreInv, OrphanInv, TypeOK', NEW r \in Runs, RunStep(r)
  PROVE  OrphanInv'
<1> USE DEF stores, procs, spent, tables, publisher, Stored, Recorded, DbAnswers, DbFails,
            StorageAnswers, StorageFails, Spent
<1>0. /\ r \in Procs /\ r \notin Handlers /\ WorkOK(r)
      /\ cur[r] \in Assets => origin[cur[r]] = "step"
      /\ pc[r] \notin RestPcs => cur[r] \in Assets /\ body[r] \in Content
      /\ pc \in [Procs -> HandlerPcs \cup RunPcs]
      /\ cur \in [Procs -> Assets \cup {NoAsset}]
      /\ body \in [Procs -> Content \cup {NoContent}]
      /\ objects \in [Assets -> Content \cup {NoContent}]
      /\ rows \in [Assets -> Content \cup {NoContent}]
      /\ storageFaults \in Nat /\ crashes \in Nat
  BY DEF StoreInv, TypeOK, Procs, OrphanInv, MakingOK
<1>1. ASSUME NEW a \in Assets, ImageStep(r, a) \/ VideoStep(r, a)
      PROVE  OrphanInv'
  <2>1. \E content : Take(r, a, content, "step")
    BY <1>1 DEF ImageStep, VideoStep
  <2>2. UNCHANGED <<objects, rows, storageFaults, crashes>>
    BY <1>1 DEF ImageStep, VideoStep
  <2> QED BY <1>0, <2>1, <2>2, TakeKeepsOrphans
<1>2. ASSUME Frame(r), pc'[r] # "put", Spent' >= Spent
      PROVE  OrphanInv'
  <2>1. cur[r] \notin Orphans'
    BY <1>0, <1>2 DEF Frame, Orphans
  <2> QED BY <1>0, <1>2, <2>1, FrameKeepsOrphans
<1>3. CASE Put(r, "register") /\ UNCHANGED <<tables, publisher>>
  BY <1>0, <1>2, <1>3 DEF Put, GoTo, Leave, RestPcs, Frame
<1>4. CASE Crash(r) /\ UNCHANGED <<tables, publisher>>
  BY <1>0, <1>2, <1>4 DEF Crash, Leave, RestPcs, Frame
<1>5. CASE Register(r)
  BY <1>0, <1>2, <1>5 DEF Register, GoTo, Leave, RestPcs, Frame
<1>6. CASE RecordArtifact(r)
  BY <1>0, <1>2, <1>6 DEF RecordArtifact, GoTo, Leave, RestPcs, Frame
<1>7. CASE Report(r)
  BY <1>0, <1>2, <1>7 DEF Report, Leave, RestPcs, Frame
<1> QED BY <1>1, <1>3, <1>4, <1>5, <1>6, <1>7 DEF RunStep

\* The inductive invariant: a key is unused until its one Put, and each orphan of
\* an upload has cost a failed storage call or a lost process.
THEOREM OrphanInvariant == Spec => []OrphanInv
<1>1. Init => OrphanInv
  <2> SUFFICES ASSUME Init PROVE OrphanInv
    OBVIOUS
  <2>1. MakingOK
    BY DEF Init, StorageInit, MakingOK, Procs
  <2>2. Orphans = {}
    BY DEF Init, StorageInit, Orphans
  <2>3. Spent = 0 /\ IsFiniteSet({}) /\ Cardinality({}) = 0
    BY FS_EmptySet DEF Init, StorageInit, Spent
  <2> QED BY <2>1, <2>2, <2>3 DEF OrphanInv, OrphansCounted
<1>2. PipelineInv /\ OrphanInv /\ [Next]_vars => OrphanInv'
  <2> SUFFICES ASSUME PipelineInv, OrphanInv, [Next]_vars PROVE OrphanInv'
    OBVIOUS
  <2>0. StoreInv /\ TypeOK'
    BY TypeStep DEF PipelineInv, StoreInv
  <2>1. ASSUME NEW h \in Handlers, HandlerStep(h), UNCHANGED <<tables, publisher>>
        PROVE  OrphanInv'
    BY <2>0, <2>1, HandlerKeepsOrphans DEF tables
  <2>2. ASSUME NEW r \in Runs, RunStep(r) PROVE OrphanInv'
    BY <2>0, <2>2, RunKeepsOrphans
  <2>3. ASSUME UNCHANGED <<objects, rows, origin, pc, cur>>, Spent' >= Spent PROVE OrphanInv'
    <3>1. Orphans' = Orphans
      BY <2>3 DEF Orphans, Idle
    <3>2. OrphansCounted'
      BY <2>0, <2>3, <3>1, CountKeeps DEF OrphanInv, StoreInv
    <3> QED BY <2>3, <3>2 DEF OrphanInv, MakingOK
  <2>4. ASSUME NEW p \in Pubs, PublicationStep(p) PROVE OrphanInv'
    <3>1. UNCHANGED <<objects, rows, origin, pc, cur>>
      BY <2>4 DEF PublicationStep, Accept, Load, Resolve, Download, Construct, Execute,
                  stores, procs
    <3>2. Spent' >= Spent
      <4>1. storageFaults \in Nat /\ crashes \in Nat
        BY <2>0 DEF StoreInv, TypeOK
      <4>2. crashes' = crashes /\ storageFaults' \in {storageFaults, storageFaults + 1}
        BY <2>4 DEF PublicationStep, Accept, Load, Resolve, Download, Construct, Execute,
                    spent, StorageAnswers, StorageFails
      <4> QED BY <2>0, <4>1, <4>2, SpentGrows DEF StoreInv
    <3> QED BY <2>3, <3>1, <3>2
  <2>5. CASE UNCHANGED vars
    <3>1. Spent' >= Spent
      BY <2>0, <2>5 DEF vars, spent, Spent, StoreInv, TypeOK
    <3> QED BY <2>3, <2>5, <3>1 DEF vars, stores, procs
  <2> QED BY <2>1, <2>2, <2>4, <2>5 DEF Next
<1> QED BY <1>1, <1>2, PipelineInvariant, PTL DEF Spec

\* A failing database alone leaves no object of an upload behind: each orphan has
\* a failed storage call or a lost process of its own.
THEOREM UploadsCleanUp == Spec => []UploadsLeaveNoOrphan
<1>1. OrphanInv => UploadsLeaveNoOrphan
  BY DEF OrphanInv, OrphansCounted, Orphans, Spent, UploadsLeaveNoOrphan
<1> QED BY <1>1, OrphanInvariant, PTL
=============================================================================
