---------------------------- MODULE MediaPipeline ----------------------------
(***************************************************************************)
(* What makes media and what takes them: the image and video steps of a      *)
(* workflow, which store their result next to the uploads of AssetStorage    *)
(* but compensate for nothing, and the publication of a video, accepted on   *)
(* the word of its row and uploaded to YouTube from its object later.        *)
(***************************************************************************)
EXTENDS AssetStorage

CONSTANT Pubs           \* publications, each attempted once (module Publishing)

VARIABLES
  artifacts,            \* assets a committed workflow_artifacts row links to
  reported,             \* assets in the output of a COMPLETED job, and the context
  attempt,              \* per publication: control of its one attempt
  media,                \* the asset it publishes
  error, stage,         \* what its row keeps of a failure
  received              \* YouTube has the video

tables    == <<artifacts, reported>>
publisher == <<attempt, media, error, stage, received>>
vars      == <<stores, procs, spent, tables, publisher>>

AttemptPcs == {"absent", "resolve", "load", "download", "construct", "execute",
               "published", "failed"}

\* Codes a publication can fail with before the request to YouTube exists.
EarlyErrors == {"PUBLISHING_PROVIDER_ERROR", "ASSET_NOT_FOUND", "ASSET_NOT_PUBLISHABLE",
                "YOUTUBE_CREDENTIAL_RESOLUTION_ERROR", "YOUTUBE_CONFIGURATION_ERROR",
                "YOUTUBE_ASSET_RETRIEVAL_ERROR", "YOUTUBE_INVALID_MEDIA"}
Errors == EarlyErrors \cup {"none", "YOUTUBE_UPLOAD_ERROR", "YOUTUBE_MALFORMED_RESPONSE"}

\* The stage that the metadata of an upload error names.
EarlyStages == {"upload_thread", "request_construction", "token_refresh"}
Stages == EarlyStages \cup {"none", "upload_execute"}

Init ==
  /\ StorageInit
  /\ artifacts = {} /\ reported = {}
  /\ attempt = [p \in Pubs |-> "absent"]
  /\ media = [p \in Pubs |-> NoAsset]
  /\ error = [p \in Pubs |-> "none"]
  /\ stage = [p \in Pubs |-> "none"]
  /\ received = [p \in Pubs |-> FALSE]

\* Assets somebody outside was told of: an answer, an artifact, a job's output.
HandedOut == answered \cup artifacts \cup reported

-----------------------------------------------------------------------------
(* The image_generation and video_render steps.  A step that raises leaves   *)
(* what it stored so far; job and execution become FAILED (WorkflowRuntime).  *)

\* An image from a URL may be empty: only the provider's response is checked.
ImageStep(r, a) ==
  /\ r \in Runs
  /\ \E size \in {"empty", "fits"} : Take(r, a, [type |-> "png", size |-> size], "step")
  /\ UNCHANGED <<bucket, objects, rows, answered, spent, tables, publisher>>

\* VideoRenderRequest and the renderer's choice of a suffix.
Renderable(content) == content.type = "png" /\ content.size # "empty"

\* What a renderer that did not fail returns.
VideoContent == [type |-> "mp4", size |-> "fits"]

\* The input is any asset whose identifier the workflow can have got hold of.
VideoStep(r, a) ==
  /\ r \in Runs
  /\ \E input \in HandedOut :
       /\ rows[input] # NoContent /\ objects[input] # NoContent
       /\ Renderable(objects[input])
  /\ Take(r, a, VideoContent, "step")
  /\ UNCHANGED <<bucket, objects, rows, answered, spent, tables, publisher>>

(* AssetCreate refuses the file name of a step whose own name is too long;   *)
(* the commit may fail before or after it took effect.                       *)
Register(r) ==
  /\ pc[r] = "register"
  /\ \/ DbAnswers /\ rows' = Recorded(cur[r], body[r]) /\ GoTo(r, "artifact")
     \/ DbAnswers /\ UNCHANGED rows /\ Leave(r, "idle")
     \/ DbFails /\ rows' \in {rows, Recorded(cur[r], body[r])} /\ Leave(r, "idle")
  /\ UNCHANGED <<bucket, objects, origin, answered, storageFaults, crashes, tables, publisher>>

RecordArtifact(r) ==
  /\ pc[r] = "artifact"
  /\ \/ DbAnswers /\ artifacts' = artifacts \cup {cur[r]} /\ GoTo(r, "report")
     \/ DbFails /\ artifacts' \in {artifacts, artifacts \cup {cur[r]}} /\ Leave(r, "idle")
  /\ UNCHANGED <<stores, storageFaults, crashes, reported, publisher>>

\* The link, the context, and the job's output.
Report(r) ==
  /\ pc[r] = "report"
  /\ \/ DbAnswers /\ StorageAnswers /\ reported' = reported \cup {cur[r]}
     \/ DbAnswers /\ StorageFails /\ UNCHANGED reported
     \/ DbFails /\ StorageAnswers /\ reported' \in {reported, reported \cup {cur[r]}}
  /\ Leave(r, "idle")
  /\ UNCHANGED <<stores, crashes, artifacts, publisher>>

-----------------------------------------------------------------------------
(* A publication: accepted by the API, attempted by a worker.                *)

Fail(p, code, where) ==
  /\ attempt' = [attempt EXCEPT ![p] = "failed"]
  /\ error' = [error EXCEPT ![p] = code]
  /\ stage' = [stage EXCEPT ![p] = where]

Advance(p, point) ==
  /\ attempt' = [attempt EXCEPT ![p] = point]
  /\ UNCHANGED <<error, stage>>

Publishable(row) == row.type = "mp4" /\ row.size # "empty"

\* Mutant: any stored asset is accepted for publication.
AcceptAny(p, a) ==
  /\ attempt[p] = "absent" /\ a \in HandedOut
  /\ rows[a] # NoContent
  /\ Advance(p, "load")
  /\ media' = [media EXCEPT ![p] = a]
  /\ UNCHANGED <<stores, procs, spent, tables, received>>

\* PublishingService.create, from the request of whoever was told of the asset.
Accept(p, a) ==
  /\ attempt[p] = "absent" /\ a \in HandedOut
  /\ rows[a] # NoContent /\ Publishable(rows[a])
  /\ Advance(p, "load")
  /\ media' = [media EXCEPT ![p] = a]
  /\ UNCHANGED <<stores, procs, spent, tables, received>>

\* _publish_claimed reads the row again; what is no ApplicationError is generic.
Load(p) ==
  /\ attempt[p] = "load"
  /\ \/ /\ DbAnswers
        /\ IF rows[media[p]] = NoContent THEN Fail(p, "ASSET_NOT_FOUND", "none")
           ELSE IF Publishable(rows[media[p]]) THEN Advance(p, "resolve")
           ELSE Fail(p, "ASSET_NOT_PUBLISHABLE", "none")
     \/ DbFails /\ Fail(p, "PUBLISHING_PROVIDER_ERROR", "none")
  /\ UNCHANGED <<stores, procs, storageFaults, crashes, tables, media, received>>

(* The connected account's credential or the one of the environment; a       *)
(* connection that cannot be resolved is an error, having neither another.   *)
Resolve(p) ==
  /\ attempt[p] = "resolve"
  /\ \/ Advance(p, "download")
     \/ Fail(p, "YOUTUBE_CREDENTIAL_RESOLUTION_ERROR", "none")
     \/ Fail(p, "YOUTUBE_CONFIGURATION_ERROR", "none")
  /\ UNCHANGED <<stores, procs, spent, tables, media, received>>

\* The type of the row, and the type and the bytes of the object.
Uploadable(row, object) == row.type = "mp4" /\ object.type = "mp4" /\ object.size # "empty"

Download(p) ==
  /\ attempt[p] = "download"
  /\ \/ /\ StorageAnswers
        /\ IF objects[media[p]] = NoContent THEN Fail(p, "YOUTUBE_ASSET_RETRIEVAL_ERROR", "none")
           ELSE IF Uploadable(rows[media[p]], objects[media[p]]) THEN Advance(p, "construct")
           ELSE Fail(p, "YOUTUBE_INVALID_MEDIA", "none")
     \/ StorageFails /\ Fail(p, "YOUTUBE_ASSET_RETRIEVAL_ERROR", "none")
  /\ UNCHANGED <<stores, procs, dbFaults, crashes, tables, media, received>>

\* The thread, the client and the request.
Construct(p) ==
  /\ attempt[p] = "construct"
  /\ \/ Advance(p, "execute")
     \/ \E where \in {"upload_thread", "request_construction"} :
          Fail(p, "YOUTUBE_UPLOAD_ERROR", where)
  /\ UNCHANGED <<stores, procs, spent, tables, media, received>>

\* Mutant: one except clause around construction and execution.
ExecuteUnstaged(p) ==
  /\ attempt[p] = "execute"
  /\ \/ /\ \/ Advance(p, "published") \/ Fail(p, "YOUTUBE_MALFORMED_RESPONSE", "none")
        /\ received' = [received EXCEPT ![p] = TRUE]
     \/ /\ Fail(p, "YOUTUBE_UPLOAD_ERROR", "request_construction")
        /\ \E arrived \in BOOLEAN : received' = [received EXCEPT ![p] = arrived]
  /\ UNCHANGED <<stores, procs, spent, tables, media>>

(* An answer with or without a usable id; an error that leaves open whether   *)
(* the video arrived; a refused refresh, which precedes the transfer or        *)
(* follows a 401.                                                             *)
Execute(p) ==
  /\ attempt[p] = "execute"
  /\ \/ /\ \/ Advance(p, "published") \/ Fail(p, "YOUTUBE_MALFORMED_RESPONSE", "none")
        /\ received' = [received EXCEPT ![p] = TRUE]
     \/ /\ Fail(p, "YOUTUBE_UPLOAD_ERROR", "upload_execute")
        /\ \E arrived \in BOOLEAN : received' = [received EXCEPT ![p] = arrived]
     \/ Fail(p, "YOUTUBE_UPLOAD_ERROR", "token_refresh") /\ UNCHANGED received
  /\ UNCHANGED <<stores, procs, spent, tables, media>>

-----------------------------------------------------------------------------
RunStep(r) ==
  \/ \E a \in Assets : ImageStep(r, a) \/ VideoStep(r, a)
  \/ (Put(r, "register") \/ Crash(r)) /\ r \in Runs /\ UNCHANGED <<tables, publisher>>
  \/ Register(r) \/ RecordArtifact(r) \/ Report(r)

PublicationStep(p) ==
  \/ \E a \in Assets : Accept(p, a)
  \/ Load(p) \/ Resolve(p) \/ Download(p) \/ Construct(p) \/ Execute(p)

Next ==
  \/ \E h \in Handlers : HandlerStep(h) /\ UNCHANGED <<tables, publisher>>
  \/ \E r \in Runs : RunStep(r)
  \/ \E p \in Pubs : PublicationStep(p)

Spec == Init /\ [][Next]_vars

-----------------------------------------------------------------------------
(* Properties.                                                             *)

\* Every variable stays in the range the columns, the codes and the control give it.
TypeOK ==
  /\ bucket \in BOOLEAN
  /\ objects \in [Assets -> Content \cup {NoContent}]
  /\ rows \in [Assets -> Content \cup {NoContent}]
  /\ origin \in [Assets -> {"none", "upload", "step"}]
  /\ answered \subseteq Assets /\ artifacts \subseteq Assets /\ reported \subseteq Assets
  /\ pc \in [Procs -> HandlerPcs \cup RunPcs]
  /\ \A h \in Handlers : pc[h] \in HandlerPcs
  /\ \A r \in Runs : pc[r] \in RunPcs
  /\ cur \in [Procs -> Assets \cup {NoAsset}]
  /\ body \in [Procs -> Content \cup {NoContent}]
  /\ \A x \in Procs : pc[x] \notin RestPcs => cur[x] \in Assets /\ body[x] \in Content
  /\ attempt \in [Pubs -> AttemptPcs]
  /\ media \in [Pubs -> Assets \cup {NoAsset}]
  /\ error \in [Pubs -> Errors]
  /\ stage \in [Pubs -> Stages]
  /\ received \in [Pubs -> BOOLEAN]
  /\ dbFaults \in 0..MaxDbFaults
  /\ storageFaults \in 0..MaxStorageFaults
  /\ crashes \in 0..MaxCrashes

(* Whatever failed before, after or beside it, an asset that somebody was told *)
(* of can be downloaded, with the type and the bytes it was stored with: no    *)
(* compensation ever takes an object from under an answer or an artifact.  And *)
(* what a step reports is recorded: "never exposed through Context or reported *)
(* as a completed step" (VIDEO_RENDERING.md) is what has writes missing.       *)
HandedOutIsServed ==
  /\ reported \subseteq artifacts
  /\ \A a \in HandedOut :
       /\ DownloadResponse(a).status = 200
       /\ objects[a] = rows[a]

Idle(a) == \A x \in Procs : cur[x] # a

(* Compensation works: a database that fails costs no storage.  An object of   *)
(* an upload that nobody works on and no row mentions takes a storage call     *)
(* that failed, or a lost process, of its own.                                 *)
UploadsLeaveNoOrphan ==
  Cardinality({a \in Assets : /\ origin[a] = "upload" /\ Idle(a)
                              /\ objects[a] # NoContent /\ rows[a] = NoContent})
    <= storageFaults + crashes

(* The two checks of a publication agree although one looks at the row when    *)
(* the request comes and the other at the object when the worker runs: what    *)
(* was accepted is never refused as media, and is found unless storage fails.  *)
AcceptedVideoIsUploadable ==
  \A p \in Pubs :
    /\ error[p] \notin {"ASSET_NOT_FOUND", "ASSET_NOT_PUBLISHABLE", "YOUTUBE_INVALID_MEDIA"}
    /\ error[p] = "YOUTUBE_ASSET_RETRIEVAL_ERROR" => storageFaults > 0

(* The recorded code and stage tell an operator whether a new publication of   *)
(* the asset risks a second video on the channel: with any of the early ones   *)
(* YouTube received nothing.                                                   *)
FailureTellsReceipt ==
  \A p \in Pubs : error[p] \in EarlyErrors \/ stage[p] \in EarlyStages => ~received[p]

(* API processes that start at once, or again, leave no API without a bucket:   *)
(* one that serves requests has found or made it, if the storage answered.      *)
ServedApiHasBucket ==
  (\E h \in Handlers : pc[h] \notin {"down", "create_bucket"}) /\ storageFaults = 0 => bucket
=============================================================================
