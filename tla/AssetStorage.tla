---------------------------- MODULE AssetStorage ----------------------------
(***************************************************************************)
(* Media in two stores: the bytes in the bucket, the metadata in the table  *)
(* of assets.  No transaction spans both, so an upload writes the object,   *)
(* then the row, and takes the object back when the row could not be        *)
(* written.  Either store may carry a call out and still answer with an     *)
(* error, and a process may be lost between any two calls.                  *)
(*                                                                         *)
(* A handler is an API process: it sets the bucket up when it starts, then  *)
(* serves one request after the other.  The workflow steps that store media *)
(* too, and the publisher that reads them, are in MediaPipeline.            *)
(***************************************************************************)
EXTENDS Naturals, FiniteSets

CONSTANTS
  Assets,               \* asset identifiers, each with the object key made for it
  NoAsset,              \* the asset of a process that handles none
  NoContent,            \* where there is no object, no row, nothing in hand
  Handlers,             \* API processes
  Runs,                 \* processes that execute workflow steps
  MaxDbFaults,          \* bound: failing database calls
  MaxStorageFaults,     \* bound: failing storage calls
  MaxCrashes            \* bound: lost processes

(* What the code asks of a media type: "png" stands for the three image       *)
(* types a renderer takes, "gif" for all other images and audio, "mp4" for    *)
(* video, "txt" for what is none of them.                                     *)
Types == {"png", "gif", "mp4", "txt"}
Content == [type : Types, size : {"empty", "fits", "large"}]

ASSUME NoAssetAssumption == NoAsset \notin Assets
ASSUME NoContentAssumption == NoContent \notin Content
ASSUME ProcsAssumption == Handlers \cap Runs = {}
ASSUME BudgetsAssumption == {MaxDbFaults, MaxStorageFaults, MaxCrashes} \subseteq Nat

VARIABLES
  bucket,               \* the configured bucket exists
  objects,              \* the bucket: what is stored under the key of each asset
  rows,                 \* the assets table: type and size as recorded
  origin,               \* who chose an identifier: nobody, an upload, a step
  answered,             \* assets whose upload was answered with 201
  pc, cur, body,        \* per process: control, asset at work, bytes in hand
  dbFaults, storageFaults, crashes                        \* what was spent

stores == <<bucket, objects, rows, origin, answered>>
procs  == <<pc, cur, body>>
spent  == <<dbFaults, storageFaults, crashes>>

Procs == Handlers \cup Runs

HandlerPcs == {"down", "create_bucket", "idle", "put", "insert", "compensate"}
RunPcs     == {"idle", "put", "register", "artifact", "report"}
RestPcs    == {"down", "create_bucket", "idle"}      \* no request, no step

StorageInit ==
  /\ bucket \in BOOLEAN
  /\ objects = [a \in Assets |-> NoContent]
  /\ rows = [a \in Assets |-> NoContent]
  /\ origin = [a \in Assets |-> "none"]
  /\ answered = {}
  /\ pc = [x \in Procs |-> IF x \in Handlers THEN "down" ELSE "idle"]
  /\ cur = [x \in Procs |-> NoAsset]
  /\ body = [x \in Procs |-> NoContent]
  /\ dbFaults = 0 /\ storageFaults = 0 /\ crashes = 0

-----------------------------------------------------------------------------
(* Control of a process, and the two stores.                               *)

GoTo(x, point) == pc' = [pc EXCEPT ![x] = point] /\ UNCHANGED <<cur, body>>

Leave(x, point) ==
  /\ pc' = [pc EXCEPT ![x] = point]
  /\ cur' = [cur EXCEPT ![x] = NoAsset]
  /\ body' = [body EXCEPT ![x] = NoContent]

\* A new asset: its identifier and its key are fresh, the bytes are in hand.
Take(x, a, content, maker) ==
  /\ pc[x] = "idle" /\ origin[a] = "none"
  /\ origin' = [origin EXCEPT ![a] = maker]
  /\ pc' = [pc EXCEPT ![x] = "put"]
  /\ cur' = [cur EXCEPT ![x] = a]
  /\ body' = [body EXCEPT ![x] = content]

Stored(a, content) == [objects EXCEPT ![a] = content]
Recorded(a, content) == [rows EXCEPT ![a] = content]

DbAnswers == UNCHANGED dbFaults
DbFails == dbFaults < MaxDbFaults /\ dbFaults' = dbFaults + 1

StorageAnswers == UNCHANGED storageFaults
\* StorageOperationError, after the retries of the client.
StorageFails == storageFaults < MaxStorageFaults /\ storageFaults' = storageFaults + 1

-----------------------------------------------------------------------------
(* The life of an API process (application.py, the lifespan).               *)

\* Mutant: a bucket that is missing is reported, not created.
StartUnprovisioned(h) ==
  /\ pc[h] = "down"
  /\ GoTo(h, "idle")
  /\ UNCHANGED <<stores, spent>>

\* ensure_bucket asks first; a storage that does not answer is only logged.
Start(h) ==
  /\ pc[h] = "down"
  /\ \/ StorageAnswers /\ GoTo(h, IF bucket THEN "idle" ELSE "create_bucket")
     \/ StorageFails /\ GoTo(h, "idle")
  /\ UNCHANGED <<stores, dbFaults, crashes>>

\* Another process may have been faster: S3 then refuses, which is only logged.
CreateBucket(h) ==
  /\ pc[h] = "create_bucket"
  /\ \/ StorageAnswers /\ bucket' = TRUE
     \/ StorageFails /\ bucket' \in {bucket, TRUE}
  /\ GoTo(h, "idle")
  /\ UNCHANGED <<objects, rows, origin, answered, dbFaults, crashes>>

\* A shutdown waits for the request, then closes storage, Redis and database
\* whichever of these closings fails.
Stop(h) ==
  /\ h \in Handlers /\ pc[h] = "idle"
  /\ GoTo(h, "down")
  /\ UNCHANGED <<stores, spent>>

-----------------------------------------------------------------------------
(* POST /assets.                                                           *)

Accepted(content) == content.type \in {"png", "gif", "mp4"} /\ content.size = "fits"

UploadRequest(h, a, content) ==
  /\ h \in Handlers
  /\ Accepted(content)
  /\ Take(h, a, content, "upload")
  /\ UNCHANGED <<bucket, objects, rows, answered, spent>>

(* storage.upload.  A handler answers 503 and a step raises, in either case  *)
(* without removing what a failed call may have stored.                      *)
Put(x, next) ==
  /\ pc[x] = "put"
  /\ \/ /\ bucket /\ StorageAnswers
        /\ objects' = Stored(cur[x], body[x])
        /\ GoTo(x, next)
     \/ /\ StorageFails
        /\ objects' \in IF bucket THEN {objects, Stored(cur[x], body[x])} ELSE {objects}
        /\ Leave(x, "idle")
     \/ ~bucket /\ StorageAnswers /\ UNCHANGED objects /\ Leave(x, "idle")
  /\ UNCHANGED <<bucket, rows, origin, answered, dbFaults, crashes>>

\* Mutant: only a row that is known not to exist is compensated for.
InsertUncompensated(h) ==
  /\ pc[h] = "insert"
  /\ \/ DbAnswers /\ rows' = Recorded(cur[h], body[h]) /\ answered' = answered \cup {cur[h]}
     \/ DbFails /\ rows' \in {rows, Recorded(cur[h], body[h])} /\ UNCHANGED answered
  /\ Leave(h, "idle")
  /\ UNCHANGED <<bucket, objects, origin, storageFaults, crashes>>

\* Mutant: the object is removed in a finally clause.
InsertThenRemove(h) ==
  /\ pc[h] = "insert"
  /\ rows' = Recorded(cur[h], body[h]) /\ answered' = answered \cup {cur[h]}
  /\ GoTo(h, "compensate")
  /\ UNCHANGED <<bucket, objects, origin, spent>>

\* The commit and the refresh; a failure of either one is compensated for,
\* the second when the row is there to stay.
Insert(h) ==
  /\ pc[h] = "insert"
  /\ \/ /\ DbAnswers
        /\ rows' = Recorded(cur[h], body[h])
        /\ answered' = answered \cup {cur[h]}
        /\ Leave(h, "idle")
     \/ /\ DbFails
        /\ rows' \in {rows, Recorded(cur[h], body[h])}
        /\ GoTo(h, "compensate")
        /\ UNCHANGED answered
  /\ UNCHANGED <<bucket, objects, origin, storageFaults, crashes>>

\* A removal that fails is only logged; the request ends with the first error.
Compensate(h) ==
  /\ pc[h] = "compensate"
  /\ \/ StorageAnswers /\ objects' = Stored(cur[h], NoContent)
     \/ StorageFails /\ objects' \in {objects, Stored(cur[h], NoContent)}
  /\ Leave(h, "idle")
  /\ UNCHANGED <<bucket, rows, origin, answered, dbFaults, crashes>>

\* An API process that is lost has to start again, a worker takes the next task.
Crash(x) ==
  /\ pc[x] \notin {"down", "idle"}
  /\ crashes < MaxCrashes
  /\ crashes' = crashes + 1
  /\ Leave(x, IF x \in Handlers THEN "down" ELSE "idle")
  /\ UNCHANGED <<stores, dbFaults, storageFaults>>

HandlerStep(h) ==
  \/ Start(h) \/ CreateBucket(h) \/ Stop(h)
  \/ \E a \in Assets, content \in Content : UploadRequest(h, a, content)
  \/ Put(h, "insert") \/ Insert(h) \/ Compensate(h) \/ Crash(h)

-----------------------------------------------------------------------------
(* GET /assets/{id}/download (and /presigned-url, whose link S3 serves): the  *)
(* row, then the object, with the type the row has.                          *)
DownloadResponse(a) ==
  IF rows[a] = NoContent THEN [status |-> 404, type |-> "none", size |-> "none"]
  ELSE IF objects[a] = NoContent THEN [status |-> 503, type |-> "none", size |-> "none"]
  ELSE [status |-> 200, type |-> rows[a].type, size |-> objects[a].size]
=============================================================================
