# AI Video OS: a TLA+ verification project

TLA+ models of the parts of AI Video OS in which several processes share state, with
the TLC configurations that check them, and TLAPS proofs of the properties that matter
most. Every definition is translated from the source; PROJECT.json ("map") names the
lines each definition stands for. Docs are cited where a property comes from a promise
they make.

1. [The system](#1-the-system): components, state, operations, interactions
2. [Modules](#2-modules): what models what
3. [How the code became actions](#3-how-the-code-became-actions)
4. [Runs](#4-runs): what is checked, on which instances, under which fairness
5. [Proofs](#5-proofs)
6. [Where the code and its documentation disagree](#6-where-the-code-and-its-documentation-disagree)
7. [What is not modelled](#7-what-is-not-modelled)
8. [Plan](#8-plan)

## 1. The system

A FastAPI process (`apps/api`) answers requests; a Celery worker (`apps/worker`) takes
tasks from Redis; both use the same services on PostgreSQL through SQLAlchemy's async
session, store media in S3/MinIO, and call OpenAI, FFmpeg and YouTube.

    browser / scripts --> API handlers ---> PostgreSQL <--- workers <--- Redis
                              |                 ^              |           ^
                              +-- send_task ----|--------------|-----------+
                              +----- S3, OpenAI, FFmpeg, YouTube -----+

What makes it hard is common to all of its parts:

- **every repository call commits.** `SQLAlchemyRepository.create/update` and
  `PublicationRepository.transition_status` end in a commit, so an operation of ten
  calls is ten transactions, and between any two of them another process may run;
- **the broker delivers at least once.** `task_acks_late`,
  `task_reject_on_worker_lost` and Redis' visibility timeout bring messages back, also
  while their first delivery is still at work;
- **sessions outlive their failures.** A request's session is rolled back when the
  request fails (`dependencies.py:72-80`), but within a worker task nothing rolls back:
  after a database error inside a transaction every later call on that session raises;
- **sessions remember.** `expire_on_commit=False` keeps the attributes a session has
  read; `update` writes only columns whose value differs from them.

| component | state | operations | hard behaviours | what makes it correct |
|---|---|---|---|---|
| Publication lifecycle (`publishing/service.py`, `queue.py`, `repository.py`, `router.py`, `worker/tasks.py`) | `publications` rows, the broker's messages, the platform | create, publish, enqueue, schedule, the publishing task, its failure handler | duplicates, crashes between commits, a send that raises after it was accepted, database errors within the handler of database errors | the platform receives a video at most once; claims are exclusive; terminal rows are final and honest; accepted publications end |
| Workflow runtime (`workflow/runtime.py`, `worker/tasks.py`, `services/workflow_runtime.py`) | executions, step statuses, jobs, artifacts, errors, history, metrics | run synchronously, execute as a task: loops, branches, jobs, the exception handler | concurrent runs of one execution, stale instances, lost workers, failures inside the failure handler | success means all work was done; nothing is left RUNNING; failures are recorded; messages are dealt with |
| Workflow queue (`services/workflow_queue.py`) | the broker's messages | enqueue a workflow, enqueue an execution | the process is lost, or the send fails, after the commit | an accepted message is dealt with |
| Automatic publishing (`publishing/automatic.py`) | execution-linked publications | `handle_completion` | two coordinators at once; a failure after success was announced; several videos | the final video is published once; a completed execution stays completed once the coordinator was called |
| YouTube OAuth (`publishing/connection_service.py`, `connection_repository.py`, `credentials.py`, `oauth.py`) | connections, credentials, OAuth states | authorize, callback, disconnect, resolve | overlapping callbacks, a request that breaks off between commits | states are used once; at most one connection; credentials follow statuses; switching loses no credential |
| Validator, context, evaluator, prompt builder (`workflow/`, `services/prompt_builder.py`) | six dictionaries per run | validate, publish, resolve, branch | names, ids and loop variables shadow each other; loops and branches leave values out or stale | a valid workflow fails on an unknown name only where the validator does not look; a pipeline of steps that refer to earlier ones resolves; ids and names mean the same |
| Assets and storage (`assets/router.py`, `storage/adapter.py`, `application.py`, the steps of `workflow/runtime.py` that store media) | the bucket, its objects, `assets` and `workflow_artifacts` rows | provision, upload, download, presign, store an image, render a video | two stores without a common transaction, a compensation that may fail, calls that fail after they took effect, lost processes | what somebody was told of is served; a failing database alone leaves no orphan of an upload; a serving API has a bucket |
| YouTube provider (`publishing/youtube.py`) | none; what it raises is kept in the publication | one upload | the row is checked when a publication is accepted, the object when it is uploaded; a request may break off after the video arrived | what was accepted can be uploaded; an error tells whether YouTube may have the video |
| Production validation (`scripts/`, `services/validation_runner.py`) | checks, a probe object, a report | check the environment; run a workflow and poll for its publication | failing calls, a changing environment, stale reads | reports are true, the run ends, READY means ready, nothing stays behind |
| AI providers, video rendering | none | one call, one subprocess | their failure | an outcome of a job |
| CRUD services, routers, health, configuration, middleware, web, deployment | rows by single commits | create, read | none of its own | |

Interactions: a request handler or a worker calls `WorkflowRuntime.run`; a completed run
calls `AutomaticPublishingCoordinator.handle_completion` on the *same session*; that
calls `PublishingQueueService.enqueue`, which sends the task that
`PublishingService.publish_queued` serves; the provider behind it resolves the
credential that the OAuth callbacks store. The hazards this exposes the code to are
listed, each at its line, in PROJECT.json.

## 2. Modules

| module | models | composed with |
|---|---|---|
| `PublicationLifecycle` | the abstract promise: a row moves along PENDING, QUEUED, PUBLISHING, PUBLISHED/FAILED; an upload needs a claim and happens once | refined by `Publishing` |
| `Publishing` | creation, `publish`, `enqueue`/`schedule`, the Celery task, `publish_queued`, `_publish_claimed`, `fail_queued_or_publishing`, the compare-and-set, the broker with its ETA and duplicates | `PublicationLifecycle` (INSTANCE ... WITH) |
| `PublishingProofs` | types, claims, uploads, the refinement | |
| `PublishingDeliveryProofs` | schedules, responses and the agenda of a queued row | extends `PublishingProofs` |
| `WorkflowRuntime` | `WorkflowRuntime.run` call by call, the task around it, both queue operations, the session | |
| `WorkflowRuntimeProofs` | the theorems about `WorkflowRuntime` | |
| `AutomaticPublishing` | the coordinator on the session of its run, with the unique constraint and the dispatch | extends `WorkflowRuntime`: its `Handover` is replaced by the coordinator's steps |
| `AutomaticPublishingProofs` | the theorems about `AutomaticPublishing` | extends `WorkflowRuntimeProofs` |
| `OAuthConnection` | authorize, callback, disconnect, commit by commit; `resolve` as an operator | |
| `OAuthConnectionProofs` | the theorems about `OAuthConnection` | |
| `WorkflowContext` | one run as its steps see each other: validator, context, resolver, prompts, branches | decides what `WorkflowRuntime` leaves open |
| `WorkflowContextProofs` | the theorems about `WorkflowContext` | |
| `AssetStorage` | the API process from start to stop, `upload_asset` with its compensation, downloads; the bucket and the assets table | |
| `MediaPipeline` | the steps that store images and videos, and a publication from its acceptance to YouTube's answer | extends `AssetStorage`: all work on the same bucket and table |
| `MediaPipelineProofs` | the theorems about `MediaPipeline` | |
| `ProductionPreflight` | `validate_production_infrastructure.py` with its storage probe | |
| `ProductionValidation` | `production_e2e_validation.py` and `ValidationRunner` beside the publishing worker | extends `ProductionPreflight`, which looks at the same environment first |
| `ProductionValidationProofs` | the theorems about both scripts | |
| `MC*` | instances for TLC | |

`Publishing` and `AutomaticPublishing` meet in the publication row. The second keeps only
the moves the first makes on it (`PublicationMoves`): composing both in full would
multiply their states without a new interaction, since the coordinator calls the same
`enqueue` a request handler calls. Likewise `MediaPipeline` takes one attempt of a publication
from `Publishing`, which guarantees that there is no second, and looks into the upload that is
one step there; and it takes from `WorkflowRuntime` the steps that store media, whose jobs
and executions fail there as they raise here.

## 3. How the code became actions

**Steps.** One action is what a process does from one awaited database call (or provider
call, or send) to the next. `pc[x]` names the call a process is about to make; locals
are in `run[x]`, or `cur`/`eta`. A commit and the refresh after it are one step, with a
lost answer as a separate outcome. A raising call follows the code's `except` clauses:
`Raise` and `OnDbError` are the places where it is written down which clause that is.

**Publishing.** `row` is the table; the `started` flag is `started_at IS NOT NULL`.
`Write(x, from, new)` is `transition_status`: it changes the row only if its status is
still `from`, and the caller learns whether it did. `sess[x]` is the SQLAlchemy session:
*closed* (no transaction), *open*, or *broken* (awaiting a rollback). A failing call on
an open transaction breaks the session; the next call on a broken one raises
(`PendingRollback`). Requests end with a rollback, tasks do not. `queue` counts the
copies of a message per ETA; `SendFailed` follows a send that raised, whether or not the
broker accepted.

**WorkflowRuntime.** `plan` is the workflow: steps with an operation, a loop, a condition
and two targets. `seen` and `seenSteps` are the rows the session of a run has read;
`Updated` is `update`'s rule that a value equal to the session's is not written, the
reason why overlapping runs must be looked at. Loop sources, conditions, prompts,
providers and storage succeed or fail (`Fail`). The text of an exception is *short* (at
most 500 characters), *long* (at most 1000) or *huge*: the history column holds 500, the
schema of the error 1000. Records of history about a step belong to the step's update
(no property is about them); metrics keep their counts.

**AutomaticPublishing.** `handle_completion` swallows every exception (`Contain`). `SelectVideo`
uses `run[x].seen`: the "re-read" of the execution answers with the instance of the session.
`handed` is a history variable, read by nothing but a property: the executions for which a run
announced success and reached the call of the coordinator.

**OAuthConnection.** One action per commit. `consume` is atomic, being under a row lock.
`Abort` is a request that ends between two commits, lost or failed. `connectedAt` is a
rank in the order of connecting. Encryption is the presence of a row.

**WorkflowContext.** `context` holds the six dictionaries by suffix; a value is its kind and the
step that made it. A reference is what stands in `{{to.suffix}}`, where the suffix "variable" is a
reference without one. A step's references are told apart by where they stand, because validator
and resolver do not look in the same places. The validator walks the values of the config, all of
them: those that the operation resolves (`refs`: the prompts, or the input asset) and the others
(`options`). The prompt builder resolves `str()` of a prompt, which for an object includes its
keys (`labels`), and the step's name when there is no prompt (`named`, unless `prompted`); these
two are what `Unchecked` returns. Positions stand for the order column. The content of a provider
is a *text* or a *list*: only a list can be looped over. (`AIResponse.content` is a `str` for both
providers of the repository; lists come from the tests' providers.) A condition that resolves may
come out either way.

**AssetStorage, MediaPipeline.** `objects` is the bucket, `rows` the table, both by asset: the
identifier of an upload is part of its object key, and a step's key is chosen with its asset, so
an asset stands for its key before it has a row. `Take` draws a fresh one, with the bytes in
`body`. `Put` is one call of either maker: it stores, fails, or fails although it stored;
only the handler of an upload compensates, and only for a failing row (`Compensate`). A commit
and the refresh after it are one step again, whose failure may leave the row. What the code
asks of a media type is whether it may be uploaded, rendered or published, so four types do: a
rendered image type, another image or audio type, video, and neither. `HandedOut` is what
anybody outside can know: an answer of 201, an artifact, a job's output; identifiers of other
rows are random and appear nowhere, so steps and requests refer to these. A publication goes
through `PublishingService` and the provider in the code's order; errors are their codes, and of
an error's metadata the stage.

**ProductionPreflight, ProductionValidation.** `env` is what the scripts can find out:
secrets by what needs them, the project, the connection, the worker. A failed call of the
probe may have been carried out. The operator does one thing at a time: the end-to-end run
does not start in the middle of a preflight. `row` is the publication in the database and
`seen` the instance of the script's session, which later polls return as it is; the
coordinator's own instance does not survive until the first poll, as the session refers
to it weakly. `Claim` and `Publish` are the worker, with its own privacy setting.

**Left out everywhere:** wording, logging, identifiers, time except schedules, and
request validation that has one outcome.

## 4. Runs

`tlc -config <cfg> <module>` in this directory. All pass runs set CHECK_DEADLOCK FALSE:
the system really stops, when nobody makes a request and every message is dealt with.

| run | what it shows | instance |
|---|---|---|
| `publishing` | `AtMostOneUpload`, `OneClaimant`, `PublishedIsUploaded`, `QueueErrorMeansNotUploaded`, `NotBeforeSchedule`, `SettledRowsAreFinal`, the refinement `LifecycleSpec`, and `ClaimInv`, the invariant of the proofs, all with everything failing at once; and of the behaviours no failing database call or lost handler disturbs: a response finds its claim, a QUEUED row is on somebody's agenda and is taken up, and ends unless a worker was lost | 2 handlers, 2 workers, 1 publication, clock 0..1, 2 failing database calls, 1+1 crashes, 1 redelivery; 430,086 states |
| `workflow_faults` | a run that announces success created only jobs that are COMPLETED, and counted them | 1 handler, 1 worker; six plans: a loop, branches forwards, backwards and by fallback, to a step that does not exist, the empty workflow; up to 6 jobs, 2 items, all message lengths, 1 database failure, 1+1 crashes; 478,346 states |
| `workflow_overlap` | nothing stays RUNNING, the audit trail catches up, messages are dealt with, step failures are recorded | a handler and a worker on one execution, three plans, one lost worker or one duplicate; 585,982 states |
| `auto` | the newest video of a completed job is what is published; it is recorded and dispatched once; an execution that was handed over stays COMPLETED, with or without a publication | one video per item, up to 2 items and 4 jobs, one of: database failure, lost API process, duplicate; 1,765,468 states |
| `media` | what was handed out is served as it was stored and recorded before it is reported; a failing database alone leaves no orphan of an upload; what the API accepts for publication the worker finds and can upload; an early error means that YouTube received nothing; an API that serves has a bucket | 3 assets, 2 API processes, 1 run, 1 publication, 1 failing call of either store, 1 crash; 552,617 states up to symmetry |
| `oauth_overlap` | states are used once, at most one connection survives, credentials follow statuses, and changing the account leaves no moment without a credential | 3 connections, 2 handlers, 1 aborted request, 1 disconnect; 14,158 states up to symmetry |
| `context` | names agree with ids; what the validator admits fails on an unknown name only in a step's name used as its prompt or in the keys of a prompt; pipelines resolve | 2,149 workflows of three steps (or none): references of every kind and in every place, loops over texts, lists and missing names, branches forwards and backwards, two steps of one name; 241,593 states |
| `validation` | the probe leaves nothing unreported; the report is true; READY suffices; the script ends with a verdict | an environment that is ready and 17 that differ in one respect, 1 failing call, 1 change by others, 2 polls |

Each property of these runs has a *mutant* in PROJECT.json: a definition changed the way
a plausible bug would change the code, under which TLC finds the property violated.

**Why the bounds are enough.** The guards of `Publishing` mention one publication only
(processes of different publications share nothing but the processes), so one
publication with two handlers and two workers shows every conflict of two callers on
either side; the proofs remove the bounds for safety. Two database failures are what a
failure inside the handler of a failure takes. In `WorkflowRuntime` a conflict takes two
runs of one execution: a handler and a worker, or a worker and its lost predecessor.
`MaxMishaps` bounds the sum of all that goes wrong, so that each kind is examined
without the product of all. `MaxItems = 2` distinguishes first, middle and last item;
`MaxJobs` cuts endless workflows short (`workflow_faults`) and is not reached in the
liveness runs. Three connections are what "the previous ones" in the plural takes. In `WorkflowContext`
a reference looks at one earlier step, and a shadowing at two names, so three steps show
every relation between a reference and its step; two visits of a step show a value
overwritten. Two polls instead of thirty distinguish the first, which loads the row, from
a later one. Environments that differ in one respect suffice because the preflight's
verdict is the conjunction of its checks. In `MediaPipeline` an asset has one maker, so that
three assets are one input, one video and one upload beside them; one failing call of either
store and one crash each break a compensation, and together all three of its steps; two
API processes race for the bucket. The proofs remove these bounds too.

**Conditions within the properties.** `ResponseFindsItsClaim` excludes failing database calls,
`QueuedHasTask`, `QueuedIsTakenUp` and `AcceptedSettles` these and lost handlers, the last also
lost workers; failing sends are among all of them. `UploadsLeaveNoOrphan` counts failed storage
calls and lost processes, each of which may leave one; `AcceptedVideoIsUploadable` and
`ServedApiHasBucket` exclude a storage that does not answer where it matters. `NothingLeftRunning`
excludes failing database calls and lost processes, of either kind; `AuditCatchesUp` failing
calls, lost handlers and a second message (a second run that starts while the first closes
overwrites its status after its record), not lost workers; `StepFailureIsRecorded` excludes lost
workers and a second message; `PublishedVideoIsFinal` and `PublishingKeepsCompleted` exclude
second runs, and the second speaks from the call of the coordinator on: before it, an answer lost
at the completion's history or metrics brings the task to its safety update, which takes COMPLETED
to FAILED; `UnresolvedIsKnown` excludes the two places that the validator leaves out;
`AtMostOneConnected` excludes aborted requests and `CredentialFollowsStatus` disconnects too;
`SwitchIsSeamless` excludes disconnects and callbacks that another one overtook; `GateSuffices`
excludes failing calls and changes by others. In each of these cases the property is false of the
code; section 6 names those that are not evident.

**Limits of two models.** In `ProductionValidation` one `env` stands for the script and the worker:
`ReadySuffices` and `GateSuffices` say nothing of a worker that was started with other secrets
than the script sees. In `Publishing` the broker keeps the ETA of every copy of a message, so
`NotBeforeSchedule` is about what the code and redelivery do to schedules, and not about a broker that
delivers early by itself.

**Fairness.** Weak fairness of the steps of a handler that is within a request, of every
step of a worker (Celery's loop takes messages and executes them), and of the clock. No
fairness of requests, crashes, redeliveries or failures. In `WorkflowRuntime` fairness is
of `Dispatch`, of a worker's task steps, and of a process's steps within a run.
In `ProductionValidation` the script runs on once it was started; the worker is obliged
to nothing. `OAuthConnection` has no liveness properties: a user may never return from
Google.

## 5. Proofs

`tlapm <module>` for the eight modules `*Proofs`. Every safety invariant and action property of
the passing runs is a theorem, for all sets of publications, assets, connections, workflows, executions,
handlers, workers, runs and environments, and for all bounds. The assumptions on the constants
(each an `ASSUME` that TLC evaluates in every run): handlers and workers (or runs) are disjoint,
bounds are naturals, the values for "none" are none, connections are finitely many, workflows
are sequences of steps with ids of their own, and the end-to-end run polls at least once (the
code's timeout is 60 seconds, its interval 2; without a poll "not_found" would be a guess). Two
theorems have a hypothesis about a constant besides: `NothingIsLeft` is about exceptions of at
most 1000 characters and `AuditIsComplete` about those of at most 500. The code breaks both
promises on longer ones, the first as the run `workflow_failure_unrecorded` shows, the second
because the history column holds 500.

The type invariants of `Publishing`, `OAuthConnection` and `MediaPipeline` are theorems and not
checked again by TLC; those of the other modules are both, as TLC finds a mutant by each.

**Publishing.** `TypeInvariant` first: a step of a process is a *hop* (`Hop`), to a
control point out of a set that depends on the action, keeping its publication or
becoming idle; one lemma says what types need from a hop, and one per group of actions
says where it hops. `ClaimInvariant` is the inductive invariant. `AtMostOneUpload` is not
inductive: that an upload step happens only once needs that only one process ever gets
into `_publish_claimed` (`OneClaimant`), which needs that a row which was never started
has no claimant and that a status from which a claim succeeds implies never started
(`UnclaimedUntilStarted`), and that a claimant before its upload finds nothing uploaded
(`ClaimantOwnsUpload`). Notably the invariant does *not* say that a claimant's row is
PUBLISHING: a duplicate's failure handler may have failed it, and exclusion survives
because no transition leads out of FAILED. From it follow `UploadsAtMostOnce`,
`ClaimIsExclusive`, `PublishedMeansUploaded`, `QueueErrorNotUploaded`, `SettledIsFinal`
(an action property), and `ImplementsLifecycle`: initial states map to initial states,
and each step to a step of `PublicationLifecycle` or a stutter, under the mapping that
reads `claimed` off the `started_at` stamp.

**Delivery of publications.** `ScheduleInv` follows a time from the row to its messages, to the
worker that holds one, and to the claimant: `NotBeforeSchedule` depends on no copy of a message,
however it came about, being older than the row's schedule. `DutyInv` says that while no database
call fails a claimant's row *is* PUBLISHING, and a worker comes to failing a publication only
after somebody settled it; from it follows `ResponseFindsItsClaim`. `QueuedHasTask` is
inductive with these: each step that takes a QUEUED row off one agenda (a message, a worker, a
sender, a sender that compensates) puts it on another or ends its being QUEUED.

**WorkflowRuntime.** `TypeInv` adds to the types what each control point relies on (`Fits`: the
step exists, the workflow is valid, an item is left), without which `Dispatch` and the loops are
not typed. `WorkInv` keeps account of jobs: those of a run belong to it alone (`OwnJobs`), and all
but the one in hand are COMPLETED and counted (`Accounts`), also while another run of the same
execution adds its own; hence `CompletionMeansAllWork`. `NothingLeftRunning` needs to know *who*
will end what is RUNNING, and `update` does not write a value equal to the one its session
holds: so `HeldInv` says that every RUNNING step and execution, and every job that is not over,
has a run in hand **that has seen it so**, and that the point of that run is one from which it
will write. `OrderlyInv` is about an execution with one message: it is in one place, queue or
process; `Story` says for each control point which records its run has written so far; and what
rests is `Audited`. `AuditCatchesUp` is its last conjunct. Before these two were proved, both properties
held partly because their run counts no failing database call; the cases in which the code
violates them are conditions of the properties now.

**AutomaticPublishing.** The steps of the runtime are classified once by what they may touch of a
coordinator (`RuntimeSteps`), and `TypeInv` and `WorkInv` are carried over. `DispatchInv`: whoever
stands before the send is the one whose compare-and-set succeeded, and nobody claims that record
again; with the unique constraint, `DispatchedOnce`. `SoleInv`: without a lost worker or second
message an execution is in one place, so the status its coordinator has *seen* is the stored one.
`HandedInv`: an execution that was handed over is COMPLETED, has no message in the queue, and
whoever is at work on it is in the coordinator or has returned from it (`Rests`). From these
points nothing leads to the task's `except` clause, because `Contain` catches what the coordinator
raises, and without a message nobody else comes to it; hence `PublishingKeepsCompleted`.
`MediaInv`: the media of an execution are its own jobs' (`OwnMedia`), linked in the order of
storing, and what was selected stays the newest (`Newest`, `Selected`, `Issued`); that there is a
newest is by the well-foundedness of the naturals. Hence `PublishedVideoIsFinal`.

**WorkflowContext.** `TypeInv` says that whoever goes on has a valid workflow, so that a branch
leads to a step there is. `NamesAgreeWithIds` is inductive with it: id and name are written in one
step, and later steps write neither. `UnresolvedIsKnown`: a run ends on a loop source, a condition
or a template of its current step. The validator has looked at the first two for this very step,
and of the templates at all but `Unchecked`. `WellFormedResolves` needs that every step before the
current one has left its dictionaries filled (`ReadyInv`).

**OAuthConnection.** `TypeInvariant`, `StateInvariant` (a connection whose state is not
consumed has no exchange and no callback at work; a callback before its exchange has
sent nothing) and from it `StateUsedOnce`. `ConnectedInv` ranks the connections by the order of
connecting. `AtMostOneConnected` is about *pairs* (`PairsInv`): of any two CONNECTED rows, some
callback is still to disconnect one on behalf of the other. `TokenInv` orders the commits of
callbacks: who is about to connect has stored its credential, who is about to disconnect has
deleted that row's. `PairedInv`: status and credential differ only between two such commits; hence
`CredentialFollowsStatus`. `SwitchIsSeamless`, an action property, follows from `TokenInv` and
the ranks: what a callback that nobody overtook deletes is never the newest row's.

**MediaPipeline.** `PipelineInvariant` is inductive. An asset belongs to the one process that
took it (`OwnedOK`), and until that process has registered or answered for it, nobody has heard
of it (`WorkOK`): this is why a compensation that deletes the object of a committed row
harms nobody, and why whatever is handed out is stored as it is recorded and stays so
(`ServedOK`, `Kept`). An attempt of a publication is therefore about a video that is there
(`AttemptOK`). `FrameKeeps` says what a step of a process must show: it leaves everything but
its own asset alone (`Frame`) and is right about that one (`OwnOK`). From it follow
`HandedOutServed`, `AcceptedUploadable` and `FailureHonest`; `ServedWithBucket` is inductive by
itself. `UploadsLeaveNoOrphan` compares a number of assets with a number of faults: within its
frame a step adds at most its own asset to the orphans (`FrameOrphans`), and where it does it
is a failed call or a loss (`OrphanInv`, with `MakingOK`: a key holds nothing before its one `Put`,
so that a `Put` into a missing bucket leaves nothing).

**Production validation.** `ProbeReportsWhatItLeaves` needs to know where an object can exist
(`ProbeInvariant`): after its upload, and after its removal only if that is reported as failed.
`ReportsAreTrue` rests on `RunInvariant`: the session's copy may be old, but a copy that says
the publication is settled *is* the stored publication, because nothing leads out of PUBLISHED
or FAILED, and a publication that was not there at the first poll is never made after it. It does
not say that a copy in flight is in flight, which is the flaw `validation_timeout` shows.
`ReadySuffices` carries each finding of the preflight along (`PreflightFound`) with the reasons
a run can fail for without a failing call (`RunFailedBecause`): the environment but for the
opt-in is the same in both.

**Only model-checked:** liveness under fairness, which is out of the prover's reach.

## 6. Where the code and its documentation disagree

Four runs of kind "violation" each show a counterexample to a sentence of the
documentation (quoted in PROJECT.json, "findings"):

- `workflow_failure_unrecorded`: an exception whose text exceeds 1000 characters is
  refused by the schema of the error record inside the handler, so error, history and
  metrics are missing, and a synchronous run leaves its execution RUNNING.
- `auto_published_twice`: a redelivered workflow message renders a new video, to which
  the unique constraint does not apply: a second publication of one execution.
- `oauth_both_dropped`: two callbacks that connect before either lists the active
  connections disconnect each other.
- `validation_timeout`: the script polls through the session that already holds the
  publication, so one that was first seen in flight is reported as timed out although
  the worker published it.

Further behaviour met while modelling, present in the models but without a run of its own:

- the first read of a duplicate delivery fails, so its handler marks FAILED the row that
  another worker is uploading, whose response is refused and whose external id is lost
  (`worker/tasks.py:153`);
- a database error inside a transaction breaks the session that
  `fail_queued_or_publishing` uses, so the row stays PUBLISHING (`service.py:145`);
- the handler sets a job to FAILED although it was COMPLETED, when the step's condition
  cannot be evaluated (`runtime.py:562-564`; the comment says "still running");
- the closing history records take `from_status` from the instance just updated, so they
  say FAILED to failed and COMPLETED to completed (`runtime.py:571-574, 597-598`);
- the coordinator's re-read of the execution does not see another run's status
  (`automatic.py:104`);
- a callback reconnects a connection that was disconnected meanwhile
  (`connection_service.py:156`), and a disconnect between whose two commits a callback
  stores its credential leaves that credential (`:186`);
- a callback that breaks off after it connected, before it disconnected the previous
  connections, leaves two CONNECTED (`connection_service.py:171`); the newest is used;
- a worker lost after its claim leaves a row PUBLISHING that nothing repairs;
- a send that fails in `enqueue_workflow` leaves the execution PENDING;
- a workflow with a branch backwards is valid and may not terminate;
- an answer lost at the completion's history or metrics leads past the coordinator to the task's
  final safety update, which turns a COMPLETED execution FAILED without a look at its status
  (`worker/tasks.py:256`);
- the name of a step without a prompt and the keys of a prompt that is an object are resolved as
  templates (`prompt_builder.py:43`, `runtime.py:278, 328`) and not validated (`validator.py:94-96`):
  a valid workflow with a step named `{{x}}` fails on the unknown x;
- the validator refuses a reference to any loop variable but `item`
  (`validator.py:116`), though PROMPT_COMPOSITION.md:31 lists `{{variable}}`, "including
  loop variables", among the supported ones;
- missing secrets are reported as MISSING and leave the preflight's exit code 0
  (`validate_production_infrastructure.py:593`): READY takes both;
- PRODUCTION_E2E_VALIDATION.md:29 relies on the script's provider for private uploads,
  but it is the worker that uploads, with its own setting; the check afterwards finds out;
- an upload whose row is committed but not read back deletes the object of a row that stays
  (`assets/router.py:102-105`), against "Describe one immutable object stored"
  (`assets/models.py:13`); nobody was told of that asset;
- a step's object is never taken back: a database error after it, or a step name so long that
  the file name exceeds 255 characters (`runtime.py:371, 445`), leaves it in the bucket;
- an image that a URL answers with no bytes is stored and reported as an image
  (`runtime.py:356`), and refused when a later step renders it;
- an upload error after YouTube received the video, or a response without a usable id,
  leaves a FAILED publication of a video that is on the channel (`youtube.py:234, 279`);
- an API process whose storage does not answer at its start serves without a bucket
  (`application.py:45`), until another process makes it;
- the preflight looks for FFmpeg on the worker, while the end-to-end script renders in
  its own process.

## 7. What is not modelled

AI providers and FFmpeg but for what they may return; single-commit CRUD, wiring, the readiness
probe, logging, configuration, web, migrations and deployment: no protocol of their own.
The syntax of references and conditions, and the texts of prompts. Category, codes and
reasons in the metadata of a YouTube error. The CRUD service has at least one defect that no
model of states would show: GET /jobs/{id}/status rebuilds the status from `str()` of the
enumeration's member (`sqlalchemy.py:93`, `domain/router.py:317`), which is no value of it.
Liveness is not claimed where the code
gives none: a publication whose worker was lost, a workflow that loops, an execution
whose send failed.

## 8. Plan

Order of the modules, the most important behaviour first. Done: (1) `Publishing` with
its abstract `PublicationLifecycle`, (2) `WorkflowRuntime`, (3) `AutomaticPublishing`
composed with it, (4) `OAuthConnection`, (5) `WorkflowContext`, (6) `ProductionPreflight`
and `ProductionValidation`, (7) `AssetStorage` and (8) `MediaPipeline` with the YouTube
provider. Next:

9. An abstract connection store that `OAuthConnection` implements as far as its
   callbacks do not overlap.

Proofs planned: that steps of `AutomaticPublishing` are steps of the publication's lifecycle
where they touch one, and the refinement of item 9. Candidates for further violation runs are the
items at the end of section 6.
