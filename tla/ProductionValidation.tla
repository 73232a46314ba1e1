------------------------ MODULE ProductionValidation ------------------------
(***************************************************************************)
(* production_e2e_validation.py: one controlled run of a workflow, whose     *)
(* publication a worker uploads while the script polls for it.               *)
(*                                                                         *)
(* The script and the API's services share one session for the whole run.   *)
(* It extends the preflight, which looks at the same environment earlier.   *)
(***************************************************************************)
EXTENDS ProductionPreflight

CONSTANTS
  MaxPolls,             \* polls until the timeout: 60 seconds, one every 2
  MaxChanges            \* bound: changes of the environment by others

ASSUME PollsAssumption == MaxPolls \in Nat \ {0}
ASSUME ChangesAssumption == MaxChanges \in Nat

VARIABLES
  stage,                \* control of the script
  row,                  \* the publication as it is stored
  seen,                 \* the publication as the script's session has it
  polls,                \* how often it was polled
  stored,               \* history: the stored status at the last poll
  report,               \* validation_result and error
  changes

e2e  == <<stage, row, seen, polls, stored, report>>
vars == <<env, faults, preflight, e2e, changes>>

Stages == {"idle", "project", "workflow", "execute", "artifact", "visual", "poll",
           "conclude", "over"}

Statuses == {"absent", "PENDING", "QUEUED", "PUBLISHING", "PUBLISHED", "FAILED"}

Settled == {"PUBLISHED", "FAILED"}

Errors == {"none", "refused", "unexpected", "workflow_failed", "not_visible", "not_found",
           "not_private", "publication_failed", "timed_out"}

Row == [status : Statuses, private : BOOLEAN, error : {"none", "queue", "credential", "provider"}]

NoRow == [status |-> "absent", private |-> FALSE, error |-> "none"]

Init ==
  /\ PreflightInit
  /\ stage = "idle" /\ row = NoRow /\ seen = NoRow
  /\ polls = 0 /\ stored = "absent"
  /\ report = [result |-> "FAILED", error |-> "none"]
  /\ changes = 0

-----------------------------------------------------------------------------
Proceed(s) == stage' = s /\ UNCHANGED report

End(result, error) ==
  /\ stage' = "over"
  /\ report' = [result |-> result, error |-> error]

Outside == UNCHANGED <<env, preflight, changes>>

Quietly == Outside /\ UNCHANGED <<row, seen, polls, stored>>

\* Any exception of a call ends the run with the same error.
Broken == Fault /\ End("FAILED", "unexpected")

\* The opt-in must be exactly "true", and the project's id be one.
Start ==
  /\ stage = "idle" /\ point \in {"args", "over"}
  /\ \/ env.optIn # "true" /\ End("FAILED", "refused")
     \/ env.optIn = "true" /\ env.project \in {"unset", "malformed"} /\ End("FAILED", "refused")
     \/ env.optIn = "true" /\ env.project \in {"unknown", "existing"} /\ Proceed("project")
  /\ Answered /\ Quietly

FindProject ==
  /\ stage = "project"
  /\ \/ env.project = "existing" /\ Proceed("workflow") /\ Answered
     \/ env.project # "existing" /\ End("FAILED", "unexpected") /\ Answered
     \/ Broken
  /\ Quietly

SetUpWorkflow ==
  /\ stage = "workflow"
  /\ \/ Proceed("execute") /\ Answered
     \/ Broken
  /\ Quietly

(* execute_workflow with its coordinator, which creates the publication and       *)
(* sends its task unless it fails, in silence.  The workflow wants OpenAI.       *)
Execute ==
  /\ stage = "execute"
  /\ \/ End("FAILED", "workflow_failed") /\ UNCHANGED row /\ Answered
     \/ /\ "openai" \in env.secrets
        /\ Proceed("artifact") /\ Answered
        /\ row' \in {[NoRow EXCEPT !.status = "QUEUED"], NoRow,
                     [NoRow EXCEPT !.status = "FAILED", !.error = "queue"]}
     \/ /\ Broken
        /\ row' \in {[NoRow EXCEPT !.status = s] : s \in {"absent", "PENDING", "QUEUED"}}
  /\ Outside /\ UNCHANGED <<seen, polls, stored>>

FindArtifact ==
  /\ stage = "artifact"
  /\ \/ Proceed("visual") /\ Answered
     \/ Broken
  /\ Quietly

\* The checks of the video's frame; its failures are contained.
CheckFrame ==
  /\ stage = "visual"
  /\ \/ Proceed("poll") \/ End("FAILED", "not_visible")
  /\ Answered /\ Quietly

\* Mutant: the time that a poll takes is not counted.
ElapsedForgotten == polls

Elapsed == polls + 1

\* Mutant: one poll more than the timeout allows.
TimeLeftOffByOne == polls <= MaxPolls

TimeLeft == polls < MaxPolls

(* list_by_execution: an instance the session already has is returned as it was   *)
(* loaded, whatever the row is by now.                                         *)
Poll ==
  /\ stage = "poll" /\ TimeLeft
  /\ \/ /\ seen' = IF seen = NoRow THEN row ELSE seen
        /\ stored' = row.status
        /\ IF seen'.status \in Settled THEN Proceed("conclude") /\ UNCHANGED polls
                                       ELSE Proceed("poll") /\ polls' = Elapsed
        /\ Answered
     \/ Broken /\ UNCHANGED <<seen, polls, stored>>
  /\ Outside /\ UNCHANGED row

TimeOut ==
  /\ stage = "poll" /\ ~TimeLeft
  /\ Proceed("conclude")
  /\ Answered /\ Quietly

\* Mutant: what is published is not asked whether it is private.
ConclusionIgnoringPrivacy ==
  IF seen.status = "PUBLISHED" THEN [result |-> "SUCCESS", error |-> "none"]
  ELSE [result |-> "FAILED", error |-> "timed_out"]

Conclusion ==
  IF seen.status = "PUBLISHED" /\ seen.private THEN [result |-> "SUCCESS", error |-> "none"]
  ELSE [result |-> "FAILED",
        error  |-> CASE seen.status = "absent"    -> "not_found"
                     [] seen.status = "PUBLISHED" -> "not_private"
                     [] seen.status = "FAILED"    -> "publication_failed"
                     [] OTHER                     -> "timed_out"]

Conclude ==
  /\ stage = "conclude"
  /\ End(Conclusion.result, Conclusion.error)
  /\ Answered /\ Quietly

-----------------------------------------------------------------------------
(* The worker, whose own settings decide on the privacy; module Publishing has    *)
(* its steps.                                                                  *)

Claim ==
  /\ row.status = "QUEUED" /\ env.worker # "down"
  /\ row' = [row EXCEPT !.status = "PUBLISHING"]
  /\ UNCHANGED <<faults, stage, seen, polls, stored, report>> /\ Outside

CanUpload ==
  /\ env.connection = "ready"
  /\ {"youtube_client", "encryption_key"} \subseteq env.secrets

Publish ==
  /\ row.status = "PUBLISHING"
  /\ \/ \E privately \in BOOLEAN :
          row' = [row EXCEPT !.status = "PUBLISHED", !.private = privately]
     \/ row' = [row EXCEPT !.status = "FAILED", !.error = "provider"]
     \/ ~CanUpload /\ row' = [row EXCEPT !.status = "FAILED", !.error = "credential"]
  /\ UNCHANGED <<faults, stage, seen, polls, stored, report>> /\ Outside

\* The approval.
Approve ==
  /\ point \in {"args", "over"} /\ stage = "idle" /\ env.optIn # "true"
  /\ env' = [env EXCEPT !.optIn = "true"]
  /\ UNCHANGED <<faults, preflight, e2e, changes>>

\* Somebody disconnects the account, deletes the project or stops the worker.
Change ==
  /\ changes < MaxChanges
  /\ changes' = changes + 1
  /\ env' \in {[env EXCEPT !.connection = "none"], [env EXCEPT !.project = "unknown"],
               [env EXCEPT !.worker = "down"]}
  /\ UNCHANGED <<faults, preflight, e2e>>

-----------------------------------------------------------------------------
Script ==
  \/ Start \/ FindProject \/ SetUpWorkflow \/ Execute \/ FindArtifact \/ CheckFrame
  \/ Poll \/ TimeOut \/ Conclude

Next ==
  \/ PreflightNext /\ stage = "idle" /\ UNCHANGED <<e2e, changes>>
  \/ Script \/ Claim \/ Publish \/ Approve \/ Change

Spec == Init /\ [][Next]_vars

\* The script runs on once it was started; nobody else is obliged to anything.
FairSpec == Spec /\ WF_vars(stage # "idle" /\ Script)

-----------------------------------------------------------------------------
(* Properties.                                                             *)

\* Every variable stays in its range, and only the script's session lags behind.
TypeOK ==
  /\ env \in Environment
  /\ args \in Arguments
  /\ point \in Points
  /\ next \in 1..(Len(LiveChecks) + 1)
  /\ object \in BOOLEAN
  /\ exitCode \in {0, 1, 2, NoCode}
  /\ faults \in 0..MaxFaults
  /\ stage \in Stages
  /\ row \in Row /\ seen \in Row
  /\ polls \in 0..MaxPolls
  /\ stored \in Statuses
  /\ report \in [result : {"SUCCESS", "FAILED"}, error : Errors]
  /\ changes \in 0..MaxChanges

(* "PRODUCTION E2E = VERIFIED only when": a reported success means that the       *)
(* stored publication is PUBLISHED as a private video, and a reported failure    *)
(* of the publication is one - although both are read from the session's copy.   *)
ReportIsTrue ==
  /\ report.result = "SUCCESS" => row.status = "PUBLISHED" /\ row.private
  /\ report.error = "publication_failed" => row.status = "FAILED"
  /\ report.error = "not_private" => row.status = "PUBLISHED" /\ ~row.private
  /\ report.error = "not_found" => row.status = "absent"

(* A READY preflight is a promise to the end-to-end run: if nobody changes the     *)
(* environment but for the approval, and every call is answered, the run is     *)
(* neither refused nor fails on the project, and the worker has a credential.    *)
GateSuffices ==
  Ready /\ changes = 0 /\ faults = 0 =>
    /\ report.error # "unexpected"
    /\ report.error = "refused" => env.optIn # "true"
    /\ row.error # "credential"

(* The script ends with a verdict whatever the worker does, or does not.          *)
EndsWithVerdict == stage = "project" ~> stage = "over"

(* "Async Wait": the script reports a timeout only if the publication was not      *)
(* settled when it last looked.                                                *)
TimeoutIsTrue == report.error = "timed_out" => stored \notin Settled
=============================================================================
