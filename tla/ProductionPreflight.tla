------------------------- MODULE ProductionPreflight -------------------------
(***************************************************************************)
(* validate_production_infrastructure.py: the operator's check of a          *)
(* production environment before the one controlled end-to-end run.          *)
(*                                                                         *)
(* The environment may change, and any call may fail, between two checks;    *)
(* the storage probe writes an object that it must remove again.            *)
(***************************************************************************)
EXTENDS Naturals, Sequences, FiniteSets

CONSTANTS
  Environments,         \* the environments considered
  MaxFaults             \* bound: calls to other systems that fail

\* Settings by what needs them; a group is missing if one of its settings is.
Secrets == {"openai", "youtube_client", "encryption_key", "services"}

Environment ==
  [secrets    : SUBSET Secrets,
   accepted   : BOOLEAN,                    \* by the validation of Settings
   production : BOOLEAN, private : BOOLEAN, https : BOOLEAN, virtual : BOOLEAN,
   optIn      : {"off", "true", "other"},   \* AI_VIDEO_OS_RUN_PRODUCTION_E2E
   project    : {"unset", "malformed", "unknown", "existing"},
   migrated   : BOOLEAN,
   connection : {"none", "unreadable", "unscoped", "ready"},
   worker     : {"down", "without_ffmpeg", "ready"}]

ASSUME EnvironmentsAssumption == Environments \subseteq Environment
ASSUME FaultsAssumption == MaxFaults \in Nat

VARIABLES
  env,                  \* the environment as it is
  args,                 \* the command line
  point, next,          \* control, and the next of the live checks
  results,              \* what has been found out
  object,               \* whether the probe's object is in the bucket
  exitCode,
  faults

preflight == <<args, point, next, results, object, exitCode>>

Arguments == [live : BOOLEAN, probe : BOOLEAN, access : BOOLEAN, api : BOOLEAN]

Points == {"args", "settings", "live", "upload", "read", "presign", "delete", "exit", "over"}

NoCode == 9

-----------------------------------------------------------------------------
Result(check, status) == [check |-> check, status |-> status]

Verdict(check, ok) == Result(check, IF ok THEN "PASS" ELSE "FAIL")

SecretPresence ==
  {Result(s, IF s \in env.secrets THEN "CONFIGURED" ELSE "MISSING") : s \in Secrets}

DryRun ==
  SecretPresence \cup
  {Verdict("APP_ENV", env.production),
   Verdict("YOUTUBE_PRIVACY_STATUS", env.private),
   Verdict("YOUTUBE_OAUTH_REDIRECT_URI", env.https),
   Verdict("STORAGE_ADDRESSING_STYLE", env.virtual),
   Verdict("PRODUCTION_E2E_PROJECT_ID", env.project \in {"unknown", "existing"}),
   Result("AI_VIDEO_OS_RUN_PRODUCTION_E2E", IF env.optIn = "off" THEN "PASS" ELSE "UNSAFE"),
   Result("LIVE_NETWORK_ACCESS", "SKIPPED"),
   Result("OAUTH_AND_AI_PUBLISHING", "SKIPPED")}

ApiResults ==
  IF args.api THEN {Verdict("API_HEALTH", TRUE), Verdict("API_READINESS", TRUE)}
              ELSE {Result("API_HEALTH_AND_READINESS", "SKIPPED")}

\* Mutant: the project's id is checked, and not the project.
ProjectResultSyntactic ==
  {Verdict("PRODUCTION_E2E_PROJECT", env.project \in {"unknown", "existing"})}

ProjectResult == {Verdict("PRODUCTION_E2E_PROJECT", env.project = "existing")}

\* Nothing is asked of Google: the token is decrypted, the scopes are the stored ones.
YouTubeResults ==
  {Verdict("YOUTUBE_CONNECTION", env.connection # "none"),
   Verdict("YOUTUBE_UPLOAD_SCOPE", env.connection \in {"unreadable", "ready"}),
   Verdict("YOUTUBE_OAUTH_CREDENTIAL",
           env.connection \in {"unscoped", "ready"} /\ "encryption_key" \in env.secrets)}

WorkerResults ==
  {Verdict("WORKER_EXECUTION", env.worker # "down"),
   Verdict("FFMPEG", env.worker = "ready")}

LiveChecks == <<"api", "database", "migration", "project", "youtube", "redis", "bucket", "worker">>

\* What each of them reports when its calls succeed.
Findings ==
  [api       |-> ApiResults,
   database  |-> {Verdict("POSTGRESQL_CONNECTIVITY", TRUE)},
   migration |-> {Verdict("ALEMBIC_MIGRATION", env.migrated)},
   project   |-> ProjectResult,
   youtube   |-> YouTubeResults,
   redis     |-> {Verdict("REDIS_CONNECTIVITY", TRUE)},
   bucket    |-> {Verdict("STORAGE_CONNECTIVITY", TRUE)},
   worker    |-> WorkerResults]

Unanswered(findings) == {Verdict(r.check, FALSE) : r \in findings}

NotCheckable ==
  {Result(check, "NOT_CHECKABLE") :
     check \in {"OPENAI_ACCESS", "YOUTUBE_TOKEN_REMOTE_VALIDITY", "YOUTUBE_UPLOAD_ACCESS"}}

-----------------------------------------------------------------------------
PreflightInit ==
  /\ env \in Environments
  /\ args \in Arguments
  /\ point = "args" /\ next = 1
  /\ results = {} /\ object = FALSE
  /\ exitCode = NoCode /\ faults = 0

GoTo(p) == point' = p /\ UNCHANGED <<env, args, next>>

Found(rs) == results' = results \cup rs

Fault == faults < MaxFaults /\ faults' = faults + 1

Answered == UNCHANGED faults

ParseArgs ==
  /\ point = "args"
  /\ \/ /\ \/ args.probe /\ ~args.live
           \/ args.access /\ ~args.probe
        /\ exitCode' = 2 /\ GoTo("over")
     \/ /\ args.probe => args.live
        /\ args.access => args.probe
        /\ UNCHANGED exitCode /\ GoTo("settings")
  /\ Answered /\ UNCHANGED <<results, object>>

ReadSettings ==
  /\ point = "settings"
  /\ \/ ~env.accepted /\ Found({Result("SETTINGS_LOAD", "FAIL")}) /\ GoTo("exit")
     \/ env.accepted /\ Found(DryRun) /\ GoTo(IF args.live THEN "live" ELSE "exit")
  /\ Answered /\ UNCHANGED <<object, exitCode>>

LiveCheck ==
  LET findings == Findings[LiveChecks[next]] IN
  /\ point = "live" /\ next <= Len(LiveChecks)
  /\ next' = next + 1
  /\ \/ Found(findings) /\ Answered
     \/ Fault /\ Found(Unanswered(findings))
  /\ UNCHANGED <<env, args, point, object, exitCode>>

ChecksDone ==
  /\ point = "live" /\ next > Len(LiveChecks)
  /\ Found(NotCheckable \cup
           IF args.probe THEN {} ELSE {Result("STORAGE_R_W_DELETE", "SKIPPED")})
  /\ GoTo(IF args.probe THEN "upload" ELSE "exit")
  /\ Answered /\ UNCHANGED <<object, exitCode>>

-----------------------------------------------------------------------------
(* _storage_probe: one key that nobody else uses.  A call that fails may have     *)
(* been carried out.                                                           *)

\* Mutant: only an object that is known to exist is removed.
AfterUploadForgetful(answered) == IF answered THEN "read" ELSE "exit"

AfterUpload(answered) == IF answered THEN "read" ELSE "delete"

Upload ==
  /\ point = "upload"
  /\ \/ /\ object' = TRUE /\ Answered
        /\ Found({Verdict("STORAGE_UPLOAD", TRUE)}) /\ GoTo(AfterUpload(TRUE))
     \/ /\ Fault /\ object' \in {object, TRUE}
        /\ Found({Verdict("STORAGE_PROBE", FALSE)}) /\ GoTo(AfterUpload(FALSE))
  /\ UNCHANGED exitCode

Read ==
  /\ point = "read"
  /\ \/ Found({Verdict("STORAGE_READ", object)}) /\ GoTo("presign") /\ Answered
     \/ Fault /\ Found({Verdict("STORAGE_PROBE", FALSE)}) /\ GoTo("delete")
  /\ UNCHANGED <<object, exitCode>>

\* The URL is made locally; reading through it may be refused.
Presign ==
  /\ point = "presign"
  /\ \/ /\ Found({Verdict("PRESIGNED_URL_GENERATION", TRUE),
                  IF args.access THEN Verdict("PRESIGNED_URL_ACCESS", object)
                                 ELSE Result("PRESIGNED_URL_ACCESS", "SKIPPED")})
        /\ Answered
     \/ /\ args.access /\ Fault
        /\ \/ Found({Verdict("PRESIGNED_URL_GENERATION", TRUE), Verdict("STORAGE_PROBE", FALSE)})
           \/ Found({Verdict("PRESIGNED_URL_GENERATION", TRUE),
                     Verdict("PRESIGNED_URL_ACCESS", FALSE)})
  /\ GoTo("delete")
  /\ UNCHANGED <<object, exitCode>>

Delete ==
  /\ point = "delete"
  /\ \/ object' = FALSE /\ Found({Verdict("STORAGE_DELETE", TRUE)}) /\ Answered
     \/ /\ Fault /\ object' \in {object, FALSE}
        /\ Found({Verdict("STORAGE_DELETE", FALSE)})
  /\ GoTo("exit")
  /\ UNCHANGED exitCode

Exit ==
  /\ point = "exit"
  /\ exitCode' = IF \A r \in results : r.status \notin {"FAIL", "UNSAFE"} THEN 0 ELSE 1
  /\ GoTo("over")
  /\ Answered /\ UNCHANGED <<results, object>>

PreflightNext ==
  \/ ParseArgs \/ ReadSettings \/ LiveCheck \/ ChecksDone
  \/ Upload \/ Read \/ Presign \/ Delete \/ Exit

-----------------------------------------------------------------------------
(* "Preflight READY gate": all checks of the configuration are PASS or           *)
(* CONFIGURED, and so are those of the infrastructure.                          *)
Ready ==
  /\ point = "over" /\ exitCode = 0 /\ args.live
  /\ \A r \in results : r.status # "MISSING"

(* The probe reports what it leaves behind: once it is over, its object is in     *)
(* the bucket only if the removal is reported as failed, and the exit code      *)
(* says so.                                                                    *)
NothingLeftUnreported ==
  object /\ point = "over" =>
    Result("STORAGE_DELETE", "FAIL") \in results /\ exitCode = 1
=============================================================================
