--------------------- MODULE ProductionValidationProofs ---------------------
(***************************************************************************)
(* Proofs about the two validation scripts for any environments, any number  *)
(* of polls, failing calls and changes: the types, that the probe reports    *)
(* what it leaves behind, that reports are true and that READY suffices.     *)
(***************************************************************************)
EXTENDS ProductionValidation, TLAPS

USE EnvironmentsAssumption, FaultsAssumption, PollsAssumption, ChangesAssumption

-----------------------------------------------------------------------------
\* The types of the preflight, of the run and of their environment.
PreflightTypeOK ==
  /\ args \in Arguments
  /\ point \in Points
  /\ next \in 1..(Len(LiveChecks) + 1)
  /\ object \in BOOLEAN
  /\ exitCode \in {0, 1, 2, NoCode}

RunTypeOK ==
  /\ stage \in Stages
  /\ row \in Row /\ seen \in Row
  /\ polls \in 0..MaxPolls
  /\ stored \in Statuses
  /\ report \in [result : {"SUCCESS", "FAILED"}, error : Errors]

AroundTypeOK ==
  /\ env \in Environment
  /\ faults \in 0..MaxFaults
  /\ changes \in 0..MaxChanges

LEMMA TypeParts == TypeOK <=> PreflightTypeOK /\ RunTypeOK /\ AroundTypeOK
  BY DEF TypeOK, PreflightTypeOK, RunTypeOK, AroundTypeOK

\* Calls are answered or fail: the count stays within its bound.
LEMMA FaultsType ==
  ASSUME faults \in 0..MaxFaults, Answered \/ Fault
  PROVE  faults' \in 0..MaxFaults
  BY DEF Answered, Fault

LEMMA PreflightTypes ==
  ASSUME PreflightTypeOK, AroundTypeOK, PreflightNext, UNCHANGED changes
  PROVE  PreflightTypeOK' /\ AroundTypeOK'
<1> USE DEF PreflightTypeOK, AroundTypeOK, GoTo, Points
<1>0. Len(LiveChecks) = 8
  BY DEF LiveChecks
<1>1. Answered \/ Fault
  BY DEF PreflightNext, ParseArgs, ReadSettings, LiveCheck, ChecksDone, Upload, Read, Presign,
         Delete, Exit
<1>2. AroundTypeOK'
  <2>1. UNCHANGED env
    BY DEF PreflightNext, ParseArgs, ReadSettings, LiveCheck, ChecksDone, Upload, Read, Presign,
           Delete, Exit
  <2> QED BY <1>1, <2>1, FaultsType
<1>3. args' \in Arguments
  BY DEF PreflightNext, ParseArgs, ReadSettings, LiveCheck, ChecksDone, Upload, Read, Presign,
         Delete, Exit
<1>4. point' \in Points
  BY DEF PreflightNext, ParseArgs, ReadSettings, LiveCheck, ChecksDone, Upload, Read, Presign,
         Delete, Exit, AfterUpload
<1>5. next' \in 1..(Len(LiveChecks) + 1)
  <2>1. next' = next \/ (next <= Len(LiveChecks) /\ next' = next + 1)
    BY Zenon DEF PreflightNext, ParseArgs, ReadSettings, LiveCheck, ChecksDone, Upload, Read,
                 Presign, Delete, Exit
  <2> QED BY <1>0, <2>1
<1>6. object' \in BOOLEAN
  <2>1. object' \in {object, TRUE, FALSE}
    BY Zenon DEF PreflightNext, ParseArgs, ReadSettings, LiveCheck, ChecksDone, Upload, Read,
                 Presign, Delete, Exit
  <2> QED BY <2>1, Zenon
<1>7. exitCode' \in {0, 1, 2, NoCode}
  BY DEF PreflightNext, ParseArgs, ReadSettings, LiveCheck, ChecksDone, Upload, Read, Presign,
         Delete, Exit
<1> QED BY <1>2, <1>3, <1>4, <1>5, <1>6, <1>7

\* The publication that a workflow makes: none, or one that waits, or that was not sent.
LEMMA ExecuteMakes ==
  ASSUME Execute
  PROVE  row' = row \/ \E s \in Statuses, e \in {"none", "queue"} :
           row' = [status |-> s, private |-> FALSE, error |-> e]
<1>1. CASE row' \in {[NoRow EXCEPT !.status = "QUEUED"], NoRow,
                    [NoRow EXCEPT !.status = "FAILED", !.error = "queue"]}
  BY <1>1 DEF NoRow, Statuses
<1>2. CASE row' \in {[NoRow EXCEPT !.status = s] : s \in {"absent", "PENDING", "QUEUED"}}
  BY <1>2 DEF NoRow, Statuses
<1> QED BY <1>1, <1>2, Zenon DEF Execute

LEMMA RunTypes ==
  ASSUME RunTypeOK, AroundTypeOK, Script \/ Claim \/ Publish
  PROVE  RunTypeOK' /\ AroundTypeOK'
<1> USE DEF RunTypeOK, AroundTypeOK, Stages, Statuses, Errors, Row, NoRow, Quietly, Outside,
            Proceed, End
<1>1. faults' \in 0..MaxFaults
  <2>1. Answered \/ Fault
    BY DEF Script, Claim, Publish, Start, FindProject, SetUpWorkflow, Execute, FindArtifact,
           CheckFrame, Poll, TimeOut, Conclude, Broken, Answered
  <2> QED BY <2>1, FaultsType
<1>2. UNCHANGED <<env, changes>>
  BY DEF Script, Claim, Publish, Start, FindProject, SetUpWorkflow, Execute, FindArtifact,
         CheckFrame, Poll, TimeOut, Conclude
<1>3. CASE Start \/ FindProject \/ SetUpWorkflow \/ FindArtifact \/ CheckFrame \/ TimeOut
  BY <1>1, <1>2, <1>3
  DEF Start, FindProject, SetUpWorkflow, FindArtifact, CheckFrame, TimeOut, Broken
<1>4. CASE Execute
  <2>1. row' \in Row
    <3>1. CASE row' = row
      BY <3>1
    <3>2. ASSUME NEW s \in Statuses, NEW e \in {"none", "queue"},
                 row' = [status |-> s, private |-> FALSE, error |-> e]
          PROVE  row' \in Row
      BY <3>2
    <3> QED BY <1>4, <3>1, <3>2, ExecuteMakes
  <2> QED BY <1>1, <1>2, <1>4, <2>1 DEF Execute, Broken
<1>5. CASE Poll
  BY <1>1, <1>2, <1>5 DEF Poll, TimeLeft, Elapsed, Broken
<1>6. CASE Conclude
  BY <1>1, <1>2, <1>6 DEF Conclude, Conclusion
<1>7. CASE Claim \/ Publish
  BY <1>1, <1>2, <1>7 DEF Claim, Publish
<1> QED BY <1>3, <1>4, <1>5, <1>6, <1>7 DEF Script

LEMMA EnvironmentTypes ==
  ASSUME AroundTypeOK, Approve \/ Change
  PROVE  AroundTypeOK'
  BY DEF AroundTypeOK, Approve, Change, Environment

\* The preflight, the run and the worker keep to what the scripts declare.
THEOREM TypeInvariant == Spec => []TypeOK
<1>1. Init => TypeOK
  <2> SUFFICES ASSUME Init PROVE TypeOK
    OBVIOUS
  <2>1. env \in Environment
    BY DEF Init, PreflightInit
  <2>2. Len(LiveChecks) = 8
    BY DEF LiveChecks
  <2>3. PreflightTypeOK
    <3>1. object \in BOOLEAN /\ args \in Arguments
      BY Zenon DEF Init, PreflightInit
    <3>2. next \in 1..(Len(LiveChecks) + 1)
      BY <2>2 DEF Init, PreflightInit
    <3>3. point \in Points /\ exitCode \in {0, 1, 2, NoCode}
      BY DEF Init, PreflightInit, Points
    <3> QED BY <3>1, <3>2, <3>3 DEF PreflightTypeOK
  <2>4. RunTypeOK
    BY DEF Init, RunTypeOK, Stages, Statuses, Errors, Row, NoRow
  <2>5. AroundTypeOK
    BY <2>1 DEF Init, PreflightInit, AroundTypeOK
  <2> QED BY <2>3, <2>4, <2>5, TypeParts
<1>2. TypeOK /\ [Next]_vars => TypeOK'
  <2> SUFFICES ASSUME TypeOK, [Next]_vars PROVE TypeOK'
    OBVIOUS
  <2>0. PreflightTypeOK /\ RunTypeOK /\ AroundTypeOK
    BY TypeParts
  <2> SUFFICES PreflightTypeOK' /\ RunTypeOK' /\ AroundTypeOK'
    BY DEF TypeOK, PreflightTypeOK, RunTypeOK, AroundTypeOK
  <2>1. CASE PreflightNext /\ UNCHANGED <<e2e, changes>>
    BY <2>0, <2>1, PreflightTypes DEF e2e, RunTypeOK
  <2>2. CASE Script \/ Claim \/ Publish
    <3>1. UNCHANGED preflight
      BY <2>2 DEF Script, Claim, Publish, Start, FindProject, SetUpWorkflow, Execute,
                  FindArtifact, CheckFrame, Poll, TimeOut, Conclude, Quietly, Outside
    <3> QED BY <2>0, <2>2, <3>1, RunTypes DEF preflight, PreflightTypeOK
  <2>3. CASE Approve \/ Change
    <3>1. UNCHANGED <<preflight, e2e>>
      BY <2>3 DEF Approve, Change
    <3> QED BY <2>0, <2>3, <3>1, EnvironmentTypes DEF preflight, e2e, PreflightTypeOK, RunTypeOK
  <2>4. CASE UNCHANGED vars
    BY <2>0, <2>4 DEF vars, preflight, e2e, PreflightTypeOK, RunTypeOK, AroundTypeOK
  <2> QED BY <2>1, <2>2, <2>3, <2>4 DEF Next
<1> QED BY <1>1, <1>2, PTL DEF Spec

-----------------------------------------------------------------------------
(* The probe.  Its object exists only between its upload and its removal, and      *)
(* stays after that only where the removal is known to have failed.              *)
ProbeInvariant ==
  /\ object => point \in {"read", "presign", "delete", "exit", "over"}
  /\ object /\ point \in {"exit", "over"} => Result("STORAGE_DELETE", "FAIL") \in results
  /\ object /\ point = "over" => exitCode = 1

LEMMA ProbeStep ==
  ASSUME ProbeInvariant, PreflightNext
  PROVE  ProbeInvariant'
<1> USE DEF ProbeInvariant, GoTo, Found
<1>1. CASE ParseArgs
  BY <1>1 DEF ParseArgs
<1>2. CASE ReadSettings
  BY <1>2 DEF ReadSettings
<1>3. CASE LiveCheck
  <2>1. UNCHANGED <<object, point, exitCode>> /\ point = "live"
    BY <1>3 DEF LiveCheck
  <2> QED BY <2>1
<1>4. CASE ChecksDone
  <2>1. UNCHANGED <<object, exitCode>> /\ point = "live"
    BY <1>4 DEF ChecksDone
  <2> QED BY <2>1
<1>5. CASE Upload
  BY <1>5 DEF Upload, AfterUpload
<1>6. CASE Read
  BY <1>6 DEF Read
<1>7. CASE Presign
  <2>1. point' = "delete" /\ UNCHANGED object
    BY <1>7 DEF Presign
  <2> QED BY <2>1
<1>8. CASE Delete
  <2>1. point' = "exit" /\ UNCHANGED exitCode
    BY <1>8 DEF Delete
  <2>2. \/ object' = FALSE
        \/ results' = results \cup {Verdict("STORAGE_DELETE", FALSE)}
    BY <1>8, Zenon DEF Delete, Found
  <2>3. Verdict("STORAGE_DELETE", FALSE) = Result("STORAGE_DELETE", "FAIL")
    BY DEF Verdict
  <2> QED BY <2>1, <2>2, <2>3
<1>9. CASE Exit
  <2>1. point = "exit" /\ point' = "over" /\ UNCHANGED <<results, object>>
    BY <1>9 DEF Exit
  <2>2. Result("STORAGE_DELETE", "FAIL").status = "FAIL"
    BY DEF Result
  <2>3. Result("STORAGE_DELETE", "FAIL") \in results => exitCode' = 1
    BY <1>9, <2>2 DEF Exit
  <2> QED BY <2>1, <2>3
<1> QED BY <1>1, <1>2, <1>3, <1>4, <1>5, <1>6, <1>7, <1>8, <1>9 DEF PreflightNext

LEMMA OutsideThePreflight ==
  ASSUME Script \/ Claim \/ Publish \/ Approve \/ Change \/ UNCHANGED vars
  PROVE  UNCHANGED preflight
  BY DEF Script, Claim, Publish, Start, FindProject, SetUpWorkflow, Execute, FindArtifact,
         CheckFrame, Poll, TimeOut, Conclude, Approve, Change, Quietly, Outside, vars

\* Whatever fails in the probe, an object it leaves behind is reported by the exit code.
THEOREM ProbeReportsWhatItLeaves == Spec => []NothingLeftUnreported
<1>1. Init => ProbeInvariant
  BY DEF Init, PreflightInit, ProbeInvariant
<1>2. ProbeInvariant /\ [Next]_vars => ProbeInvariant'
  <2> SUFFICES ASSUME ProbeInvariant, [Next]_vars PROVE ProbeInvariant'
    OBVIOUS
  <2>1. CASE PreflightNext
    BY <2>1, ProbeStep
  <2>2. CASE UNCHANGED preflight
    BY <2>2 DEF ProbeInvariant, preflight
  <2> QED BY <2>1, <2>2, OutsideThePreflight DEF Next
<1>3. ProbeInvariant => NothingLeftUnreported
  BY DEF ProbeInvariant, NothingLeftUnreported
<1> QED BY <1>1, <1>2, <1>3, PTL DEF Spec

-----------------------------------------------------------------------------
(* The run.  The session's copy of the publication may be old, but a copy that     *)
(* says the publication is settled is the publication, which does not change     *)
(* any more; and nothing was found only where nothing was made.                  *)
RunInvariant ==
  /\ stage \in {"idle", "project", "workflow", "execute"} => row = NoRow
  /\ stage \notin {"poll", "conclude", "over"} => seen = NoRow /\ polls = 0
  /\ seen.status \in Settled => seen = row
  /\ row.status = "absent" => row = NoRow
  /\ seen.status = "absent" => seen = NoRow
  /\ polls > 0 /\ seen = NoRow => row = NoRow
  /\ stage = "conclude" => polls > 0 \/ seen.status \in Settled
  /\ stage # "over" => report = [result |-> "FAILED", error |-> "none"]
  /\ ReportIsTrue

LEMMA ScriptStep ==
  ASSUME TypeOK, RunInvariant, Script
  PROVE  RunInvariant'
<1> USE DEF RunInvariant, ReportIsTrue, Settled, NoRow, Quietly, Outside, Proceed, End, Broken
<1>1. CASE Start \/ FindProject \/ SetUpWorkflow \/ FindArtifact \/ CheckFrame
  BY <1>1 DEF Start, FindProject, SetUpWorkflow, FindArtifact, CheckFrame
<1>2. CASE Execute
  <2>1. /\ stage' \in {"artifact", "over"} /\ UNCHANGED <<seen, polls>>
        /\ report' = report \/ report'.error \in {"workflow_failed", "unexpected"}
        /\ report'.result = "FAILED"
        /\ stage' = "artifact" => report' = report
    BY <1>2 DEF Execute
  <2>2. row'.status = "absent" => row' = NoRow
    <3>1. CASE row' = row
      BY <3>1
    <3>2. ASSUME NEW s \in Statuses, NEW e \in {"none", "queue"},
                 row' = [status |-> s, private |-> FALSE, error |-> e],
                 row'.status = "absent"
          PROVE  row' = NoRow
      BY <1>2, <3>2 DEF Execute
    <3> QED BY <1>2, <3>1, <3>2, ExecuteMakes
  <2> QED BY <1>2, <2>1, <2>2 DEF Execute
<1>3. CASE Poll
  BY <1>3 DEF Poll, TimeLeft, Elapsed, TypeOK
<1>4. CASE TimeOut
  BY <1>4 DEF TimeOut, TimeLeft, TypeOK
<1>5. CASE Conclude
  BY <1>5 DEF Conclude, Conclusion, TypeOK, Row, Statuses
<1> QED BY <1>1, <1>2, <1>3, <1>4, <1>5 DEF Script

LEMMA WorkerStep ==
  ASSUME TypeOK, RunInvariant, Claim \/ Publish
  PROVE  RunInvariant'
<1>1. /\ row.status \in {"QUEUED", "PUBLISHING"}
      /\ UNCHANGED <<stage, seen, polls, report>>
  BY DEF Claim, Publish
<1>2. row'.status \in {"PUBLISHING", "PUBLISHED", "FAILED"}
  BY DEF Claim, Publish, TypeOK, Row
<1> QED BY <1>1, <1>2 DEF RunInvariant, ReportIsTrue, Settled, NoRow

LEMMA OutsideTheRun ==
  ASSUME \/ PreflightNext /\ UNCHANGED <<e2e, changes>>
         \/ Approve \/ Change \/ UNCHANGED vars
  PROVE  UNCHANGED e2e
  BY DEF Approve, Change, vars

LEMMA RunInvariantHolds == Spec => []RunInvariant
<1>1. Init => RunInvariant
  BY DEF Init, RunInvariant, ReportIsTrue, NoRow, Settled
<1>2. TypeOK /\ RunInvariant /\ [Next]_vars => RunInvariant'
  <2> SUFFICES ASSUME TypeOK, RunInvariant, [Next]_vars PROVE RunInvariant'
    OBVIOUS
  <2>1. CASE UNCHANGED e2e
    BY <2>1 DEF RunInvariant, ReportIsTrue, e2e
  <2> QED BY <2>1, ScriptStep, WorkerStep, OutsideTheRun DEF Next
<1> QED BY <1>1, <1>2, TypeInvariant, PTL DEF Spec

\* For any timeout and any worker, a verdict of the run is what the database says.
THEOREM ReportsAreTrue == Spec => []ReportIsTrue
<1>1. RunInvariant => ReportIsTrue
  BY DEF RunInvariant
<1> QED BY <1>1, RunInvariantHolds, PTL

-----------------------------------------------------------------------------
(* The gate.  What the preflight has found out stays true while only the opt-in      *)
(* changes, so what makes the run fail, or the worker, would have been found out. *)
SettingsFailed == Result("SETTINGS_LOAD", "FAIL") \in results

PreflightFound ==
  /\ point # "over" => exitCode = NoCode
  /\ point \notin {"args", "settings"} /\ exitCode # 2 =>
       SettingsFailed \/ SecretPresence \subseteq results
  /\ next > 4 => ProjectResult \subseteq results
  /\ next > 5 => YouTubeResults \subseteq results
  /\ args.live /\ point \notin {"args", "settings", "live"} /\ exitCode # 2 =>
       SettingsFailed \/ next > 5
  /\ point = "over" /\ exitCode = 0 => \A r \in results : r.status # "FAIL"

RunFailedBecause ==
  /\ report.error = "unexpected" => env.project # "existing"
  /\ report.error = "refused" => env.optIn # "true" \/ env.project \in {"unset", "malformed"}
  /\ row.error = "credential" => ~CanUpload

GateInvariant == changes = 0 /\ faults = 0 => PreflightFound /\ RunFailedBecause

\* The environment but for the opt-in.
Relevant == <<env.secrets, env.project, env.connection>>

LEMMA FoundOutOnce ==
  ASSUME TypeOK, PreflightFound, PreflightNext, faults = 0, faults' = 0
  PROVE  PreflightFound'
<1>1. env' = env
  BY DEF PreflightNext, ParseArgs, ReadSettings, LiveCheck, ChecksDone, Upload, Read, Presign,
         Delete, Exit, GoTo
<1>2. results \subseteq results'
  BY DEF PreflightNext, ParseArgs, ReadSettings, LiveCheck, ChecksDone, Upload, Read, Presign,
         Delete, Exit, Found
<1>3. /\ SettingsFailed => SettingsFailed'
      /\ SecretPresence' = SecretPresence
      /\ ProjectResult' = ProjectResult
      /\ YouTubeResults' = YouTubeResults
  BY <1>1, <1>2 DEF SettingsFailed, SecretPresence, ProjectResult, YouTubeResults
<1> HIDE DEF SettingsFailed, SecretPresence, ProjectResult, YouTubeResults
<1>4. CASE ParseArgs
  <2>1. /\ point = "args" /\ UNCHANGED <<args, next>>
        /\ \/ point' = "over" /\ exitCode' = 2
           \/ point' = "settings" /\ UNCHANGED exitCode
    BY <1>4 DEF ParseArgs, GoTo
  <2> QED BY <1>2, <1>3, <2>1 DEF PreflightFound
<1>5. CASE ReadSettings
  <2>1. \/ point' = "exit" /\ SettingsFailed'
        \/ point' = (IF args.live THEN "live" ELSE "exit") /\ SecretPresence' \subseteq results'
    BY <1>3, <1>5 DEF ReadSettings, GoTo, Found, DryRun, SettingsFailed
  <2>2. point = "settings" /\ UNCHANGED <<args, next, exitCode>>
    BY <1>5 DEF ReadSettings, GoTo
  <2> QED BY <1>2, <1>3, <2>1, <2>2 DEF PreflightFound
<1>6. CASE LiveCheck
  <2>1. results' = results \cup Findings[LiveChecks[next]]
    BY <1>6 DEF LiveCheck, Found, Fault
  <2>2. point = "live" /\ next' = next + 1 /\ UNCHANGED <<args, point, exitCode>>
    BY <1>6 DEF LiveCheck
  <2>3. next = 4 => ProjectResult \subseteq results'
    BY <2>1 DEF LiveChecks, Findings
  <2>4. next = 5 => YouTubeResults \subseteq results'
    BY <2>1 DEF LiveChecks, Findings
  <2>5. next \in Nat
    BY DEF TypeOK, LiveChecks
  <2> QED BY <1>2, <1>3, <2>2, <2>3, <2>4, <2>5 DEF PreflightFound
<1>7. CASE ChecksDone
  <2>1. point = "live" /\ point' \in {"upload", "exit"} /\ UNCHANGED <<args, next, exitCode>>
    BY <1>7 DEF ChecksDone, GoTo
  <2>2. next > 5
    BY <1>7 DEF ChecksDone, LiveChecks, TypeOK
  <2> QED BY <1>2, <1>3, <2>1, <2>2 DEF PreflightFound
<1>8. CASE Upload \/ Read \/ Presign \/ Delete
  <2>1. /\ point \in {"upload", "read", "presign", "delete"}
        /\ point' \in {"read", "presign", "delete", "exit"}
        /\ UNCHANGED <<args, next, exitCode>>
    BY <1>8 DEF Upload, Read, Presign, Delete, GoTo, AfterUpload
  <2> QED BY <1>2, <1>3, <2>1 DEF PreflightFound
<1>9. CASE Exit
  <2>1. point = "exit" /\ point' = "over" /\ UNCHANGED <<args, next, results>>
    BY <1>9 DEF Exit, GoTo
  <2>2. exitCode' = 0 => \A r \in results : r.status # "FAIL"
    BY <1>9 DEF Exit
  <2>3. exitCode = NoCode /\ NoCode # 2
    BY <2>1 DEF PreflightFound, NoCode
  <2> QED BY <1>2, <1>3, <2>1, <2>2, <2>3 DEF PreflightFound
<1> QED BY <1>4, <1>5, <1>6, <1>7, <1>8, <1>9 DEF PreflightNext

LEMMA SameFindings ==
  ASSUME PreflightFound, UNCHANGED <<preflight, Relevant>>
  PROVE  PreflightFound'
<1>1. /\ SettingsFailed' = SettingsFailed
      /\ SecretPresence' = SecretPresence
      /\ ProjectResult' = ProjectResult
      /\ YouTubeResults' = YouTubeResults
  BY DEF preflight, Relevant, SettingsFailed, SecretPresence, ProjectResult, YouTubeResults
<1> HIDE DEF SettingsFailed, SecretPresence, ProjectResult, YouTubeResults
<1> QED BY <1>1 DEF PreflightFound, preflight

LEMMA FailsForAReason ==
  ASSUME TypeOK, RunInvariant, RunFailedBecause, Script \/ Claim \/ Publish,
         faults = 0, faults' = 0
  PROVE  RunFailedBecause'
<1>1. UNCHANGED env /\ ~Fault
  <2>1. UNCHANGED env
    BY DEF Script, Claim, Publish, Start, FindProject, SetUpWorkflow, Execute, FindArtifact,
           CheckFrame, Poll, TimeOut, Conclude, Quietly, Outside
  <2>2. ~Fault
    BY DEF Fault
  <2> QED BY <2>1, <2>2
<1>2. CanUpload' = CanUpload
  BY <1>1 DEF CanUpload
<1> HIDE DEF CanUpload
<1>3. CASE Start \/ FindProject \/ SetUpWorkflow \/ FindArtifact \/ CheckFrame
  BY <1>1, <1>2, <1>3 DEF Start, FindProject, SetUpWorkflow, FindArtifact, CheckFrame, Broken,
                        Quietly, Proceed, End, RunFailedBecause
<1>4. CASE Execute
  <2>1. row' = row \/ row'.error # "credential"
    BY <1>4, ExecuteMakes
  <2>2. report' = report \/ report'.error = "workflow_failed"
    BY <1>1, <1>4 DEF Execute, Broken, Proceed, End
  <2> QED BY <1>1, <1>2, <2>1, <2>2 DEF RunFailedBecause
<1>5. CASE Poll \/ TimeOut
  BY <1>1, <1>2, <1>5 DEF Poll, TimeOut, Broken, Quietly, Proceed, RunFailedBecause
<1>6. CASE Conclude
  <2>1. report'.error \notin {"unexpected", "refused"}
    BY <1>6 DEF Conclude, Conclusion, End, TypeOK, Row, Statuses
  <2>2. UNCHANGED row
    BY <1>6 DEF Conclude, Quietly
  <2> QED BY <1>1, <1>2, <2>1, <2>2 DEF RunFailedBecause
<1>7. CASE Claim \/ Publish
  <2>1. row'.error = "credential" => row.error = "credential" \/ ~CanUpload
    BY <1>7 DEF Claim, Publish, TypeOK, Row
  <2>2. UNCHANGED report
    BY <1>7 DEF Claim, Publish
  <2> QED BY <1>1, <1>2, <2>1, <2>2 DEF RunFailedBecause
<1> QED BY <1>3, <1>4, <1>5, <1>6, <1>7 DEF Script

\* A READY preflight suffices for any environment, if nothing changes or fails after it.
THEOREM ReadySuffices == Spec => []GateSuffices
<1>1. Init => GateInvariant
  BY DEF Init, PreflightInit, GateInvariant, PreflightFound, RunFailedBecause, NoRow
<1>2. TypeOK /\ RunInvariant /\ GateInvariant /\ [Next]_vars => GateInvariant'
  <2> SUFFICES ASSUME TypeOK, RunInvariant, GateInvariant, [Next]_vars,
                      changes' = 0, faults' = 0
               PROVE  PreflightFound' /\ RunFailedBecause'
    BY DEF GateInvariant
  <2>1. changes = 0 /\ faults = 0
    <3>1. changes' = changes \/ changes' = changes + 1
      BY DEF Next, Script, Claim, Publish, Start, FindProject, SetUpWorkflow, Execute,
             FindArtifact, CheckFrame, Poll, TimeOut, Conclude, Quietly, Outside, Approve,
             Change, vars
    <3>2. Answered \/ Fault
      BY DEF Next, PreflightNext, ParseArgs, ReadSettings, LiveCheck, ChecksDone, Upload, Read,
             Presign, Delete, Exit, Script, Claim, Publish, Start, FindProject, SetUpWorkflow,
             Execute, FindArtifact, CheckFrame, Poll, TimeOut, Conclude, Broken, Approve,
             Change, Answered, vars
    <3> QED BY <3>1, <3>2 DEF Answered, Fault, TypeOK
  <2>2. PreflightFound /\ RunFailedBecause
    BY <2>1 DEF GateInvariant
  <2>3. CASE PreflightNext /\ UNCHANGED <<e2e, changes>>
    <3>1. UNCHANGED env
      BY <2>3 DEF PreflightNext, ParseArgs, ReadSettings, LiveCheck, ChecksDone, Upload, Read,
                  Presign, Delete, Exit, GoTo
    <3>2. RunFailedBecause'
      BY <2>2, <2>3, <3>1 DEF RunFailedBecause, CanUpload, e2e
    <3> QED BY <2>1, <2>2, <2>3, <3>2, FoundOutOnce
  <2>4. CASE Script \/ Claim \/ Publish
    <3>1. UNCHANGED <<env, preflight>>
      BY <2>4 DEF Script, Claim, Publish, Start, FindProject, SetUpWorkflow, Execute,
                  FindArtifact, CheckFrame, Poll, TimeOut, Conclude, Quietly, Outside
    <3> QED BY <2>1, <2>2, <2>4, <3>1, FailsForAReason, SameFindings DEF Relevant
  <2>5. CASE Approve
    <3>1. /\ UNCHANGED <<preflight, Relevant, row, report>>
          /\ report.error = "none"
      BY <2>5 DEF Approve, e2e, Relevant, RunInvariant, TypeOK, Environment
    <3> QED BY <2>2, <3>1, SameFindings DEF RunFailedBecause, Relevant, CanUpload
  <2>6. CASE Change
    BY <2>1, <2>6 DEF Change
  <2>7. CASE UNCHANGED vars
    BY <2>2, <2>7, SameFindings DEF RunFailedBecause, CanUpload, Relevant, vars, e2e
  <2> QED BY <2>3, <2>4, <2>5, <2>6, <2>7 DEF Next
<1>3. TypeOK /\ GateInvariant => GateSuffices
  <2> SUFFICES ASSUME TypeOK, PreflightFound, RunFailedBecause, Ready
               PROVE  /\ env.project = "existing"
                      /\ CanUpload
    BY DEF GateInvariant, GateSuffices, RunFailedBecause, Ready
  <2>1. \A r \in results : r.status \notin {"FAIL", "MISSING"}
    BY DEF Ready, PreflightFound
  <2>2. ~SettingsFailed
    BY <2>1 DEF SettingsFailed, Result
  <2>3. SecretPresence \subseteq results /\ next > 5
    BY <2>2 DEF Ready, PreflightFound
  <2>4. {"youtube_client", "encryption_key"} \subseteq env.secrets
    <3>1. ASSUME NEW s \in Secrets PROVE s \in env.secrets
      <4>1. Result(s, IF s \in env.secrets THEN "CONFIGURED" ELSE "MISSING") \in results
        BY <2>3 DEF SecretPresence
      <4> QED BY <2>1, <4>1 DEF Result
    <3> QED BY <3>1 DEF Secrets
  <2>5. env.project = "existing"
    <3>1. Verdict("PRODUCTION_E2E_PROJECT", env.project = "existing") \in results
      BY <2>3 DEF PreflightFound, ProjectResult, TypeOK, LiveChecks
    <3> QED BY <2>1, <3>1 DEF Verdict, Result
  <2>6. env.connection = "ready"
    <3>1. YouTubeResults \subseteq results
      BY <2>3 DEF PreflightFound, TypeOK, LiveChecks
    <3>2. env.connection \in {"unreadable", "ready"}
      BY <2>1, <3>1 DEF YouTubeResults, Verdict, Result
    <3>3. env.connection \in {"unscoped", "ready"}
      BY <2>1, <3>1 DEF YouTubeResults, Verdict, Result
    <3> QED BY <3>2, <3>3
  <2> QED BY <2>4, <2>5, <2>6 DEF CanUpload
<1> QED BY <1>1, <1>2, <1>3, TypeInvariant, RunInvariantHolds, PTL DEF Spec
=============================================================================
