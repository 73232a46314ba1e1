----------------------- MODULE AutomaticPublishingProofs -----------------------
(***************************************************************************)
(* Proofs about AutomaticPublishing for every set of workflows, handlers,   *)
(* workers and executions and every bound on faults, crashes and messages.  *)
(***************************************************************************)
EXTENDS AutomaticPublishing, WorkflowRuntimeProofs, WellFoundedInduction

USE PlansAssumption, RunnersAssumption, NoExecutionAssumption, LengthsAssumption,
    BudgetsAssumption

-----------------------------------------------------------------------------
(* Where a step takes a process, and what the process keeps of its session.   *)

\* Points at which a process has no session that has seen its execution.
BlindPc == {"idle", "dispatch", "load", "finished"}

\* Points at which the execution of a process has not been started.
UnrunPc == {"dispatch", "load", "reject", "start"}

CompletedPc == {"log_completion", "report_completion", "handover"} \cup CoordinatorPc

\* Where a run has announced its success: what is left is the coordinator's.
DonePc == CoordinatorPc \cup {"handover", "finished"}

\* Points a run is at before it is completed, apart from what stores a medium.
PlainPc == Pcs \ (UnrunPc \cup CompletedPc \cup {"register", "link"})

EndPc == {"idle", "finished", "safety", "fail_step"}

Keeps(x, r, seen) == r.exec = Exec(x) /\ r.seen = seen /\ run[x].mine \subseteq r.mine

Takes(x, points, seen) ==
  \E point \in points : \E r \in Run :
    /\ Proceed(x, point, r)
    /\ \/ point = "idle" /\ r = IdleRun
       \/ point = "finished" /\ r.exec = Exec(x)
       \/ point \notin {"idle", "finished"} /\ pc[x] \notin BlindPc /\ Keeps(x, r, seen)

LEMMA PointsApart ==
  /\ EndPc \subseteq PlainPc /\ PlainPc \subseteq Pcs
  /\ {"create_job", "begin_job", "operate", "presign", "complete_job", "complete_step",
      "start_step", "log_start", "complete", "log_error", "fail_job", "fail_execution",
      "log_failure", "report_failure", "reject_execution"} \subseteq PlainPc
  /\ TryPc \cap BlindPc = {} /\ HandlerPc \cap BlindPc = {}
  /\ CompletedPc \cap BlindPc = {} /\ CompletedPc \subseteq Pcs
  BY DEF EndPc, PlainPc, Pcs, DbPc, TryPc, HandlerPc, UnrunPc, CompletedPc, CoordinatorPc, BlindPc

LEMMA GoingTakes ==
  ASSUME NEW x \in Procs, NEW seen, NEW points, NEW point \in points \ {"idle", "finished"},
         pc[x] \notin BlindPc, NEW r \in Run, Keeps(x, r, seen), Proceed(x, point, r)
  PROVE  Takes(x, points, seen)
  BY DEF Takes

LEMMA LeavingTakes ==
  ASSUME TypeInv, NEW x \in Procs, pc[x] # "idle", NEW seen, NEW points, EndPc \subseteq points
  PROVE  /\ Leave(x) => Takes(x, points, seen)
         /\ Return(x) => Takes(x, points, seen)
<1>1. "idle" \in points /\ "finished" \in points /\ IdleRun \in Run
  BY IdleRuns DEF EndPc
<1>2. Leave(x) => Takes(x, points, seen)
  BY <1>1 DEF Leave, Takes
<1>3. Exec(x) \in Executions
  BY BusyRuns
<1>4. [IdleRun EXCEPT !.exec = Exec(x)] \in Run /\ [IdleRun EXCEPT !.exec = Exec(x)].exec = Exec(x)
  BY <1>3, IdleRuns
<1>5. Proceed(x, "finished", [IdleRun EXCEPT !.exec = Exec(x)]) => Takes(x, points, seen)
  BY <1>1, <1>4 DEF Takes
<1> QED BY <1>2, <1>5 DEF Return

LEMMA RaisingTakes ==
  ASSUME TypeInv, NEW x \in Procs, pc[x] \notin BlindPc \/ pc[x] = "load",
         NEW seen, NEW points, EndPc \subseteq points, NEW r \in Run, Keeps(x, r, seen)
  PROVE  /\ Raise(x, r) => Takes(x, points, seen)
         /\ LoseAnswer(x, r) => Takes(x, points, seen)
<1>1. pc[x] # "idle" /\ "safety" \in points /\ "fail_step" \in points
  BY DEF BlindPc, EndPc
<1>2. ASSUME NEW q \in Run, Keeps(x, q, seen), Raise(x, q) PROVE Takes(x, points, seen)
  <2>1. CASE pc[x] \in TryPc \/ (x \in Workers /\ pc[x] \notin {"load", "safety"})
    <3>1. pc[x] \notin BlindPc
      BY <2>1, PointsApart
    <3>2. PICK point \in {"fail_step", "safety"} : Proceed(x, point, q)
      BY <1>2, <2>1 DEF Raise
    <3> QED BY <1>1, <1>2, <3>1, <3>2, GoingTakes
  <2>2. CASE ~(pc[x] \in TryPc \/ (x \in Workers /\ pc[x] \notin {"load", "safety"}))
    BY <1>1, <1>2, <2>2, LeavingTakes DEF Raise
  <2> QED BY <2>1, <2>2
<1>3. ASSUME LoseAnswer(x, r) PROVE Takes(x, points, seen)
  <2>1. PICK broken \in BOOLEAN, length \in MessageLengths :
          Raise(x, [r EXCEPT !.broken = broken, !.length = length])
    BY <1>3 DEF LoseAnswer
  <2> DEFINE q == [r EXCEPT !.broken = broken, !.length = length]
  <2>2. q \in Run /\ Keeps(x, q, seen)
    <3>1. q \in Run
      BY DEF Run, Lengths
    <3>2. q.exec = r.exec /\ q.seen = r.seen /\ q.mine = r.mine
      BY DEF Run
    <3> QED BY <3>1, <3>2 DEF Keeps
  <2> HIDE DEF q
  <2> QED BY <1>2, <2>1, <2>2 DEF q
<1> QED BY <1>2, <1>3

\* What a process may go on with: its locals, with an assignment to some of them.
LEMMA AssignedKeeps ==
  ASSUME NEW x \in Procs, NEW r \in Run, NEW seen, Keeps(x, r, seen)
  PROVE  /\ \A length \in MessageLengths :
              /\ Keeps(x, [r EXCEPT !.length = length], seen)
              /\ Keeps(x, [r EXCEPT !.broken = TRUE, !.length = length], seen)
         /\ Keeps(x, [r EXCEPT !.broken = TRUE], seen)
         /\ \A n \in Nat :
              /\ Keeps(x, [r EXCEPT !.left = n], seen)
              /\ Keeps(x, AtStep(r, n), seen)
              /\ Keeps(x, [r EXCEPT !.product = n], seen)
              /\ Keeps(x, [r EXCEPT !.mine = @ \cup {n}], seen)
              /\ Keeps(x, [r EXCEPT !.job = n, !.product = 0, !.mine = @ \cup {n}], seen)
         /\ Keeps(x, [r EXCEPT !.success = @ + 1, !.left = @ - 1], seen)
  BY DEF Keeps, Run, AtStep

LEMMA OwnKeeps ==
  ASSUME TypeInv, NEW x \in Procs, pc[x] # "idle"
  PROVE  /\ run[x] \in Run /\ Exec(x) \in Executions /\ Keeps(x, run[x], run[x].seen)
         /\ \A status \in Statuses :
              /\ SeeExecution(x, status) \in Run
              /\ Keeps(x, SeeExecution(x, status), StoredExecution(x, status))
         /\ pc[x] \in TryPc \cup {"fail_step"} => \A status \in Statuses :
              SeeStep(x, status) \in Run /\ Keeps(x, SeeStep(x, status), run[x].seen)
<1>1. run[x] \in Run /\ Exec(x) \in Executions /\ Keeps(x, run[x], run[x].seen)
  BY BusyRuns DEF Keeps
<1>2. \A status \in Statuses :
        /\ SeeExecution(x, status) \in Run
        /\ Keeps(x, SeeExecution(x, status), StoredExecution(x, status))
  <2>1. \A status : Keeps(x, SeeExecution(x, status), StoredExecution(x, status))
    BY <1>1 DEF Keeps, SeeExecution, Run, Exec
  <2> QED BY <2>1, SeenExecutions
<1>3. pc[x] \in TryPc \cup {"fail_step"} => \A status \in Statuses :
        SeeStep(x, status) \in Run /\ Keeps(x, SeeStep(x, status), run[x].seen)
  <2>1. \A status : Keeps(x, SeeStep(x, status), run[x].seen)
    BY <1>1 DEF Keeps, SeeStep, Run, Exec
  <2> QED BY <2>1, SeenSteps
<1> QED BY <1>1, <1>2, <1>3

-----------------------------------------------------------------------------
(* What every step of the runtime does to the execution, the broker and the    *)
(* media.  Only CreateJob and the three that store a medium add anything.      *)

Untold == UNCHANGED <<execution, queue, products, artifacts>>

\* The jobs of other executions are as they were.
OwnJobsOnly(x) == \A e \in Executions : e # Exec(x) => jobs'[e] = jobs[e]

Quietly(x) ==
  /\ pc[x] # "idle" /\ Takes(x, PlainPc, run[x].seen)
  /\ Untold /\ OwnJobsOnly(x)
  /\ pc[x] \in CompletedPc \cup {"finished"} => UNCHANGED jobs
  /\ pc[x] \in DonePc => pc'[x] = "idle"

LEMMA AuditTakes ==
  ASSUME TypeInv, NEW x \in Procs,
         \/ Reject(x) \/ LogStart(x) \/ LogError(x) \/ LogFailure(x) \/ ReportFailure(x)
  PROVE  Quietly(x)
<1>0. /\ pc[x] # "idle" /\ pc[x] \notin BlindPc /\ Untold /\ OwnJobsOnly(x) /\ UNCHANGED jobs
      /\ pc[x] \notin DonePc
  BY DEF Reject, LogStart, LogError, LogFailure, ReportFailure, AtDb, BlindPc, Untold,
         OwnJobsOnly, Quiet, CoordinatorPc, DonePc
<1>1. /\ run[x] \in Run /\ Keeps(x, run[x], run[x].seen)
      /\ {"reject_execution", "fail_execution", "fail_job", "report_failure", "start_step"}
           \subseteq PlainPc \ {"idle", "finished"}
      /\ EndPc \subseteq PlainPc
  BY <1>0, OwnKeeps, PointsApart
<1> USE RaisingTakes, LeavingTakes, GoingTakes
<1>2. CASE Reject(x) \/ ReportFailure(x)
  BY <1>0, <1>1, <1>2 DEF Reject, ReportFailure, Quietly
<1>3. CASE LogError(x)
  <2>1. AfterError(x) \in {"fail_execution", "fail_job"}
    BY DEF AfterError
  <2> QED BY <1>0, <1>1, <1>3, <2>1 DEF LogError, Quietly
<1>4. CASE LogFailure(x)
  <2> DEFINE r == [run[x] EXCEPT !.broken = TRUE]
  <2>1. r \in Run /\ Keeps(x, r, run[x].seen)
    BY <1>1, AssignedRuns, AssignedKeeps
  <2> HIDE DEF r
  <2> QED BY <1>0, <1>1, <1>4, <2>1 DEF LogFailure, Quietly, r
<1>5. CASE LogStart(x)
  <2> DEFINE r == AtStep(run[x], 1)
  <2>1. r \in Run /\ Keeps(x, r, run[x].seen)
    BY <1>1, AssignedRuns, AssignedKeeps
  <2> HIDE DEF r
  <2> QED BY <1>0, <1>1, <1>5, <2>1 DEF LogStart, Quietly, r
<1> QED BY <1>2, <1>3, <1>4, <1>5

LEMMA StepTakes ==
  ASSUME TypeInv, NEW x \in Procs, StartStep(x) \/ CompleteStep(x) \/ FailStep(x)
  PROVE  Quietly(x)
<1>0. /\ pc[x] \in TryPc \cup {"fail_step"} /\ pc[x] # "idle" /\ pc[x] \notin BlindPc
      /\ Untold /\ OwnJobsOnly(x) /\ UNCHANGED jobs
      /\ pc[x] \notin DonePc
      /\ {"RUNNING", "COMPLETED", "FAILED"} \subseteq Statuses
  BY DEF StartStep, CompleteStep, FailStep, AtDb, BlindPc, Untold, OwnJobsOnly, Quiet, TryPc,
         Statuses, CoordinatorPc, DonePc
<1>1. /\ \A status \in Statuses :
           SeeStep(x, status) \in Run /\ Keeps(x, SeeStep(x, status), run[x].seen)
      /\ {"create_job", "complete_step", "complete", "log_error", "start_step"}
           \subseteq PlainPc \ {"idle", "finished"}
      /\ EndPc \subseteq PlainPc
  BY <1>0, OwnKeeps, PointsApart
<1>2. ASSUME NEW status \in Statuses, NEW length \in MessageLengths,
             Raise(x, [SeeStep(x, status) EXCEPT !.length = length])
      PROVE  Takes(x, PlainPc, run[x].seen)
  <2> DEFINE q == SeeStep(x, status)
             r == [q EXCEPT !.length = length]
  <2>1. q \in Run /\ Keeps(x, q, run[x].seen)
    BY <1>1
  <2>2. r \in Run /\ Keeps(x, r, run[x].seen)
    <3> HIDE DEF q
    <3> QED BY <2>1, AssignedRuns, AssignedKeeps
  <2>3. Raise(x, r)
    BY <1>2
  <2> HIDE DEF q, r
  <2> QED BY <1>0, <1>1, <2>2, <2>3, RaisingTakes
<1>3. \A status \in Statuses :
        LoseAnswer(x, SeeStep(x, status)) => Takes(x, PlainPc, run[x].seen)
  BY <1>0, <1>1, RaisingTakes
<1>4. CASE FailStep(x)
  BY <1>0, <1>1, <1>3, <1>4, GoingTakes DEF FailStep, Quietly
<1>5. CASE StartStep(x)
  <2>1. ASSUME NEW n \in Nat,
               Proceed(x, NextItem([SeeStep(x, "RUNNING") EXCEPT !.left = n]),
                       [SeeStep(x, "RUNNING") EXCEPT !.left = n])
        PROVE  Takes(x, PlainPc, run[x].seen)
    <3> DEFINE q == SeeStep(x, "RUNNING")
               r == [q EXCEPT !.left = n]
    <3>1. q \in Run /\ Keeps(x, q, run[x].seen)
      BY <1>0, <1>1
    <3>2. r \in Run /\ Keeps(x, r, run[x].seen)
      <4> HIDE DEF q
      <4> QED BY <3>1, AssignedRuns, AssignedKeeps
    <3>3. Proceed(x, NextItem(r), r)
      BY <2>1
    <3> HIDE DEF q, r
    <3>4. NextItem(r) \in {"create_job", "complete_step"}
      BY DEF NextItem
    <3> QED BY <1>0, <1>1, <3>2, <3>3, <3>4, GoingTakes
  <2>2. \A s : Items(s) \subseteq Nat
    BY BoundsAreNats DEF Items
  <2> QED BY <1>0, <1>2, <1>3, <1>5, <2>1, <2>2 DEF StartStep, Quietly
<1>6. CASE CompleteStep(x)
  <2>1. /\ Valid /\ run[x].step \in DOMAIN plan /\ plan \in Seq(PlanStep)
    BY <1>6, TryingRuns DEF CompleteStep, AtDb, TryPc
  <2>2. \A next \in NextSteps(run[x].step) : next \in Nat
    BY <2>1, NextStepsExist
  <2> DEFINE q == SeeStep(x, "COMPLETED")
  <2>3. q \in Run /\ Keeps(x, q, run[x].seen)
    BY <1>0, <1>1
  <2> HIDE DEF q
  <2>4. Proceed(x, "complete", q) => Takes(x, PlainPc, run[x].seen)
    BY <1>0, <1>1, <2>3, GoingTakes
  <2>5. ASSUME NEW s \in Nat, Proceed(x, "start_step", AtStep(q, s))
        PROVE  Takes(x, PlainPc, run[x].seen)
    <3>1. AtStep(q, s) \in Run /\ Keeps(x, AtStep(q, s), run[x].seen)
      BY <2>3, AssignedRuns, AssignedKeeps
    <3> QED BY <1>0, <1>1, <2>5, <3>1, GoingTakes
  <2> QED BY <1>0, <1>2, <1>3, <1>6, <2>2, <2>4, <2>5 DEF CompleteStep, Quietly, q
<1> QED BY <1>4, <1>5, <1>6

LEMMA SetJobIsOwn ==
  ASSUME TypeInv, NEW x \in Procs, NEW status, SetJob(x, status)
  PROVE  OwnJobsOnly(x)
  BY DEF SetJob, OwnJobsOnly, TypeInv, TypeOK

LEMMA JobTakes ==
  ASSUME TypeInv, NEW x \in Procs, CreateJob(x) \/ BeginJob(x) \/ CompleteJob(x) \/ FailJob(x)
  PROVE  Quietly(x)
<1>0. /\ pc[x] # "idle" /\ pc[x] \notin BlindPc /\ pc[x] \notin CompletedPc /\ Untold
      /\ OwnJobsOnly(x) /\ pc[x] \notin DonePc
  <2>1. OwnJobsOnly(x)
    BY SetJobIsOwn DEF CreateJob, BeginJob, CompleteJob, FailJob, Write, OwnJobsOnly, TypeInv,
       TypeOK
  <2> QED BY <2>1 DEF CreateJob, BeginJob, CompleteJob, FailJob, AtDb, BlindPc, Untold, Quiet,
             CompletedPc, CoordinatorPc, DonePc
<1>1. /\ run[x] \in Run /\ Exec(x) \in Executions /\ Keeps(x, run[x], run[x].seen)
      /\ {"create_job", "complete_step", "begin_job", "operate", "fail_execution"}
           \subseteq PlainPc \ {"idle", "finished"}
      /\ EndPc \subseteq PlainPc
  BY <1>0, OwnKeeps, PointsApart
<1> USE RaisingTakes, GoingTakes
<1>2. CASE BeginJob(x) \/ FailJob(x)
  BY <1>0, <1>1, <1>2 DEF BeginJob, FailJob, Quietly, BlindPc
<1>3. CASE CreateJob(x)
  <2> DEFINE n == Len(jobs[Exec(x)]) + 1
             r == [run[x] EXCEPT !.job = n, !.product = 0, !.mine = @ \cup {n}]
             q == [run[x] EXCEPT !.mine = @ \cup {n}]
  <2>1. n \in Nat
    BY <1>1, TablesTyped, LenProperties DEF TablesOK
  <2> HIDE DEF n
  <2>2. r \in Run /\ Keeps(x, r, run[x].seen) /\ q \in Run /\ Keeps(x, q, run[x].seen)
    BY <1>1, <2>1, AssignedRuns, AssignedKeeps
  <2>3. Proceed(x, "begin_job", r) \/ LoseAnswer(x, q)
    BY <1>3 DEF CreateJob, n
  <2> HIDE DEF r, q
  <2> QED BY <1>0, <1>1, <2>2, <2>3 DEF Quietly, BlindPc
<1>4. CASE CompleteJob(x)
  <2> DEFINE r == [run[x] EXCEPT !.success = @ + 1, !.left = @ - 1]
  <2>1. run[x].left > 0
    BY <1>4 DEF CompleteJob, AtDb, TypeInv, Fits, ItemPc
  <2>2. r \in Run /\ Keeps(x, r, run[x].seen)
    BY <1>1, <2>1, AssignedRuns, AssignedKeeps
  <2>3. Proceed(x, NextItem(r), r) \/ LoseAnswer(x, run[x])
    BY <1>4 DEF CompleteJob
  <2> HIDE DEF r
  <2>4. NextItem(r) \in {"create_job", "complete_step"}
    BY DEF NextItem
  <2> QED BY <1>0, <1>1, <2>2, <2>3, <2>4 DEF Quietly, BlindPc
<1> QED BY <1>2, <1>3, <1>4

LEMMA TroubleTakes ==
  ASSUME TypeInv, NEW x \in Procs,
         Presign(x) \/ PendingRollback(x) \/ DbFault(x) \/ ClientCrash(x) \/ Ack(x)
  PROVE  Quietly(x)
<1>0. /\ pc[x] # "idle" /\ Untold /\ OwnJobsOnly(x) /\ UNCHANGED jobs
      /\ EndPc \subseteq PlainPc /\ "complete_job" \in PlainPc \ {"idle", "finished"}
  BY PointsApart DEF Presign, PendingRollback, DbFault, ClientCrash, Ack, DbPc, TryPc, HandlerPc,
         tables, Untold, OwnJobsOnly, Quiet
<1>1. run[x] \in Run /\ Keeps(x, run[x], run[x].seen)
  BY <1>0, OwnKeeps
<1>2. CASE ClientCrash(x) \/ Ack(x)
  <2>1. pc'[x] = "idle"
    BY <1>2 DEF ClientCrash, Ack, Leave, Proceed, TypeInv, TypeOK
  <2> QED BY <1>0, <1>2, <2>1, LeavingTakes DEF ClientCrash, Ack, Quietly
<1>3. CASE Presign(x) \/ PendingRollback(x) \/ DbFault(x)
  <2>1. pc[x] \notin BlindPc \/ pc[x] = "load"
    BY <1>3 DEF Presign, PendingRollback, DbFault, DbPc, TryPc, HandlerPc, BlindPc
  <2>2. ASSUME NEW length \in MessageLengths,
               \/ Raise(x, [run[x] EXCEPT !.broken = TRUE, !.length = length])
               \/ Raise(x, [run[x] EXCEPT !.length = length])
        PROVE  Takes(x, PlainPc, run[x].seen)
    <3> DEFINE r == [run[x] EXCEPT !.broken = TRUE, !.length = length]
               q == [run[x] EXCEPT !.length = length]
    <3>1. r \in Run /\ Keeps(x, r, run[x].seen) /\ q \in Run /\ Keeps(x, q, run[x].seen)
      BY <1>1, AssignedRuns, AssignedKeeps
    <3>2. Raise(x, r) \/ Raise(x, q)
      BY <2>2
    <3> HIDE DEF r, q
    <3> QED BY <1>0, <2>1, <3>1, <3>2, RaisingTakes
  <2>3. Takes(x, PlainPc, run[x].seen)
    <3>1. CASE Presign(x)
      BY <1>0, <1>1, <2>2, <3>1, GoingTakes DEF Presign, Fail, BlindPc
    <3>2. CASE PendingRollback(x)
      BY <1>0, <1>1, <2>1, <3>2, RaisingTakes DEF PendingRollback
    <3>3. CASE DbFault(x)
      BY <2>2, <3>3 DEF DbFault
    <3> QED BY <1>3, <3>1, <3>2, <3>3
  <2>4. pc[x] \notin DonePc
    BY <1>3 DEF Presign, PendingRollback, DbFault, DbPc, TryPc, HandlerPc, CoordinatorPc, DonePc
  <2> QED BY <1>0, <2>3, <2>4 DEF Quietly
<1> QED BY <1>2, <1>3

\* The execution's row is written, before the run is completed or by its completion.
Writes(x, status, points) ==
  /\ pc[x] \notin BlindPc \cup CompletedPc /\ status \in Statuses
  /\ SetExecution(x, status) /\ Takes(x, points, StoredExecution(x, status))
  /\ UNCHANGED <<queue, products, artifacts, jobs>>

Completes(x) == Writes(x, "COMPLETED", PlainPc \cup {"log_completion"})

Restates(x) == \E status \in Statuses : Writes(x, status, PlainPc)

Closes(x) ==
  /\ pc[x] \in {"log_completion", "report_completion"}
  /\ Takes(x, PlainPc \cup {"report_completion", "handover"}, run[x].seen)
  /\ Untold /\ UNCHANGED jobs

Stores(x) ==
  /\ Operate(x) \/ Register(x) \/ Link(x)
  /\ pc[x] \in {"operate", "register", "link"}
  /\ Takes(x, PlainPc \cup {"register", "link"}, run[x].seen)
  /\ UNCHANGED <<execution, queue, jobs>>
  /\ \A e \in Executions : e # Exec(x) => products'[e] = products[e] /\ artifacts'[e] = artifacts[e]

LEMMA WritingTakes ==
  ASSUME TypeInv, NEW x \in Procs
  PROVE  /\ Complete(x) => Completes(x)
         /\ RejectExecution(x) \/ Start(x) \/ FailExecution(x) \/ Safety(x) => Restates(x)
<1> SUFFICES ASSUME \/ RejectExecution(x) \/ Start(x) \/ FailExecution(x) \/ Safety(x)
                    \/ Complete(x)
             PROVE  IF Complete(x) THEN Completes(x) ELSE Restates(x)
  BY DEF Complete, RejectExecution, Start, FailExecution, Safety, AtDb
<1>0. /\ pc[x] # "idle" /\ pc[x] \notin BlindPc \cup CompletedPc /\ pc[x] \notin BlindPc
      /\ UNCHANGED <<queue, products, artifacts, jobs>>
      /\ {"FAILED", "RUNNING", "COMPLETED"} \subseteq Statuses
  BY DEF RejectExecution, Start, FailExecution, Complete, Safety, AtDb, BlindPc, CompletedPc,
         CoordinatorPc, Quiet, Statuses
<1>1. /\ \A status \in Statuses :
           /\ SeeExecution(x, status) \in Run
           /\ Keeps(x, SeeExecution(x, status), StoredExecution(x, status))
      /\ {"log_start", "log_failure"} \subseteq PlainPc \ {"idle", "finished"}
      /\ EndPc \subseteq PlainPc /\ EndPc \subseteq PlainPc \cup {"log_completion"}
      /\ "log_completion" \in (PlainPc \cup {"log_completion"}) \ {"idle", "finished"}
  BY <1>0, OwnKeeps, PointsApart
<1> USE RaisingTakes, GoingTakes
<1>2. CASE Complete(x)
  BY <1>0, <1>1, <1>2 DEF Complete, Completes, Writes
<1>3. CASE Start(x)
  BY <1>0, <1>1, <1>3 DEF Start, Complete, AtDb, Restates, Writes
<1>4. CASE FailExecution(x)
  BY <1>0, <1>1, <1>4 DEF FailExecution, Complete, AtDb, Restates, Writes
<1>5. CASE RejectExecution(x)
  BY <1>0, <1>1, <1>5, LeavingTakes DEF RejectExecution, Complete, AtDb, Restates, Writes
<1>6. CASE Safety(x)
  <2>1. Return(x) \/ LoseAnswer(x, run[x])
    BY <1>6 DEF Safety
  <2>2. pc[x] = "safety" /\ SetExecution(x, "FAILED")
    BY <1>6 DEF Safety, AtDb
  <2>3. LoseAnswer(x, run[x]) => Return(x)
    BY <2>2, PointsAreDistinct DEF LoseAnswer, Raise
  <2>4. Takes(x, PlainPc, StoredExecution(x, "FAILED"))
    BY <1>0, <1>1, <2>1, <2>3, LeavingTakes
  <2> QED BY <1>0, <2>2, <2>4 DEF Complete, AtDb, Restates, Writes
<1> QED BY <1>2, <1>3, <1>4, <1>5, <1>6

LEMMA ClosingTakes ==
  ASSUME TypeInv, NEW x \in Procs, LogCompletion(x) \/ ReportCompletion(x)
  PROVE  Closes(x)
<1>0. /\ pc[x] \in {"log_completion", "report_completion"} /\ Untold /\ UNCHANGED jobs
      /\ pc[x] # "idle" /\ pc[x] \notin BlindPc
  BY DEF LogCompletion, ReportCompletion, AtDb, Untold, Quiet, BlindPc
<1> DEFINE points == PlainPc \cup {"report_completion", "handover"}
<1>1. /\ run[x] \in Run /\ Keeps(x, run[x], run[x].seen) /\ EndPc \subseteq points
      /\ {"report_completion", "handover"} \subseteq points \ {"idle", "finished"}
  BY <1>0, OwnKeeps, PointsApart
<1> HIDE DEF points
<1>2. Takes(x, points, run[x].seen)
  BY <1>0, <1>1, RaisingTakes, GoingTakes DEF LogCompletion, ReportCompletion
<1> QED BY <1>0, <1>2 DEF Closes, points

LEMMA StoringTakes ==
  ASSUME TypeInv, NEW x \in Procs, Operate(x) \/ Register(x) \/ Link(x)
  PROVE  Stores(x)
<1>0. /\ pc[x] \in {"operate", "register", "link"} /\ UNCHANGED <<execution, queue, jobs>>
      /\ pc[x] # "idle" /\ pc[x] \notin BlindPc
      /\ \A e \in Executions :
           e # Exec(x) => products'[e] = products[e] /\ artifacts'[e] = artifacts[e]
  BY DEF Operate, Register, Link, AtDb, Quiet, BlindPc, Write, TypeInv, TypeOK
<1> DEFINE points == PlainPc \cup {"register", "link"}
<1>1. /\ run[x] \in Run /\ Exec(x) \in Executions /\ Keeps(x, run[x], run[x].seen)
      /\ EndPc \subseteq points
      /\ {"register", "link", "presign", "complete_job"} \subseteq points \ {"idle", "finished"}
  BY <1>0, OwnKeeps, PointsApart
<1> HIDE DEF points
<1>2. CASE Register(x) \/ Link(x)
  <2>1. Takes(x, points, run[x].seen)
    BY <1>0, <1>1, <1>2, RaisingTakes, GoingTakes DEF Register, Link
  <2> QED BY <1>0, <2>1 DEF Stores, points
<1>3. CASE Operate(x)
  <2> DEFINE r == [run[x] EXCEPT !.product = Len(products[Exec(x)]) + 1]
  <2>1. Len(products[Exec(x)]) + 1 \in Nat
    BY <1>1, TablesTyped, LenProperties DEF TablesOK
  <2>2. r \in Run /\ Keeps(x, r, run[x].seen)
    BY <1>1, <2>1, AssignedRuns, AssignedKeeps
  <2>3. \/ Proceed(x, "complete_job", run[x]) \/ Proceed(x, "register", r)
        \/ Fail(x)
    BY <1>3 DEF Operate
  <2> HIDE DEF r
  <2>4. ASSUME Fail(x) PROVE Takes(x, points, run[x].seen)
    <3>1. PICK length \in MessageLengths : Raise(x, [run[x] EXCEPT !.length = length])
      BY <2>4 DEF Fail
    <3> DEFINE q == [run[x] EXCEPT !.length = length]
    <3>2. q \in Run /\ Keeps(x, q, run[x].seen)
      BY <1>1, AssignedRuns, AssignedKeeps
    <3> HIDE DEF q
    <3> QED BY <1>0, <1>1, <3>1, <3>2, RaisingTakes DEF q
  <2>5. Takes(x, points, run[x].seen)
    BY <1>0, <1>1, <2>2, <2>3, <2>4, GoingTakes
  <2> QED BY <1>0, <2>5 DEF Stores, points
<1> QED BY <1>2, <1>3

\* A message that is sent once more, and nothing else.
Resends ==
  /\ extraMessages' = extraMessages + 1
  /\ UNCHANGED <<plan, tables, pc, run>>

(* Every step of the runtime.                                               *)
LEMMA RuntimeSteps ==
  ASSUME TypeInv, RunNext
  PROVE  \/ Resends \/ \E w \in Workers : WorkerCrash(w)
         \/ \E x \in Procs :
              \/ \E e \in Executions : RequestRun(x, e) \/ EnqueueWorkflow(x, e) \/ Deliver(x, e)
              \/ Dispatch(x) \/ Load(x)
              \/ Quietly(x) \/ Completes(x) \/ Restates(x) \/ Closes(x) \/ Stores(x)
<1>0. Clients \subseteq Procs /\ Workers \subseteq Procs
  BY DEF Procs
<1> DEFINE Kind(x) ==
      \/ \E e \in Executions : RequestRun(x, e) \/ EnqueueWorkflow(x, e) \/ Deliver(x, e)
      \/ Dispatch(x) \/ Load(x)
      \/ Quietly(x) \/ Completes(x) \/ Restates(x) \/ Closes(x) \/ Stores(x)
<1>1. ASSUME NEW x \in Procs,
             Quietly(x) \/ Completes(x) \/ Restates(x) \/ Closes(x) \/ Stores(x)
      PROVE  Kind(x)
  BY <1>1
<1>2. CASE Request
  BY <1>0, <1>2 DEF Request, EnqueueExecution, Resends
<1>3. CASE Fault
  <2>1. ASSUME NEW w \in Workers, Redeliver(w) PROVE Resends
    BY <2>1 DEF Redeliver, Resends
  <2> HIDE DEF Kind
  <2>2. (\E x \in Procs : Kind(x)) \/ Resends \/ \E w \in Workers : WorkerCrash(w)
    BY <1>0, <1>1, <1>3, <2>1, TroubleTakes DEF Fault
  <2> QED BY <2>2 DEF Kind
<1>4. CASE \E c \in Clients : Dispatch(c)
  BY <1>0, <1>4
<1>5. ASSUME NEW x \in Procs, RunStep(x) PROVE Kind(x)
  <2> HIDE DEF Kind
  <2>1. CASE StepOfPlan(x)
    BY <1>1, <2>1, StepTakes, JobTakes, StoringTakes, TroubleTakes DEF StepOfPlan
  <2>2. CASE Handler(x)
    BY <1>1, <2>2, StepTakes, JobTakes, AuditTakes, WritingTakes DEF Handler
  <2> QED BY <1>1, <1>5, <2>1, <2>2, WritingTakes, AuditTakes, ClosingTakes, TroubleTakes
          DEF RunStep
<1>6. ASSUME NEW w \in Workers, TaskStep(w) PROVE Kind(w)
  <2>1. \A e \in Executions : Deliver(w, e) => Kind(w)
    OBVIOUS
  <2>2. Load(w) => Kind(w)
    OBVIOUS
  <2> HIDE DEF Kind
  <2> QED BY <1>0, <1>1, <1>6, <2>1, <2>2, WritingTakes, AuditTakes, TroubleTakes DEF TaskStep
<1> QED BY <1>0, <1>2, <1>3, <1>4, <1>5, <1>6 DEF RunNext

LEMMA RuntimeAvoidsCoordinator ==
  ASSUME TypeInv, RunNext, NEW y \in Procs, pc'[y] \in CoordinatorPc
  PROVE  pc[y] = pc'[y] /\ run'[y] = run[y]
<1>1. ASSUME NEW x \in Procs, NEW point, point \notin CoordinatorPc, NEW r, Proceed(x, point, r)
      PROVE  pc[y] = pc'[y] /\ run'[y] = run[y]
  <2>1. x # y
    BY <1>1 DEF Proceed, TypeInv, TypeOK
  <2> QED BY <1>1, <2>1 DEF Proceed, TypeInv, TypeOK
<1>2. ASSUME NEW x \in Procs, NEW points, NEW seen, Takes(x, points, seen),
             points \cap CoordinatorPc = {}
      PROVE  pc[y] = pc'[y] /\ run'[y] = run[y]
  BY <1>1, <1>2 DEF Takes
<1>3. /\ PlainPc \cap CoordinatorPc = {}
      /\ {"start", "dispatch", "load", "idle", "reject", "log_completion", "report_completion",
          "handover", "register", "link"} \cap CoordinatorPc = {}
  BY DEF PlainPc, CompletedPc, CoordinatorPc
<1>4. CASE Resends
  BY <1>4 DEF Resends
<1>5. CASE \E w \in Workers : WorkerCrash(w)
  BY <1>1, <1>3, <1>5 DEF WorkerCrash, Leave, Procs
<1>6. ASSUME NEW x \in Procs,
             \/ Dispatch(x) \/ Load(x)
             \/ \E e \in Executions : RequestRun(x, e) \/ EnqueueWorkflow(x, e) \/ Deliver(x, e)
      PROVE  pc[y] = pc'[y] /\ run'[y] = run[y]
  BY <1>1, <1>3, <1>6 DEF Dispatch, Load, RequestRun, EnqueueWorkflow, Deliver, Leave
<1>7. ASSUME NEW x \in Procs,
             Quietly(x) \/ Completes(x) \/ Restates(x) \/ Closes(x) \/ Stores(x)
      PROVE  pc[y] = pc'[y] /\ run'[y] = run[y]
  <2>1. PICK points, seen : Takes(x, points, seen) /\ points \cap CoordinatorPc = {}
    BY <1>3, <1>7 DEF Quietly, Completes, Restates, Closes, Stores, Writes
  <2> QED BY <1>2, <2>1
<1> QED BY <1>4, <1>5, <1>6, <1>7, RuntimeSteps

-----------------------------------------------------------------------------
(* Type correctness.                                                         *)

AutoTypeInv == TypeInv /\ AutoTypeOK

\* One publication is rewritten.
Changes(e, n, p) ==
  publications' = [publications EXCEPT ![e] = [publications[e] EXCEPT ![n] = p]]

LEMMA ChangesTyped ==
  ASSUME AutoTypeOK, NEW e \in Executions, NEW n \in DOMAIN publications[e],
         NEW p \in Publication, Changes(e, n, p)
  PROVE  /\ publications' \in [Executions -> Seq(Publication)]
         /\ \A f \in Executions : /\ DOMAIN publications'[f] = DOMAIN publications[f]
                                  /\ Len(publications'[f]) = Len(publications[f])
                                  /\ \A k \in DOMAIN publications[f] :
                                       publications'[f][k] = IF f = e /\ k = n THEN p
                                                             ELSE publications[f][k]
<1>1. publications[e] \in Seq(Publication)
  BY DEF AutoTypeOK
<1> DEFINE g == [publications[e] EXCEPT ![n] = p]
<1>2. /\ g \in Seq(Publication) /\ DOMAIN g = DOMAIN publications[e]
      /\ Len(g) = Len(publications[e])
      /\ \A k \in DOMAIN publications[e] : g[k] = IF k = n THEN p ELSE publications[e][k]
  BY <1>1, ReplaceTypes
<1>3. publications' = [publications EXCEPT ![e] = g]
  BY DEF Changes
<1> HIDE DEF g
<1>4. \A f \in Executions : publications'[f] = IF f = e THEN g ELSE publications[f]
  BY <1>3 DEF AutoTypeOK
<1>5. publications' \in [Executions -> Seq(Publication)]
  BY <1>2, <1>3 DEF AutoTypeOK
<1> QED BY <1>2, <1>4, <1>5

LEMMA KnownPublications ==
  ASSUME AutoTypeOK, NEW e \in Executions, NEW n \in DOMAIN publications[e]
  PROVE  publications[e][n] \in Publication
<1>1. publications[e] \in Seq(Publication)
  BY DEF AutoTypeOK
<1> QED BY <1>1, LenProperties, ElementOfSeq

\* What a coordinator's step leaves alone, and where it goes.
Coordinates(x) ==
  /\ pc[x] \in CoordinatorPc \cup {"handover"}
  /\ UNCHANGED <<plan, tables, queue, clientCrashes, workerCrashes, extraMessages, handed>>
  /\ faults' \in 0..MaxFaults
  /\ \/ Finish(x)
     \/ \E point \in CoordinatorPc : \E n : Forward(x, point, n)

LEMMA CoordinatorCoordinates ==
  ASSUME TypeInv, NEW x \in Procs, CoordinatorStep(x) \/ CoordinatorFault(x)
  PROVE  Coordinates(x)
<1>1. pc[x] \in CoordinatorPc \cup {"handover"}
  BY DEF CoordinatorStep, SelectVideo, CreatePublication, Claim, Send, SendFailed,
         CoordinatorFault, CoordinatorDbPc, CoordinatorPc
<1>2. UNCHANGED <<plan, tables, queue, clientCrashes, workerCrashes, extraMessages, handed>>
  BY DEF CoordinatorStep, SelectVideo, CreatePublication, Claim, Send, SendFailed,
         CoordinatorFault, Tables
<1>3. faults' \in 0..MaxFaults
  <2>1. faults \in 0..MaxFaults /\ MaxFaults \in Nat
    BY BoundsAreNats DEF TypeInv, TypeOK
  <2>2. Answered \/ (Affordable(faults, MaxFaults) /\ faults' = faults + 1)
    BY DEF CoordinatorStep, SelectVideo, CreatePublication, Claim, Send, SendFailed,
           CoordinatorFault, ContainLostAnswer
  <2> QED BY <2>1, <2>2 DEF Answered, Affordable
<1>4. Finish(x) \/ \E point \in CoordinatorPc : \E n : Forward(x, point, n)
  BY DEF CoordinatorStep, SelectVideo, CreatePublication, Claim, Send, SendFailed,
         CoordinatorFault, ContainLostAnswer, Contain, CoordinatorPc
<1> QED BY <1>1, <1>2, <1>3, <1>4 DEF Coordinates

\* Seen from the runtime, a coordinator works or hands the result over.
LEMMA CoordinatorMoves ==
  ASSUME TypeInv, NEW x \in Procs, Coordinates(x)
  PROVE  /\ pc[x] # "idle" /\ Exec(x) \in Executions
         /\ Return(x) \/ \E point \in CoordinatorPc : Proceed(x, point, run[x])
         /\ Hops(x) /\ Glides(x) /\ Quiet /\ TablesOK' /\ UNCHANGED jobs
<1>1. /\ pc[x] # "idle" /\ pc[x] \in BetweenPc
      /\ CoordinatorPc \subseteq EasyPc /\ CoordinatorPc \subseteq Pcs \ WorkPc
  BY DEF Coordinates, CoordinatorPc, EasyPc, RunningPc, TryPc, Pcs, WorkPc, ItemPc, BetweenPc
<1>2. Return(x) \/ \E point \in CoordinatorPc : Proceed(x, point, run[x])
  BY DEF Coordinates, Finish, Forward
<1>3. run[x] \in Run /\ Exec(x) \in Executions /\ run[x].exec = Exec(x) /\ SameWork(run[x], run[x])
  BY <1>1, OwnWork, BusyRuns
<1>4. Hops(x)
  BY <1>1, <1>2, <1>3, BusyRuns, EasyHops
<1>5. Glides(x)
  BY <1>1, <1>2, <1>3, OwnWork, SteadyGlides
<1>6. Quiet /\ TablesOK' /\ UNCHANGED jobs
  BY TablesTyped DEF Coordinates, Quiet, tables
<1> QED BY <1>1, <1>2, <1>3, <1>4, <1>5, <1>6

-----------------------------------------------------------------------------
(* Among finitely many positions there is a last one.                        *)

Below == {ss \in Nat \X Nat : ss[1] < ss[2]}

LEMMA LeastExists ==
  ASSUME NEW S \in SUBSET Nat, S # {}
  PROVE  \E n \in S : \A k \in S : n <= k
<1>1. IsWellFoundedOn(Below, Nat)
  BY NatLessThanWellFounded, Zenon DEF OpToRel, Below
<1>2. PICK n \in S : \A k \in S : <<k, n>> \notin Below
  BY <1>1, WFMin
<1>3. ASSUME NEW k \in S PROVE n <= k
  <2>1. n \in Nat /\ k \in Nat /\ ~(k < n)
    BY <1>2 DEF Below
  <2> QED BY <2>1
<1> QED BY <1>3

LEMMA GreatestExists ==
  ASSUME NEW m \in Nat, NEW S \in SUBSET (1..m), S # {}
  PROVE  \E n \in S : \A k \in S : k <= n
<1> DEFINE T == {m - n : n \in S}
<1>1. T \in SUBSET Nat /\ T # {}
  <2>1. \A n \in S : m - n \in Nat
    OBVIOUS
  <2> QED BY <2>1
<1>2. PICK t \in T : \A u \in T : t <= u
  BY <1>1, LeastExists
<1>3. PICK n \in S : t = m - n
  OBVIOUS
<1>4. \A k \in S : m - n <= m - k
  BY <1>2, <1>3
<1> QED BY <1>4

\* The newest video of an execution that has one.
LEMMA FinalVideoChosen ==
  ASSUME TypeInv, NEW e \in Executions, Videos(e) # {}
  PROVE  \E n \in Videos(e) : /\ FinalVideo(e) = artifacts[e][n] /\ FinalVideo(e) \in Nat
                              /\ \A k \in Videos(e) : k <= n
<1>1. artifacts[e] \in Seq(Nat) /\ Len(artifacts[e]) \in Nat
      /\ Videos(e) \in SUBSET (1..Len(artifacts[e]))
  BY TablesTyped, LenProperties DEF TablesOK, Videos
<1>2. \E n \in Videos(e) : \A k \in Videos(e) : k <= n
  BY <1>1, GreatestExists
<1> DEFINE n == CHOOSE n \in Videos(e) : \A k \in Videos(e) : k <= n
<1>3. n \in Videos(e) /\ \A k \in Videos(e) : k <= n
  BY <1>2
<1>4. FinalVideo(e) = artifacts[e][n]
  BY DEF FinalVideo
<1> HIDE DEF n
<1>5. artifacts[e][n] \in Nat
  BY <1>1, <1>3, ElementOfSeq
<1> QED BY <1>3, <1>4, <1>5

-----------------------------------------------------------------------------
(* What the coordinator's steps do to the publications.                      *)

\* The publication a process is about, and its execution.
LEMMA MineKnown ==
  ASSUME TypeInv, AutoTypeOK, NEW x \in Procs, pc[x] \in {"claim", "send", "send_failed"}
  PROVE  /\ Exec(x) \in Executions /\ target[x] \in DOMAIN publications[Exec(x)]
         /\ Mine(x) \in Publication /\ Mine(x) = publications[Exec(x)][target[x]]
<1>1. Exec(x) \in Executions /\ target[x] \in DOMAIN publications[Exec(x)]
  BY BusyRuns DEF AutoTypeOK
<1> QED BY <1>1, KnownPublications DEF Mine

\* A status is moved, or the publication has another one already.
LEMMA MoveChanges ==
  ASSUME TypeInv, AutoTypeOK, NEW x \in Procs, pc[x] \in {"claim", "send", "send_failed"},
         NEW from, NEW to \in PublicationStatuses, Move(x, from, to)
  PROVE  \/ UNCHANGED publications
         \/ /\ Mine(x).status = from /\ [Mine(x) EXCEPT !.status = to] \in Publication
            /\ Changes(Exec(x), target[x], [Mine(x) EXCEPT !.status = to])
<1>1. Mine(x) \in Publication
  BY MineKnown
<1>2. [Mine(x) EXCEPT !.status = to] \in Publication
  BY <1>1 DEF Publication
<1> QED BY <1>2 DEF Move, Changes, Mine

LEMMA AcceptChanges ==
  ASSUME TypeInv, AutoTypeOK, NEW x \in Procs, pc[x] = "send", Accept(x)
  PROVE  /\ [Mine(x) EXCEPT !.tasks = @ + 1] \in Publication
         /\ Changes(Exec(x), target[x], [Mine(x) EXCEPT !.tasks = @ + 1])
<1>1. Mine(x) \in Publication
  BY MineKnown
<1>2. [Mine(x) EXCEPT !.tasks = @ + 1] \in Publication
  BY <1>1 DEF Publication
<1> QED BY <1>2 DEF Accept, Changes, Mine

LEMMA WorkerMoves ==
  ASSUME TypeInv, AutoTypeOK, NEW e \in Executions, NEW n \in DOMAIN publications[e],
         PublicationMoves(e, n)
  PROVE  \E to \in PublicationStatuses \ {"PENDING"} :
           /\ publications[e][n].tasks > 0 /\ publications[e][n].status # "PENDING"
           /\ [publications[e][n] EXCEPT !.status = to] \in Publication
           /\ Changes(e, n, [publications[e][n] EXCEPT !.status = to])
<1>1. PICK from \in PublicationStatuses, to \in PublicationStatuses :
        /\ <<from, to>> \in {<<"QUEUED", "PUBLISHING">>, <<"PUBLISHING", "PUBLISHED">>,
                             <<"PUBLISHING", "FAILED">>, <<"QUEUED", "FAILED">>}
        /\ publications[e][n].status = from
        /\ publications' = [publications EXCEPT ![e][n].status = to]
  BY DEF PublicationMoves
<1>2. to # "PENDING" /\ from # "PENDING"
  BY <1>1
<1>3. [publications[e][n] EXCEPT !.status = to] \in Publication
  BY KnownPublications DEF Publication
<1>4. Changes(e, n, [publications[e][n] EXCEPT !.status = to])
  BY <1>1 DEF Changes
<1> QED BY <1>1, <1>2, <1>3, <1>4 DEF PublicationMoves

Draft(asset) == [asset |-> asset, status |-> "PENDING", tasks |-> 0]

LEMMA InsertAppends ==
  ASSUME AutoTypeOK, NEW e \in Executions, NEW asset \in Nat, Insert(e, asset)
  PROVE  /\ publications' \in [Executions -> Seq(Publication)]
         /\ Len(publications[e]) \in Nat
         /\ \A f \in Executions : /\ DOMAIN publications[f] \subseteq DOMAIN publications'[f]
                                  /\ f # e => publications'[f] = publications[f]
                                  /\ \A k \in DOMAIN publications[f] :
                                       publications'[f][k] = publications[f][k]
         /\ DOMAIN publications'[e] = DOMAIN publications[e] \cup {Len(publications[e]) + 1}
         /\ Len(publications[e]) + 1 \notin DOMAIN publications[e]
         /\ publications'[e][Len(publications[e]) + 1] = Draft(asset)
<1>1. publications[e] \in Seq(Publication) /\ Draft(asset) \in Publication
  BY DEF AutoTypeOK, Draft, Publication, PublicationStatuses
<1> DEFINE g == Append(publications[e], Draft(asset))
           n == Len(publications[e])
<1>2. /\ g \in Seq(Publication) /\ Len(g) = n + 1 /\ n \in Nat
      /\ DOMAIN g = 1..(n + 1) /\ DOMAIN publications[e] = 1..n
      /\ \A k \in 1..n : g[k] = publications[e][k]
      /\ g[n + 1] = Draft(asset)
  BY <1>1, AppendProperties, LenProperties
<1>3. publications' = [publications EXCEPT ![e] = g]
  BY DEF Insert, Draft
<1> HIDE DEF g, n
<1>4. \A f \in Executions : publications'[f] = IF f = e THEN g ELSE publications[f]
  BY <1>3 DEF AutoTypeOK
<1>5. publications' \in [Executions -> Seq(Publication)]
  BY <1>2, <1>3 DEF AutoTypeOK
<1>6. DOMAIN g = DOMAIN publications[e] \cup {n + 1} /\ n + 1 \notin DOMAIN publications[e]
  BY <1>2
<1> QED BY <1>2, <1>4, <1>5, <1>6 DEF n

LEMMA RewritesKeep ==
  ASSUME NEW p \in Publication
  PROVE  /\ \A to : /\ [p EXCEPT !.status = to].asset = p.asset
                    /\ [p EXCEPT !.status = to].tasks = p.tasks
                    /\ [p EXCEPT !.status = to].status = to
         /\ [p EXCEPT !.tasks = @ + 1].asset = p.asset
         /\ [p EXCEPT !.tasks = @ + 1].status = p.status
         /\ [p EXCEPT !.tasks = @ + 1].tasks = p.tasks + 1
  BY DEF Publication

\* What a coordinator does to them: it inserts one, or rewrites the one it works on.
LEMMA CoordinatorPublishes ==
  ASSUME AutoTypeInv, NEW x \in Procs, CoordinatorStep(x) \/ CoordinatorFault(x)
  PROVE  \/ UNCHANGED publications
         \/ /\ CreatePublication(x) /\ Holding(Exec(x), target[x]) = {}
            /\ Exec(x) \in Executions /\ target[x] \in Nat
            /\ Insert(Exec(x), target[x])
         \/ \E n \in DOMAIN publications[Exec(x)], p \in Publication :
              Changes(Exec(x), n, p) /\ p.asset = publications[Exec(x)][n].asset
<1> USE DEF AutoTypeInv
<1>0. Exec(x) \in Executions /\ target[x] \in Nat
  BY CoordinatorCoordinates, CoordinatorMoves DEF AutoTypeOK
<1>1. CASE SelectVideo(x) \/ CoordinatorFault(x)
  BY <1>1 DEF SelectVideo, CoordinatorFault
<1>2. CASE CreatePublication(x)
  BY <1>0, <1>2 DEF CreatePublication
<1>3. ASSUME NEW from, NEW to \in PublicationStatuses, Move(x, from, to),
             pc[x] \in {"claim", "send", "send_failed"}
      PROVE  \/ UNCHANGED publications
             \/ \E n \in DOMAIN publications[Exec(x)], p \in Publication :
                  Changes(Exec(x), n, p) /\ p.asset = publications[Exec(x)][n].asset
  <2>1. CASE UNCHANGED publications
    BY <2>1
  <2>2. CASE ~UNCHANGED publications
    <3> DEFINE p == [Mine(x) EXCEPT !.status = to]
    <3>1. p \in Publication /\ Changes(Exec(x), target[x], p)
      BY <1>3, <2>2, MoveChanges
    <3>2. p.asset = publications[Exec(x)][target[x]].asset
      BY <1>3, MineKnown, RewritesKeep
    <3> HIDE DEF p
    <3> QED BY <1>3, <3>1, <3>2, MineKnown
  <2> QED BY <2>1, <2>2
<1>4. CASE Claim(x) \/ SendFailed(x)
  BY <1>3, <1>4 DEF Claim, SendFailed, PublicationStatuses
<1>5. CASE Send(x)
  <2>1. CASE UNCHANGED publications
    BY <2>1
  <2>2. CASE Accept(x)
    <3> DEFINE p == [Mine(x) EXCEPT !.tasks = @ + 1]
    <3>0. pc[x] = "send"
      BY <1>5 DEF Send
    <3>1. p \in Publication /\ Changes(Exec(x), target[x], p)
      BY <2>2, <3>0, AcceptChanges
    <3>2. p.asset = publications[Exec(x)][target[x]].asset
      BY <3>0, MineKnown, RewritesKeep
    <3> HIDE DEF p
    <3> QED BY <3>0, <3>1, <3>2, MineKnown
  <2> QED BY <1>5, <2>1, <2>2 DEF Send
<1> QED BY <1>1, <1>2, <1>4, <1>5 DEF CoordinatorStep

(* All a step of a coordinator or the publishing worker does to them.         *)
LEMMA PublicationSteps ==
  ASSUME AutoTypeInv, AutoNext
  PROVE  \/ UNCHANGED publications
         \/ \E x \in Procs : /\ Exec(x) \in Executions /\ target[x] \in Nat
                             /\ Insert(Exec(x), target[x])
         \/ \E e \in Executions : \E n \in DOMAIN publications[e], p \in Publication :
              Changes(e, n, p) /\ p.asset = publications[e][n].asset
<1> USE DEF AutoTypeInv
<1>1. CASE RuntimeStep
  BY <1>1 DEF RuntimeStep
<1>2. ASSUME NEW x \in Procs, CoordinatorStep(x) \/ CoordinatorFault(x)
      PROVE  \/ UNCHANGED publications
             \/ /\ Exec(x) \in Executions /\ target[x] \in Nat
                /\ Insert(Exec(x), target[x])
             \/ \E e \in Executions : \E n \in DOMAIN publications[e], p \in Publication :
                  Changes(e, n, p) /\ p.asset = publications[e][n].asset
  <2>1. Exec(x) \in Executions
    BY <1>2, CoordinatorCoordinates, CoordinatorMoves
  <2> QED BY <1>2, <2>1, CoordinatorPublishes
<1>4. ASSUME NEW e \in Executions, NEW n \in DOMAIN publications[e], PublicationMoves(e, n)
      PROVE  \E p \in Publication : Changes(e, n, p) /\ p.asset = publications[e][n].asset
  <2>1. PICK to \in PublicationStatuses :
          /\ [publications[e][n] EXCEPT !.status = to] \in Publication
          /\ Changes(e, n, [publications[e][n] EXCEPT !.status = to])
    BY <1>4, WorkerMoves
  <2> DEFINE p == [publications[e][n] EXCEPT !.status = to]
  <2>2. p.asset = publications[e][n].asset
    BY KnownPublications, RewritesKeep
  <2>3. p \in Publication /\ Changes(e, n, p)
    BY <2>1
  <2> HIDE DEF p
  <2> QED BY <2>2, <2>3
<1> QED BY <1>1, <1>2, <1>4 DEF AutoNext

LEMMA PublicationsGrow ==
  ASSUME AutoTypeInv, [AutoNext]_autoVars
  PROVE  /\ publications' \in [Executions -> Seq(Publication)]
         /\ \A e \in Executions : DOMAIN publications[e] \subseteq DOMAIN publications'[e]
<1>1. CASE UNCHANGED publications
  BY <1>1 DEF AutoTypeInv, AutoTypeOK
<1>2. ASSUME NEW x \in Procs, Exec(x) \in Executions, target[x] \in Nat,
             Insert(Exec(x), target[x])
      PROVE  /\ publications' \in [Executions -> Seq(Publication)]
             /\ \A e \in Executions : DOMAIN publications[e] \subseteq DOMAIN publications'[e]
  BY <1>2, InsertAppends DEF AutoTypeInv
<1>3. ASSUME NEW e \in Executions, NEW n \in DOMAIN publications[e], NEW p \in Publication,
             Changes(e, n, p)
      PROVE  /\ publications' \in [Executions -> Seq(Publication)]
             /\ \A f \in Executions : DOMAIN publications[f] \subseteq DOMAIN publications'[f]
  BY <1>3, ChangesTyped DEF AutoTypeInv
<1> QED BY <1>1, <1>2, <1>3, PublicationSteps DEF autoVars

\* What a coordinator's step leaves in the processes' variables.
LEMMA CoordinatorLocals ==
  ASSUME AutoTypeInv, NEW x \in Procs, Coordinates(x)
  PROVE  /\ \A y \in Procs \ {x} : pc'[y] = pc[y] /\ run'[y] = run[y] /\ target'[y] = target[y]
         /\ \/ pc'[x] \in {"idle", "finished"} /\ target'[x] = 0 /\ Finish(x)
            \/ /\ pc'[x] \in CoordinatorPc /\ run'[x] = run[x]
               /\ \A point, n : Forward(x, point, n) => pc'[x] = point /\ target'[x] = n
               /\ \E point \in CoordinatorPc : \E n : Forward(x, point, n)
<1>1. pc = [y \in Procs |-> pc[y]] /\ run = [y \in Procs |-> run[y]]
      /\ target = [y \in Procs |-> target[y]]
  BY DEF AutoTypeInv, AutoTypeOK, TypeInv, TypeOK
<1>2. CASE Finish(x)
  <2>1. pc' = [pc EXCEPT ![x] = "idle"] \/ pc' = [pc EXCEPT ![x] = "finished"]
    BY <1>2 DEF Finish, Return, Leave, Proceed
  <2>2. (\A y \in Procs \ {x} : run'[y] = run[y]) /\ target' = [target EXCEPT ![x] = 0]
    BY <1>1, <1>2 DEF Finish, Return, Leave, Proceed
  <2> QED BY <1>1, <1>2, <2>1, <2>2
<1>3. ASSUME NEW point \in CoordinatorPc, NEW n, Forward(x, point, n)
      PROVE  /\ \A y \in Procs \ {x} : pc'[y] = pc[y] /\ run'[y] = run[y] /\ target'[y] = target[y]
             /\ pc'[x] = point /\ run'[x] = run[x] /\ target'[x] = n
  BY <1>1, <1>3 DEF Forward, Proceed
<1>4. \A point, n : Forward(x, point, n) => pc'[x] = point /\ target'[x] = n
  BY <1>1 DEF Forward, Proceed
<1> QED BY <1>2, <1>3, <1>4 DEF Coordinates

LEMMA CoordinatorTargets ==
  ASSUME AutoTypeInv, NEW x \in Procs, CoordinatorStep(x) \/ CoordinatorFault(x)
  PROVE  /\ target'[x] \in Nat
         /\ pc'[x] \in {"claim", "send", "send_failed"} =>
              target'[x] \in DOMAIN publications'[Exec(x)]
<1> USE DEF AutoTypeInv
<1>0. Coordinates(x) /\ Exec(x) \in Executions
  BY CoordinatorCoordinates, CoordinatorMoves
<1>1. DOMAIN publications[Exec(x)] \subseteq DOMAIN publications'[Exec(x)]
  BY <1>0, PublicationsGrow DEF AutoNext
<1>2. CASE Finish(x)
  <2>1. target'[x] = 0
    BY <1>2 DEF Finish, AutoTypeOK
  <2>2. pc'[x] \in {"idle", "finished"}
    BY <1>2 DEF Finish, Return, Leave, Proceed, TypeInv, TypeOK
  <2> QED BY <2>1, <2>2
<1>3. ASSUME NEW point \in CoordinatorPc, NEW n, Forward(x, point, n), n \in Nat,
             point # "create_publication" => n \in DOMAIN publications'[Exec(x)]
      PROVE  /\ target'[x] \in Nat
             /\ pc'[x] \in {"claim", "send", "send_failed"} =>
                  target'[x] \in DOMAIN publications'[Exec(x)]
  <2>1. pc'[x] = point /\ target'[x] = n
    BY <1>0, <1>3, CoordinatorLocals DEF Forward, Proceed, AutoTypeOK, TypeInv, TypeOK
  <2> QED BY <1>3, <2>1
<1>4. CASE SelectVideo(x)
  <2>1. CASE Videos(Exec(x)) # {}
    BY <1>0, <1>2, <1>3, <1>4, <2>1, FinalVideoChosen DEF SelectVideo, CoordinatorPc
  <2> QED BY <1>2, <1>4, <2>1 DEF SelectVideo
<1>5. publications[Exec(x)] \in Seq(Publication) /\ DOMAIN publications[Exec(x)] \subseteq Nat
  <2>1. publications[Exec(x)] \in Seq(Publication)
    BY <1>0 DEF AutoTypeOK
  <2> QED BY <2>1, LenProperties
<1>6. CASE CreatePublication(x)
  <2>1. ASSUME NEW n \in Holding(Exec(x), target[x]) PROVE n \in DOMAIN publications[Exec(x)]
    BY DEF Holding
  <2>2. ASSUME Insert(Exec(x), target[x])
        PROVE  /\ Len(publications[Exec(x)]) + 1 \in DOMAIN publications'[Exec(x)]
               /\ Len(publications[Exec(x)]) + 1 \in Nat
    <3>1. target[x] \in Nat
      BY DEF AutoTypeOK
    <3> QED BY <1>0, <2>2, <3>1, InsertAppends
  <2>3. \/ Finish(x)
        \/ /\ Insert(Exec(x), target[x])
           /\ Forward(x, "claim", Len(publications[Exec(x)]) + 1)
        \/ \E n \in Holding(Exec(x), target[x]) : Forward(x, "claim", n)
    BY <1>6 DEF CreatePublication, Contain, ContainLostAnswer
  <2> QED BY <1>1, <1>2, <1>3, <1>5, <2>1, <2>2, <2>3 DEF CoordinatorPc
<1>7. CASE Claim(x) \/ Send(x) \/ SendFailed(x)
  <2>1. target[x] \in DOMAIN publications'[Exec(x)] /\ target[x] \in Nat
    BY <1>1, <1>7, MineKnown DEF Claim, Send, SendFailed, AutoTypeOK
  <2> QED BY <1>2, <1>3, <1>7, <2>1
          DEF Claim, Send, SendFailed, Contain, ContainLostAnswer, CoordinatorPc
<1>8. CASE CoordinatorFault(x)
  BY <1>2, <1>8 DEF CoordinatorFault, Contain
<1> QED BY <1>4, <1>6, <1>7, <1>8 DEF CoordinatorStep

\* Whoever is at work after a step has an execution.
LEMMA BusyIsTyped ==
  ASSUME TypeInv'
  PROVE  \A y \in Procs : pc'[y] # "idle" => Exec(y)' \in Executions
  BY DEF TypeInv, TypeOK, Exec

LEMMA AutoStepTyped ==
  ASSUME AutoTypeInv, [AutoNext]_autoVars
  PROVE  AutoTypeInv'
<1> USE DEF AutoTypeInv
<1>1. TypeInv'
  <2>1. CASE RuntimeStep
    BY <2>1, NextTyped DEF RuntimeStep, Next
  <2>2. ASSUME NEW x \in Procs, CoordinatorStep(x) \/ CoordinatorFault(x) PROVE TypeInv'
    <3>1. Coordinates(x)
      BY <2>2, CoordinatorCoordinates
    <3>2. faults' \in 0..MaxFaults
      BY <3>1 DEF Coordinates
    <3> QED BY <3>1, <3>2, CoordinatorMoves, StepTyped
  <2>3. CASE UNCHANGED vars
    BY <2>3, NextTyped
  <2> QED BY <2>1, <2>2, <2>3 DEF AutoNext, PublicationMoves, autoVars
<1>2. publications' \in [Executions -> Seq(Publication)]
  BY PublicationsGrow
<1>3. /\ target' \in [Procs -> Nat]
      /\ \A y \in Procs : pc'[y] \in {"claim", "send", "send_failed"} =>
           target'[y] \in DOMAIN publications'[run'[y].exec]
  <2>1. \A e \in Executions : DOMAIN publications[e] \subseteq DOMAIN publications'[e]
    BY PublicationsGrow
  <2>2. \A y \in Procs : pc[y] \in {"claim", "send", "send_failed"} => run[y].exec \in Executions
    BY MineKnown DEF Exec
  <2>3. CASE RuntimeStep
    <3>1. /\ target' = [x \in Procs |-> IF pc'[x] = "idle" THEN 0 ELSE target[x]]
          /\ UNCHANGED publications
      BY <2>3 DEF RuntimeStep
    <3>2. \A y \in Procs : pc'[y] \in {"claim", "send", "send_failed"} =>
            pc[y] = pc'[y] /\ run'[y] = run[y]
      BY <2>3, RuntimeAvoidsCoordinator DEF RuntimeStep, CoordinatorPc
    <3>3. target' \in [Procs -> Nat]
      BY <3>1 DEF AutoTypeOK
    <3> QED BY <3>1, <3>2, <3>3 DEF AutoTypeOK, Exec
  <2>4. ASSUME NEW x \in Procs, CoordinatorStep(x) \/ CoordinatorFault(x)
        PROVE  /\ target' \in [Procs -> Nat]
               /\ \A y \in Procs : pc'[y] \in {"claim", "send", "send_failed"} =>
                    target'[y] \in DOMAIN publications'[run'[y].exec]
    <3>1. Coordinates(x)
      BY <2>4, CoordinatorCoordinates
    <3>2. /\ \A y \in Procs \ {x} : pc'[y] = pc[y] /\ run'[y] = run[y] /\ target'[y] = target[y]
          /\ pc'[x] \in {"claim", "send", "send_failed"} => run'[x] = run[x]
      BY <3>1, CoordinatorLocals
    <3>3. \E n : target' = [target EXCEPT ![x] = n]
      BY <3>1 DEF Coordinates, Finish, Forward
    <3>4. target'[x] \in Nat
      BY <2>4, CoordinatorTargets
    <3>5. target' \in [Procs -> Nat]
      BY <3>3, <3>4 DEF AutoTypeOK
    <3> QED BY <2>1, <2>2, <2>4, <3>2, <3>5, CoordinatorTargets DEF AutoTypeOK, Exec
  <2>5. CASE UNCHANGED <<pc, run, target>>
    BY <2>1, <2>2, <2>5 DEF AutoTypeOK, Exec
  <2> QED BY <2>3, <2>4, <2>5 DEF AutoNext, PublicationMoves, autoVars, vars
<1>4. handed' \subseteq Executions
  <2>1. CASE RuntimeStep
    <3>1. \A y \in Procs : pc'[y] = "handover" => Exec(y)' \in Executions
      BY <1>1, BusyIsTyped
    <3> QED BY <2>1, <3>1 DEF RuntimeStep, AutoTypeOK
  <2>2. ASSUME NEW x \in Procs, CoordinatorStep(x) \/ CoordinatorFault(x)
        PROVE  UNCHANGED handed
    BY <2>2, CoordinatorCoordinates DEF Coordinates
  <2> QED BY <2>1, <2>2 DEF AutoNext, PublicationMoves, autoVars, AutoTypeOK
<1> QED BY <1>1, <1>2, <1>3, <1>4 DEF AutoTypeOK, Exec

LEMMA AutoInitTyped == AutoInit => AutoTypeInv
<1> SUFFICES ASSUME AutoInit PROVE AutoTypeInv
  OBVIOUS
<1>1. TypeInv
  BY InitTyped DEF AutoInit
<1>2. \A x \in Procs : pc[x] = "idle"
  BY DEF AutoInit, Init
<1>3. /\ publications \in [Executions -> Seq(Publication)] /\ target \in [Procs -> Nat]
      /\ handed \subseteq Executions
  BY DEF AutoInit
<1> QED BY <1>1, <1>2, <1>3 DEF AutoTypeInv, AutoTypeOK

(* The runtime's own type invariant holds with the coordinator, and so does    *)
(* the coordinator's.                                                         *)
THEOREM AutoTypeInvariant == AutoSpec => []AutoTypeInv
  BY AutoInitTyped, AutoStepTyped, PTL DEF AutoSpec

(* Every publication the coordinator creates is well typed, and a coordinator   *)
(* that claims or sends has a publication of its own execution to work on.     *)
THEOREM AutoTypeCorrect == AutoSpec => []AutoTypeOK
<1>1. AutoTypeInv => AutoTypeOK
  BY DEF AutoTypeInv
<1> QED BY <1>1, AutoTypeInvariant, PTL

-----------------------------------------------------------------------------
(* One record and one task.  Whoever is about to send is the one that moved    *)
(* the publication out of PENDING, and that is a place nothing leads back to.  *)

RecordedOnce ==
  \A e \in Executions : \A m, n \in DOMAIN publications[e] :
    publications[e][m].asset = publications[e][n].asset => m = n

SentAtMostOnce ==
  \A e \in Executions : \A n \in DOMAIN publications[e] :
    /\ publications[e][n].tasks <= 1
    /\ publications[e][n].status = "PENDING" => publications[e][n].tasks = 0

SendersAlone ==
  \A x \in Procs : pc[x] = "send" =>
    /\ Mine(x).tasks = 0 /\ Mine(x).status # "PENDING"
    /\ \A y \in Procs : pc[y] = "send" /\ Exec(y) = Exec(x) /\ target[y] = target[x] => y = x

DispatchInv == RecordedOnce /\ SentAtMostOnce /\ SendersAlone

\* Nobody comes to the point of sending.
NoNewSender ==
  \A y \in Procs : pc'[y] = "send" => pc[y] = "send" /\ run'[y] = run[y] /\ target'[y] = target[y]

\* The records are as they were, but for statuses that move away from PENDING.
MovedOn ==
  \A e \in Executions :
    /\ DOMAIN publications'[e] = DOMAIN publications[e]
    /\ \A n \in DOMAIN publications[e] :
         /\ publications'[e][n].asset = publications[e][n].asset
         /\ publications'[e][n].tasks = publications[e][n].tasks
         /\ publications'[e][n].status = "PENDING" => publications[e][n].status = "PENDING"

LEMMA MovedOnKeeps ==
  ASSUME AutoTypeInv, DispatchInv, NoNewSender, MovedOn
  PROVE  DispatchInv'
<1>1. RecordedOnce'
  BY DEF DispatchInv, RecordedOnce, MovedOn
<1>2. SentAtMostOnce'
  BY DEF DispatchInv, SentAtMostOnce, MovedOn
<1>3. SendersAlone'
  <2> SUFFICES ASSUME NEW x \in Procs, pc'[x] = "send"
               PROVE  /\ Mine(x)'.tasks = 0 /\ Mine(x)'.status # "PENDING"
                      /\ \A y \in Procs : pc'[y] = "send" /\ run'[y].exec = run'[x].exec
                                          /\ target'[y] = target'[x] => y = x
    BY DEF SendersAlone, Exec
  <2>1. pc[x] = "send" /\ run'[x] = run[x] /\ target'[x] = target[x]
    BY DEF NoNewSender
  <2>2. /\ Exec(x) \in Executions /\ target[x] \in DOMAIN publications[Exec(x)]
        /\ Mine(x) = publications[Exec(x)][target[x]]
    BY <2>1, MineKnown DEF AutoTypeInv
  <2>3. Mine(x)' = publications'[Exec(x)][target[x]]
    BY <2>1 DEF Mine, Exec
  <2>4. Mine(x)'.tasks = 0 /\ Mine(x)'.status # "PENDING"
    BY <2>1, <2>2, <2>3 DEF MovedOn, DispatchInv, SendersAlone
  <2>5. \A y \in Procs : pc'[y] = "send" /\ run'[y].exec = run'[x].exec
                         /\ target'[y] = target'[x] => y = x
    BY <2>1 DEF NoNewSender, DispatchInv, SendersAlone, Exec
  <2> QED BY <2>4, <2>5
<1> QED BY <1>1, <1>2, <1>3 DEF DispatchInv

LEMMA ChangedMovesOn ==
  ASSUME AutoTypeOK, NEW e \in Executions, NEW n \in DOMAIN publications[e],
         NEW p \in Publication, Changes(e, n, p),
         p.asset = publications[e][n].asset, p.tasks = publications[e][n].tasks,
         p.status # "PENDING"
  PROVE  MovedOn
  BY ChangesTyped DEF MovedOn

LEMMA SameMovesOn ==
  ASSUME UNCHANGED publications
  PROVE  MovedOn
  BY DEF MovedOn

LEMMA MovingMovesOn ==
  ASSUME AutoTypeInv, NEW x \in Procs, pc[x] \in {"claim", "send", "send_failed"},
         NEW from, NEW to \in PublicationStatuses \ {"PENDING"}, Move(x, from, to)
  PROVE  MovedOn
<1>1. CASE UNCHANGED publications
  BY <1>1, SameMovesOn
<1>2. CASE ~UNCHANGED publications
  <2> DEFINE p == [Mine(x) EXCEPT !.status = to]
  <2>1. p \in Publication /\ Changes(Exec(x), target[x], p)
    BY <1>2, MoveChanges DEF AutoTypeInv
  <2>2. /\ Exec(x) \in Executions /\ target[x] \in DOMAIN publications[Exec(x)]
        /\ Mine(x) \in Publication /\ Mine(x) = publications[Exec(x)][target[x]]
    BY MineKnown DEF AutoTypeInv
  <2>3. p.asset = Mine(x).asset /\ p.tasks = Mine(x).tasks /\ p.status # "PENDING"
    BY <2>2, RewritesKeep
  <2> HIDE DEF p
  <2> QED BY <2>1, <2>2, <2>3, ChangedMovesOn DEF AutoTypeInv
<1> QED BY <1>1, <1>2

\* A step of a coordinator that does not end at the point of sending.
LEMMA ElsewhereNoSender ==
  ASSUME AutoTypeInv, NEW x \in Procs, Coordinates(x), pc'[x] # "send"
  PROVE  NoNewSender
  BY CoordinatorLocals DEF NoNewSender

LEMMA NextDispatches ==
  ASSUME AutoTypeInv, DispatchInv, [AutoNext]_autoVars
  PROVE  DispatchInv'
<1> USE DEF AutoTypeInv
<1>1. CASE RuntimeStep
  <2>1. NoNewSender
    <3>1. \A y \in Procs : pc'[y] = "send" => pc[y] = pc'[y] /\ run'[y] = run[y]
      BY <1>1, RuntimeAvoidsCoordinator DEF RuntimeStep, CoordinatorPc
    <3> QED BY <1>1, <3>1 DEF RuntimeStep, NoNewSender
  <2>2. MovedOn
    BY <1>1, SameMovesOn DEF RuntimeStep
  <2> QED BY <2>1, <2>2, MovedOnKeeps
<1>2. ASSUME NEW x \in Procs, CoordinatorStep(x) \/ CoordinatorFault(x), pc'[x] # "send", MovedOn
      PROVE  DispatchInv'
  BY <1>2, CoordinatorCoordinates, ElsewhereNoSender, MovedOnKeeps
<1>3. ASSUME NEW x \in Procs, SelectVideo(x) \/ CoordinatorFault(x) PROVE DispatchInv'
  <2>1. Coordinates(x)
    BY <1>3, CoordinatorCoordinates DEF CoordinatorStep
  <2>2. pc'[x] # "send"
    BY <1>3, <2>1, CoordinatorLocals DEF SelectVideo, CoordinatorFault, Contain, Finish, Return,
       Leave, Proceed, Forward, TypeInv, TypeOK
  <2>3. MovedOn
    BY <1>3, SameMovesOn DEF SelectVideo, CoordinatorFault
  <2> QED BY <1>2, <1>3, <2>2, <2>3 DEF CoordinatorStep
<1>4. ASSUME NEW x \in Procs, CreatePublication(x) PROVE DispatchInv'
  <2>1. Coordinates(x) /\ Exec(x) \in Executions /\ target[x] \in Nat
    BY <1>4, CoordinatorCoordinates, CoordinatorMoves DEF CoordinatorStep, AutoTypeOK
  <2>2. pc'[x] # "send"
    BY <1>4, <2>1, CoordinatorLocals DEF CreatePublication, Contain, ContainLostAnswer, Finish,
       Return, Leave, Proceed, Forward, TypeInv, TypeOK
  <2>3. CASE UNCHANGED publications
    BY <1>2, <1>4, <2>2, <2>3, SameMovesOn DEF CoordinatorStep
  <2>4. CASE Holding(Exec(x), target[x]) = {} /\ Insert(Exec(x), target[x])
    <3> DEFINE e == Exec(x)
               n == Len(publications[e]) + 1
    <3>1. /\ e \in Executions
          /\ \A f \in Executions : /\ DOMAIN publications[f] \subseteq DOMAIN publications'[f]
                                   /\ f # e => publications'[f] = publications[f]
                                   /\ \A k \in DOMAIN publications[f] :
                                        publications'[f][k] = publications[f][k]
          /\ DOMAIN publications'[e] = DOMAIN publications[e] \cup {n}
          /\ n \notin DOMAIN publications[e]
          /\ publications'[e][n].asset = target[x] /\ publications'[e][n].tasks = 0
      <4>1. publications'[e][n] = Draft(target[x])
        BY <2>1, <2>4, InsertAppends
      <4>2. Draft(target[x]).asset = target[x] /\ Draft(target[x]).tasks = 0
        BY DEF Draft
      <4> QED BY <2>1, <2>4, <4>1, <4>2, InsertAppends
    <3>2. \A k \in DOMAIN publications[e] : publications[e][k].asset # target[x]
      BY <2>4 DEF Holding
    <3>3. NoNewSender
      BY <2>1, <2>2, ElsewhereNoSender
    <3> HIDE DEF e, n
    <3>4. RecordedOnce'
      <4> SUFFICES ASSUME NEW f \in Executions, NEW i \in DOMAIN publications'[f],
                          NEW j \in DOMAIN publications'[f],
                          publications'[f][i].asset = publications'[f][j].asset
                   PROVE  i = j
        BY DEF RecordedOnce
      <4>1. CASE f # e
        BY <3>1, <4>1 DEF DispatchInv, RecordedOnce
      <4>2. CASE f = e
        BY <3>1, <3>2, <4>2 DEF DispatchInv, RecordedOnce
      <4> QED BY <4>1, <4>2
    <3>5. SentAtMostOnce'
      <4> SUFFICES ASSUME NEW f \in Executions, NEW i \in DOMAIN publications'[f]
                   PROVE  /\ publications'[f][i].tasks <= 1
                          /\ publications'[f][i].status = "PENDING" => publications'[f][i].tasks = 0
        BY DEF SentAtMostOnce
      <4>1. CASE f = e /\ i = n
        BY <3>1, <4>1
      <4>2. CASE ~(f = e /\ i = n)
        BY <3>1, <4>2 DEF DispatchInv, SentAtMostOnce
      <4> QED BY <4>1, <4>2
    <3>6. SendersAlone'
      <4> SUFFICES ASSUME NEW y \in Procs, pc'[y] = "send"
                   PROVE  /\ Mine(y)'.tasks = 0 /\ Mine(y)'.status # "PENDING"
                          /\ \A z \in Procs : pc'[z] = "send" /\ run'[z].exec = run'[y].exec
                                              /\ target'[z] = target'[y] => z = y
        BY DEF SendersAlone, Exec
      <4>1. pc[y] = "send" /\ run'[y] = run[y] /\ target'[y] = target[y]
        BY <3>3 DEF NoNewSender
      <4>2. /\ Exec(y) \in Executions /\ target[y] \in DOMAIN publications[Exec(y)]
            /\ Mine(y) = publications[Exec(y)][target[y]]
        BY <4>1, MineKnown
      <4>3. Mine(y)' = Mine(y)
        BY <3>1, <4>1, <4>2 DEF Mine, Exec
      <4> QED BY <3>3, <4>1, <4>3 DEF NoNewSender, DispatchInv, SendersAlone, Exec
    <3> QED BY <3>4, <3>5, <3>6 DEF DispatchInv
  <2> QED BY <1>4, <2>3, <2>4 DEF CreatePublication
<1>5. ASSUME NEW x \in Procs, SendFailed(x) PROVE DispatchInv'
  <2>1. Coordinates(x)
    BY <1>5, CoordinatorCoordinates DEF CoordinatorStep
  <2>2. pc'[x] # "send"
    BY <1>5, <2>1, CoordinatorLocals DEF SendFailed, Contain, ContainLostAnswer, Finish,
       Return, Leave, Proceed, TypeInv, TypeOK
  <2>3. MovedOn
    BY <1>5, MovingMovesOn DEF SendFailed, PublicationStatuses
  <2> QED BY <1>2, <1>5, <2>2, <2>3 DEF CoordinatorStep
<1>8. ASSUME NEW e \in Executions, NEW n \in DOMAIN publications[e], PublicationMoves(e, n)
      PROVE  DispatchInv'
  <2>1. PICK to \in PublicationStatuses \ {"PENDING"} :
          /\ [publications[e][n] EXCEPT !.status = to] \in Publication
          /\ Changes(e, n, [publications[e][n] EXCEPT !.status = to])
    BY <1>8, WorkerMoves
  <2> DEFINE p == [publications[e][n] EXCEPT !.status = to]
  <2>2. /\ p.asset = publications[e][n].asset /\ p.tasks = publications[e][n].tasks
        /\ p.status # "PENDING"
    BY <2>1, KnownPublications, RewritesKeep
  <2>3. p \in Publication /\ Changes(e, n, p)
    BY <2>1
  <2> HIDE DEF p
  <2>4. MovedOn
    BY <2>2, <2>3, ChangedMovesOn
  <2>5. NoNewSender
    BY <1>8 DEF PublicationMoves, vars, NoNewSender
  <2> QED BY <2>4, <2>5, MovedOnKeeps
<1>9. CASE UNCHANGED autoVars
  <2>1. MovedOn /\ NoNewSender
    BY <1>9, SameMovesOn DEF autoVars, vars, NoNewSender
  <2> QED BY <2>1, MovedOnKeeps
<1>6. ASSUME NEW x \in Procs, Claim(x) PROVE DispatchInv'
  <2>1. Coordinates(x) /\ pc[x] = "claim"
    BY <1>6, CoordinatorCoordinates DEF CoordinatorStep, Claim
  <2>2. MovedOn
    BY <1>6, MovingMovesOn DEF Claim, PublicationStatuses
  <2>3. CASE pc'[x] # "send"
    BY <1>2, <1>6, <2>2, <2>3 DEF CoordinatorStep
  <2>4. CASE pc'[x] = "send"
    <3>1. Mine(x).status = "PENDING" /\ target'[x] = target[x] /\ run'[x] = run[x]
      <4>1. ~Finish(x)
        BY <2>1, <2>4, CoordinatorLocals DEF Finish, Return, Leave, Proceed, TypeInv, TypeOK
      <4>2. Mine(x).status = "PENDING" /\ Forward(x, "send", target[x])
        BY <1>6, <4>1 DEF Claim, Contain, ContainLostAnswer
      <4> QED BY <2>1, <2>4, <4>2, CoordinatorLocals
    <3>2. /\ Exec(x) \in Executions /\ target[x] \in DOMAIN publications[Exec(x)]
          /\ Mine(x) \in Publication /\ Mine(x) = publications[Exec(x)][target[x]]
      BY <2>1, MineKnown
    <3>3. Mine(x)' = publications'[Exec(x)][target[x]]
      BY <3>1 DEF Mine, Exec
    <3>4. Mine(x)'.tasks = 0 /\ Mine(x)'.status # "PENDING"
      <4>1. publications' = [publications EXCEPT ![Exec(x)][target[x]].status = "QUEUED"]
        BY <1>6, <3>1 DEF Claim, Move
      <4>2. Changes(Exec(x), target[x], [Mine(x) EXCEPT !.status = "QUEUED"])
        BY <4>1 DEF Changes, Mine
      <4> DEFINE p == [Mine(x) EXCEPT !.status = "QUEUED"]
      <4>3. p \in Publication /\ p.status = "QUEUED" /\ p.tasks = Mine(x).tasks
        BY <3>2, RewritesKeep DEF Publication, PublicationStatuses
      <4>4. Changes(Exec(x), target[x], p)
        BY <4>2
      <4> HIDE DEF p
      <4>5. publications'[Exec(x)][target[x]] = p
        BY <3>2, <4>3, <4>4, ChangesTyped
      <4> QED BY <3>1, <3>2, <3>3, <4>3, <4>5 DEF DispatchInv, SentAtMostOnce
    <3>5. \A y \in Procs \ {x} : pc'[y] = pc[y] /\ run'[y] = run[y] /\ target'[y] = target[y]
      BY <2>1, CoordinatorLocals
    <3>6. ASSUME NEW y \in Procs \ {x}, pc[y] = "send"
          PROVE  /\ Exec(y) # Exec(x) \/ target[y] # target[x]
                 /\ Mine(y)'.tasks = 0 /\ Mine(y)'.status # "PENDING"
      <4>1. Mine(y).tasks = 0 /\ Mine(y).status # "PENDING"
        BY <3>6 DEF DispatchInv, SendersAlone
      <4>2. /\ Exec(y) \in Executions /\ target[y] \in DOMAIN publications[Exec(y)]
            /\ Mine(y) = publications[Exec(y)][target[y]]
        BY <3>6, MineKnown
      <4>3. Mine(y)' = publications'[Exec(y)][target[y]]
        BY <3>5, <3>6 DEF Mine, Exec
      <4> QED BY <2>2, <3>1, <3>2, <4>1, <4>2, <4>3 DEF MovedOn
    <3>7. SendersAlone'
      <4> SUFFICES ASSUME NEW y \in Procs, pc'[y] = "send"
                   PROVE  /\ Mine(y)'.tasks = 0 /\ Mine(y)'.status # "PENDING"
                          /\ \A z \in Procs : pc'[z] = "send" /\ run'[z].exec = run'[y].exec
                                              /\ target'[z] = target'[y] => z = y
        BY DEF SendersAlone, Exec
      <4>1. CASE y = x
        BY <3>1, <3>4, <3>5, <3>6, <4>1 DEF Exec
      <4>2. CASE y # x
        BY <3>1, <3>5, <3>6, <4>2 DEF DispatchInv, SendersAlone, Exec
      <4> QED BY <4>1, <4>2
    <3>8. RecordedOnce' /\ SentAtMostOnce'
      BY <2>2 DEF MovedOn, DispatchInv, RecordedOnce, SentAtMostOnce
    <3> QED BY <3>7, <3>8 DEF DispatchInv
  <2> QED BY <2>3, <2>4
<1>7. ASSUME NEW x \in Procs, Send(x) PROVE DispatchInv'
  <2>1. Coordinates(x) /\ pc[x] = "send"
    BY <1>7, CoordinatorCoordinates DEF CoordinatorStep, Send
  <2>2. pc'[x] # "send"
    BY <1>7, <2>1, CoordinatorLocals DEF Send, Finish, Return, Leave, Proceed, Forward, TypeInv,
       TypeOK
  <2>3. CASE UNCHANGED publications
    BY <1>2, <1>7, <2>2, <2>3, SameMovesOn DEF CoordinatorStep
  <2>4. CASE Accept(x)
    <3> DEFINE e == Exec(x)
               n == target[x]
               p == [Mine(x) EXCEPT !.tasks = @ + 1]
    <3>1. p \in Publication /\ Changes(e, n, p)
      BY <2>1, <2>4, AcceptChanges
    <3>2. /\ e \in Executions /\ n \in DOMAIN publications[e] /\ Mine(x) \in Publication
          /\ Mine(x) = publications[e][n]
      BY <2>1, MineKnown
    <3>3. /\ p.asset = publications[e][n].asset /\ p.status = Mine(x).status
          /\ p.tasks = Mine(x).tasks + 1
      BY <3>2, RewritesKeep
    <3> HIDE DEF p
    <3>4. \A f \in Executions : /\ DOMAIN publications'[f] = DOMAIN publications[f]
                                /\ \A k \in DOMAIN publications[f] :
                                     publications'[f][k] = IF f = e /\ k = n THEN p
                                                           ELSE publications[f][k]
      BY <3>1, <3>2, ChangesTyped
    <3>5. p.status # "PENDING" /\ p.tasks = 1
      BY <2>1, <3>3 DEF DispatchInv, SendersAlone
    <3>6. NoNewSender
      BY <2>1, <2>2, ElsewhereNoSender
    <3>7. RecordedOnce' /\ SentAtMostOnce'
      BY <3>3, <3>4, <3>5 DEF DispatchInv, RecordedOnce, SentAtMostOnce
    <3>8. SendersAlone'
      <4> SUFFICES ASSUME NEW y \in Procs, pc'[y] = "send"
                   PROVE  /\ Mine(y)'.tasks = 0 /\ Mine(y)'.status # "PENDING"
                          /\ \A z \in Procs : pc'[z] = "send" /\ run'[z].exec = run'[y].exec
                                              /\ target'[z] = target'[y] => z = y
        BY DEF SendersAlone, Exec
      <4>1. pc[y] = "send" /\ run'[y] = run[y] /\ target'[y] = target[y] /\ y # x
        BY <2>2, <3>6 DEF NoNewSender
      <4>2. /\ Exec(y) \in Executions /\ target[y] \in DOMAIN publications[Exec(y)]
            /\ Mine(y) = publications[Exec(y)][target[y]]
        BY <4>1, MineKnown
      <4>3. Exec(y) # e \/ target[y] # n
        BY <2>1, <4>1 DEF DispatchInv, SendersAlone
      <4>4. Mine(y)' = Mine(y)
        BY <3>4, <4>1, <4>2, <4>3 DEF Mine, Exec
      <4> QED BY <3>6, <4>1, <4>4 DEF NoNewSender, DispatchInv, SendersAlone, Exec
    <3> QED BY <3>7, <3>8 DEF DispatchInv
  <2> QED BY <1>7, <2>3, <2>4 DEF Send
<1> QED BY <1>1, <1>3, <1>4, <1>5, <1>6, <1>7, <1>8, <1>9 DEF AutoNext, CoordinatorStep

(* The record a coordinator may send for is the one it claimed, and no other    *)
(* process claims it again.                                                   *)
THEOREM DispatchInvariant == AutoSpec => []DispatchInv
<1>1. AutoInit => DispatchInv
  BY DEF AutoInit, Init, DispatchInv, RecordedOnce, SentAtMostOnce, SendersAlone
<1> QED BY <1>1, NextDispatches, AutoTypeInvariant, PTL DEF AutoSpec

(* However many coordinators meet on one completed execution, with whatever     *)
(* crashes, redeliveries and lost answers, the unique constraint and the       *)
(* compare-and-set leave one record for its video and one task for that.       *)
THEOREM DispatchesOnce == AutoSpec => []DispatchedOnce
<1>1. DispatchInv => DispatchedOnce
  BY DEF DispatchInv, RecordedOnce, SentAtMostOnce, DispatchedOnce
<1> QED BY <1>1, DispatchInvariant, PTL

-----------------------------------------------------------------------------
(* As long as nobody was lost and nothing was sent twice, an execution has one  *)
(* message or one run, the rows that run has seen are the stored ones, and      *)
(* there is a publication only once the run is completed.                      *)

IdleHasNone == \A x \in Procs : pc[x] = "idle" => Exec(x) = NoExecution

Alone == \A x, y \in Procs : Exec(x) = Exec(y) /\ Exec(x) \in Executions => x = y

Untouched(e) == products[e] = <<>> /\ artifacts[e] = <<>> /\ publications[e] = <<>>

\* An execution and its message.
Waits(e) ==
  /\ queue[e] <= 1
  /\ execution[e] = "absent" => queue[e] = 0
  /\ queue[e] > 0 \/ execution[e] = "absent" => Untouched(e)
  /\ publications[e] # <<>> => execution[e] = "COMPLETED"

\* A process and its execution.
Holds(x) ==
  pc[x] # "idle" =>
    /\ execution[Exec(x)] # "absent" /\ queue[Exec(x)] = 0
    /\ pc[x] \notin BlindPc => run[x].seen = execution[Exec(x)]
    /\ pc[x] \in CompletedPc => execution[Exec(x)] = "COMPLETED"
    /\ pc[x] \in UnrunPc => Untouched(Exec(x))
    /\ publications[Exec(x)] # <<>> => pc[x] \in CoordinatorPc \cup {"finished"}

Sole == Alone /\ (\A e \in Executions : Waits(e)) /\ (\A x \in Procs : Holds(x))

SoleInv == IdleHasNone /\ (RanOnce => Sole)

-----------------------------------------------------------------------------
(* The media of an execution.  They are stored by jobs of its one run and       *)
(* linked in the order they were stored in, so that the last video linked is    *)
(* the newest; and the run that selects it has completed all of its jobs.       *)

Linked(e) ==
  /\ \A k \in DOMAIN artifacts[e] :
       artifacts[e][k] \in DOMAIN products[e] /\ products[e][artifacts[e][k]].registered
  /\ \A k, l \in DOMAIN artifacts[e] : k < l => artifacts[e][k] < artifacts[e][l]

Final(e, asset) ==
  /\ asset \in DOMAIN products[e] /\ products[e][asset].registered
  /\ \A k \in DOMAIN artifacts[e] :
       products[e][artifacts[e][k]].kind = "video" => artifacts[e][k] <= asset
  /\ jobs[e][products[e][asset].job].status = "COMPLETED"

OwnMedia(x) ==
  pc[x] \notin BlindPc => \A p \in DOMAIN products[Exec(x)] : products[Exec(x)][p].job \in run[x].mine

\* The medium a run has just stored is the newest, and not linked yet.
Newest(x) ==
  pc[x] \in {"register", "link"} =>
    /\ run[x].product = Len(products[Exec(x)]) /\ run[x].product \in DOMAIN products[Exec(x)]
    /\ pc[x] = "link" => products[Exec(x)][run[x].product].registered
    /\ \A k \in DOMAIN artifacts[Exec(x)] : artifacts[Exec(x)][k] < run[x].product

Selected(x) == pc[x] = "create_publication" => Final(Exec(x), target[x])

Issued(e) == \A n \in DOMAIN publications[e] : Final(e, publications[e][n].asset)

Media ==
  /\ \A e \in Executions : Linked(e) /\ Issued(e)
  /\ \A x \in Procs : OwnMedia(x) /\ Newest(x) /\ Selected(x)

MediaInv == RanOnce => Media

\* Nothing that was spent is given back.
LEMMA CrashesStay ==
  ASSUME AutoTypeInv, [AutoNext]_autoVars, RanOnce'
  PROVE  RanOnce /\ UNCHANGED <<workerCrashes, extraMessages>>
<1> USE DEF AutoTypeInv
<1>0. /\ workerCrashes \in Nat /\ extraMessages \in Nat
      /\ workerCrashes' \in Nat /\ extraMessages' \in Nat
  <2>1. TypeInv'
    BY AutoStepTyped
  <2> QED BY <2>1, BoundsAreNats DEF TypeInv, TypeOK
<1>1. ASSUME Quiet \/ UNCHANGED spent PROVE UNCHANGED <<workerCrashes, extraMessages>>
  BY <1>1 DEF Quiet, spent
<1>2. \/ UNCHANGED <<workerCrashes, extraMessages>>
      \/ workerCrashes' = workerCrashes + 1 \/ extraMessages' = extraMessages + 1
  <2>1. ASSUME NEW x \in Procs, RunStep(x) PROVE UNCHANGED <<workerCrashes, extraMessages>>
    <3>1. Quiet \/ UNCHANGED spent
      <4>1. CASE StepOfPlan(x)
        BY <4>1 DEF StepOfPlan, StartStep, CreateJob, BeginJob, Operate, Register, Link,
           Presign, CompleteJob, CompleteStep
      <4>2. CASE Handler(x)
        BY <4>2 DEF Handler, FailStep, LogError, FailJob, FailExecution, LogFailure, ReportFailure
      <4>3. CASE \/ Start(x) \/ LogStart(x) \/ Complete(x) \/ LogCompletion(x)
                 \/ ReportCompletion(x) \/ PendingRollback(x)
        BY <4>3 DEF Start, LogStart, Complete, LogCompletion, ReportCompletion, PendingRollback
      <4> QED BY <2>1, <4>1, <4>2, <4>3 DEF RunStep
    <3> QED BY <1>1, <3>1
  <2>2. ASSUME NEW w \in Workers, TaskStep(w) PROVE UNCHANGED <<workerCrashes, extraMessages>>
    <3>1. Quiet \/ UNCHANGED spent
      BY <2>2 DEF TaskStep, Deliver, Load, Reject, RejectExecution, Safety, Ack
    <3> QED BY <1>1, <3>1
  <2>3. CASE Request
    BY <1>1, <2>3 DEF Request, RequestRun, EnqueueWorkflow, EnqueueExecution
  <2>4. ASSUME NEW c \in Clients, Dispatch(c) PROVE UNCHANGED <<workerCrashes, extraMessages>>
    BY <1>1, <2>4 DEF Dispatch
  <2>5. CASE Fault
    BY <1>1, <2>5 DEF Fault, DbFault, ClientCrash, WorkerCrash, Redeliver
  <2>6. ASSUME NEW x \in Procs, CoordinatorStep(x) \/ CoordinatorFault(x)
        PROVE  UNCHANGED <<workerCrashes, extraMessages>>
    BY <2>6, CoordinatorCoordinates DEF Coordinates
  <2> QED BY <2>1, <2>2, <2>3, <2>4, <2>5, <2>6
          DEF AutoNext, RuntimeStep, RunNext, PublicationMoves, autoVars, vars, spent
<1>3. workerCrashes' + extraMessages' = 0
  BY DEF RanOnce
<1>4. workerCrashes' = 0 /\ extraMessages' = 0
  <2>1. \A a, b \in Nat : a + b = 0 => a = 0 /\ b = 0
    OBVIOUS
  <2> QED BY <1>0, <1>3, <2>1
<1>5. UNCHANGED <<workerCrashes, extraMessages>>
  BY <1>0, <1>2, <1>4
<1> QED BY <1>3, <1>5 DEF RanOnce

LEMMA NothingSpent ==
  ASSUME AutoTypeInv, UNCHANGED <<workerCrashes, extraMessages>>
  PROVE  ~Resends /\ \A w \in Workers : ~WorkerCrash(w)
<1>1. workerCrashes \in Nat /\ extraMessages \in Nat
  BY BoundsAreNats DEF AutoTypeInv, TypeInv, TypeOK
<1>2. \A n \in Nat : n + 1 # n
  OBVIOUS
<1> QED BY <1>1, <1>2 DEF Resends, WorkerCrash

\* Whoever is not idle has an execution, and is alone with it.
LEMMA AloneWith ==
  ASSUME TypeInv, IdleHasNone, Alone, NEW x \in Procs, pc[x] # "idle"
  PROVE  /\ Exec(x) \in Executions
         /\ \A y \in Procs : Exec(y) = Exec(x) => y = x
         /\ \A y \in Procs \ {x} : pc[y] # "idle" => Exec(y) # Exec(x) /\ Exec(y) \in Executions
<1>1. Exec(x) \in Executions /\ \A y \in Procs : pc[y] # "idle" => Exec(y) \in Executions
  BY BusyRuns
<1> QED BY <1>1 DEF Alone

\* What a process that takes a step has afterwards.
LEMMA Taking ==
  ASSUME TypeInv, NEW x \in Procs, NEW points, NEW seen, Takes(x, points, seen)
  PROVE  /\ \A y \in Procs \ {x} : pc'[y] = pc[y] /\ run'[y] = run[y]
         /\ pc'[x] \in points
         /\ \/ pc'[x] = "idle" /\ run'[x].exec = NoExecution
            \/ pc'[x] = "finished" /\ run'[x].exec = Exec(x)
            \/ /\ pc'[x] \notin {"idle", "finished"} /\ pc[x] \notin BlindPc
               /\ Keeps(x, run'[x], seen)
<1>1. PICK point \in points, r \in Run :
        /\ Proceed(x, point, r)
        /\ \/ point = "idle" /\ r = IdleRun
           \/ point = "finished" /\ r.exec = Exec(x)
           \/ point \notin {"idle", "finished"} /\ pc[x] \notin BlindPc /\ Keeps(x, r, seen)
  BY DEF Takes
<1>2. \A y \in Procs : /\ pc'[y] = IF y = x THEN point ELSE pc[y]
                       /\ run'[y] = IF y = x THEN r ELSE run[y]
  BY <1>1 DEF TypeInv, TypeOK, Proceed
<1>3. IdleRun.exec = NoExecution
  BY DEF IdleRun
<1> QED BY <1>1, <1>2, <1>3

\* The rows of an execution that the invariant is about.
SameRows(e) == /\ execution'[e] = execution[e] /\ queue'[e] = queue[e]
               /\ products'[e] = products[e] /\ artifacts'[e] = artifacts[e]
               /\ publications'[e] = <<>> <=> publications[e] = <<>>

LEMMA SameRowsWait ==
  ASSUME NEW e \in Executions, Waits(e), SameRows(e)
  PROVE  Waits(e)'
  BY DEF Waits, SameRows, Untouched

LEMMA SameRowsHold ==
  ASSUME TypeInv, NEW y \in Procs, Holds(y), pc'[y] = pc[y], run'[y] = run[y],
         pc[y] # "idle" => SameRows(Exec(y))
  PROVE  Holds(y)'
  BY DEF Holds, SameRows, Untouched, Exec

(* A process that has an execution takes a step, and leaves the others' alone. *)
LEMMA TakingKeepsSole ==
  ASSUME TypeInv, IdleHasNone, Sole, NEW x \in Procs, pc[x] # "idle",
         NEW points, NEW seen, Takes(x, points, seen), points \cap UnrunPc = {},
         UNCHANGED queue, \A e \in Executions : e # Exec(x) => SameRows(e),
         execution'[Exec(x)] # "absent",
         pc[x] \notin BlindPc => execution'[Exec(x)] = seen,
         pc'[x] \in CompletedPc => execution'[Exec(x)] = "COMPLETED",
         publications'[Exec(x)] # <<>> =>
           /\ execution'[Exec(x)] = "COMPLETED"
           /\ pc'[x] \in CoordinatorPc \cup {"idle", "finished"}
  PROVE  IdleHasNone' /\ Sole'
<1>1. /\ Exec(x) \in Executions
      /\ \A y \in Procs \ {x} : pc[y] # "idle" => Exec(y) # Exec(x) /\ Exec(y) \in Executions
  BY AloneWith DEF Sole
<1>2. /\ \A y \in Procs \ {x} : pc'[y] = pc[y] /\ run'[y] = run[y]
      /\ pc'[x] \in points
      /\ \/ pc'[x] = "idle" /\ run'[x].exec = NoExecution
         \/ pc'[x] = "finished" /\ run'[x].exec = Exec(x)
         \/ /\ pc'[x] \notin {"idle", "finished"} /\ pc[x] \notin BlindPc
            /\ Keeps(x, run'[x], seen)
  BY Taking
<1>3. run'[x].exec \in {NoExecution, Exec(x)} /\ (pc'[x] # "idle" => run'[x].exec = Exec(x))
  BY <1>2 DEF Keeps
<1>4. IdleHasNone'
  BY <1>2 DEF IdleHasNone, Exec
<1>5. Alone'
  BY <1>2, <1>3 DEF Sole, Alone, Exec
<1>6. ASSUME NEW e \in Executions PROVE Waits(e)'
  <2>1. CASE e = Exec(x)
    BY <2>1 DEF Sole, Holds, Waits
  <2> QED BY <1>6, <2>1, SameRowsWait DEF Sole
<1>7. ASSUME NEW y \in Procs PROVE Holds(y)'
  <2>1. CASE y = x
    <3>1. pc'[x] \notin UnrunPc
      BY <1>2
    <3>2. queue'[Exec(x)] = 0
      BY DEF Sole, Holds
    <3>3. pc'[x] \notin BlindPc => run'[x].seen = execution'[Exec(x)]
      BY <1>2 DEF Keeps, BlindPc
    <3> QED BY <1>3, <2>1, <3>1, <3>2, <3>3 DEF Holds, Exec
  <2> QED BY <1>1, <1>2, <2>1, SameRowsHold DEF Sole
<1> QED BY <1>4, <1>5, <1>6, <1>7 DEF Sole

\* A message is taken or sent, or an execution created, by a process that is alone with it.
LEMMA EnteringKeepsSole ==
  ASSUME AutoTypeInv, IdleHasNone, Sole, NEW x \in Procs, NEW e \in Executions,
         RequestRun(x, e) \/ EnqueueWorkflow(x, e) \/ Deliver(x, e), UNCHANGED publications
  PROVE  IdleHasNone' /\ Sole'
<1> USE DEF AutoTypeInv
<1>1. /\ pc[x] = "idle" /\ UNCHANGED <<products, artifacts>>
      /\ \A f \in Executions : f # e => SameRows(f)
  BY DEF RequestRun, EnqueueWorkflow, Deliver, tables, SameRows, TypeInv, TypeOK
<1>2. /\ queue[e] > 0 \/ execution[e] = "absent"
      /\ Untouched(e) /\ queue[e] \in {0, 1}
      /\ execution[e] = "absent" => queue[e] = 0
  <2>1. queue[e] > 0 \/ execution[e] = "absent"
    BY DEF RequestRun, EnqueueWorkflow, Deliver
  <2>2. queue[e] \in Nat /\ Waits(e)
    BY DEF TypeInv, TypeOK, Sole
  <2> QED BY <2>1, <2>2 DEF Waits
<1>3. \A y \in Procs : pc[y] # "idle" => Exec(y) # e /\ Exec(y) \in Executions
  <2>1. \A y \in Procs : pc[y] # "idle" =>
          Exec(y) \in Executions /\ queue[Exec(y)] = 0 /\ execution[Exec(y)] # "absent"
    BY BusyRuns DEF Sole, Holds
  <2> QED BY <1>2, <2>1
<1>4. /\ pc'[x] \in {"start", "dispatch", "load"} /\ run'[x].exec = e
      /\ pc'[x] \notin BlindPc => run'[x].seen = execution'[e]
      /\ \A y \in Procs \ {x} : pc'[y] = pc[y] /\ run'[y] = run[y]
      /\ execution'[e] # "absent" /\ queue'[e] = 0
  <2>1. CASE Deliver(x, e)
    <3>1. queue[e] = 1
      BY <1>2, <2>1 DEF Deliver
    <3> QED BY <1>2, <2>1, <3>1 DEF Deliver, Proceed, IdleRun, BlindPc, TypeInv, TypeOK, tables
  <2>2. CASE RequestRun(x, e)
    BY <1>2, <2>2 DEF RequestRun, Proceed, IdleRun, FreshRun, BlindPc, TypeInv, TypeOK
  <2>3. CASE EnqueueWorkflow(x, e)
    BY <1>2, <2>3 DEF EnqueueWorkflow, Proceed, IdleRun, BlindPc, TypeInv, TypeOK
  <2> QED BY <2>1, <2>2, <2>3
<1>5. IdleHasNone'
  BY <1>4 DEF IdleHasNone, Exec
<1>6. Alone'
  BY <1>3, <1>4 DEF Sole, Alone, IdleHasNone, Exec
<1>7. ASSUME NEW f \in Executions PROVE Waits(f)'
  <2>1. CASE f = e
    BY <1>1, <1>2, <1>4, <2>1 DEF Waits, Untouched
  <2> QED BY <1>1, <2>1, SameRowsWait DEF Sole
<1>8. ASSUME NEW y \in Procs PROVE Holds(y)'
  <2>1. CASE y = x
    <3>1. Untouched(e)' /\ pc'[x] \notin CompletedPc
      BY <1>1, <1>2, <1>4 DEF Untouched, CompletedPc, CoordinatorPc
    <3> QED BY <1>4, <2>1, <3>1 DEF Holds, Exec, Untouched
  <2> QED BY <1>1, <1>3, <1>4, <2>1, SameRowsHold DEF Sole
<1> QED BY <1>5, <1>6, <1>7, <1>8 DEF Sole

LEMMA DispatchKeepsSole ==
  ASSUME AutoTypeInv, IdleHasNone, Sole, NEW x \in Procs, Dispatch(x), UNCHANGED publications
  PROVE  IdleHasNone' /\ Sole'
<1> USE DEF AutoTypeInv
<1>1. pc[x] = "dispatch" /\ pc[x] # "idle" /\ UNCHANGED <<execution, products, artifacts>>
  BY DEF Dispatch, tables
<1>2. /\ Exec(x) \in Executions
      /\ \A y \in Procs \ {x} : pc[y] # "idle" => Exec(y) # Exec(x) /\ Exec(y) \in Executions
  BY <1>1, AloneWith DEF Sole
<1>3. Untouched(Exec(x)) /\ queue[Exec(x)] = 0 /\ execution[Exec(x)] # "absent"
  BY <1>1 DEF Sole, Holds, UnrunPc
<1>4. /\ pc'[x] = "idle" /\ run'[x].exec = NoExecution
      /\ \A y \in Procs \ {x} : pc'[y] = pc[y] /\ run'[y] = run[y]
      /\ queue'[Exec(x)] \in {0, 1}
      /\ \A f \in Executions : f # Exec(x) => SameRows(f)
  BY <1>1, <1>2, <1>3 DEF Dispatch, Leave, Proceed, IdleRun, SendTask, SameRows, TypeInv, TypeOK
<1>5. IdleHasNone' /\ Alone'
  BY <1>4 DEF IdleHasNone, Sole, Alone, Exec
<1>6. ASSUME NEW f \in Executions PROVE Waits(f)'
  <2>1. CASE f = Exec(x)
    BY <1>1, <1>3, <1>4, <2>1 DEF Waits, Untouched
  <2> QED BY <1>4, <2>1, SameRowsWait DEF Sole
<1>7. ASSUME NEW y \in Procs PROVE Holds(y)'
  <2>1. CASE y = x
    BY <1>4, <2>1 DEF Holds
  <2> QED BY <1>2, <1>4, <2>1, SameRowsHold DEF Sole
<1> QED BY <1>5, <1>6, <1>7 DEF Sole

LEMMA LoadKeepsSole ==
  ASSUME AutoTypeInv, IdleHasNone, Sole, NEW x \in Procs, Load(x), UNCHANGED publications
  PROVE  IdleHasNone' /\ Sole'
<1> USE DEF AutoTypeInv
<1>1. /\ pc[x] = "load" /\ pc[x] # "idle"
      /\ UNCHANGED <<execution, products, artifacts, queue>>
  BY DEF Load, AtDb, tables
<1>2. /\ Exec(x) \in Executions
      /\ \A y \in Procs \ {x} : pc[y] # "idle" => Exec(y) # Exec(x) /\ Exec(y) \in Executions
  BY <1>1, AloneWith DEF Sole
<1>3. /\ Untouched(Exec(x)) /\ queue[Exec(x)] = 0 /\ execution[Exec(x)] # "absent"
      /\ \A f \in Executions : SameRows(f)
  BY <1>1 DEF Sole, Holds, UnrunPc, SameRows
<1>4. /\ pc'[x] \in {"start", "reject"} /\ run'[x].exec = Exec(x)
      /\ run'[x].seen = execution[Exec(x)]
      /\ \A y \in Procs \ {x} : pc'[y] = pc[y] /\ run'[y] = run[y]
  BY DEF Load, Proceed, FreshRun, IdleRun, TypeInv, TypeOK
<1>5. IdleHasNone' /\ Alone'
  BY <1>4 DEF IdleHasNone, Sole, Alone, Exec
<1>6. ASSUME NEW f \in Executions PROVE Waits(f)'
  BY <1>3, SameRowsWait DEF Sole
<1>7. ASSUME NEW y \in Procs PROVE Holds(y)'
  <2>1. CASE y = x
    <3>1. pc'[x] \notin CompletedPc
      BY <1>4 DEF CompletedPc, CoordinatorPc
    <3> QED BY <1>1, <1>3, <1>4, <2>1, <3>1 DEF Holds, Exec, Untouched
  <2> QED BY <1>2, <1>3, <1>4, <2>1, SameRowsHold DEF Sole
<1> QED BY <1>5, <1>6, <1>7 DEF Sole

\* What a run stores in its execution's row, the row being the one it has seen.
LEMMA StoredIsWritten ==
  ASSUME NEW x \in Procs, NEW status, run[x].seen = execution[Exec(x)]
  PROVE  StoredExecution(x, status) = status
  BY DEF StoredExecution, Updated

LEMMA RuntimeTakesSole ==
  ASSUME AutoTypeInv, IdleHasNone, Sole, NEW x \in Procs, UNCHANGED publications,
         Quietly(x) \/ Completes(x) \/ Restates(x) \/ Closes(x) \/ Stores(x)
  PROVE  IdleHasNone' /\ Sole'
<1> USE DEF AutoTypeInv
<1>1. /\ pc[x] # "idle" /\ Exec(x) \in Executions /\ UNCHANGED queue /\ Holds(x)
      /\ Waits(Exec(x))
  <2>1. pc[x] # "idle"
    BY DEF Quietly, Completes, Restates, Writes, Closes, Stores, BlindPc
  <2> QED BY <2>1, BusyRuns DEF Quietly, Completes, Restates, Writes, Closes, Stores, Untold, Sole
<1>2. /\ PlainPc \cap UnrunPc = {} /\ PlainPc \cap CompletedPc = {}
      /\ {"log_completion", "report_completion", "handover", "register", "link"} \cap UnrunPc = {}
      /\ {"register", "link"} \cap CompletedPc = {}
  BY DEF PlainPc, UnrunPc, CompletedPc, CoordinatorPc
<1>3. CASE Quietly(x)
  <2>1. Takes(x, PlainPc, run[x].seen) /\ UNCHANGED execution /\ \A e \in Executions : SameRows(e)
    BY <1>3 DEF Quietly, Untold, SameRows
  <2>2. pc'[x] \notin CompletedPc
    BY <1>2, <2>1, Taking
  <2>3. publications[Exec(x)] # <<>> =>
          execution[Exec(x)] = "COMPLETED" /\ pc'[x] \in CoordinatorPc \cup {"idle", "finished"}
    BY <1>1, <1>3 DEF Quietly, Holds, Waits, DonePc
  <2>4. execution[Exec(x)] # "absent" /\ (pc[x] \notin BlindPc => execution[Exec(x)] = run[x].seen)
    BY <1>1 DEF Holds
  <2> QED BY <1>1, <1>2, <2>1, <2>2, <2>3, <2>4, TakingKeepsSole
<1>4. ASSUME NEW status \in Statuses, NEW points, Writes(x, status, points),
             points \cap UnrunPc = {},
             status = "COMPLETED" \/ points \cap CompletedPc = {}
      PROVE  IdleHasNone' /\ Sole'
  <2>1. /\ pc[x] \notin BlindPc \cup CompletedPc /\ Takes(x, points, StoredExecution(x, status))
        /\ run[x].seen = execution[Exec(x)]
    BY <1>1, <1>4 DEF Writes, Holds
  <2>2. StoredExecution(x, status) = status
    BY <2>1, StoredIsWritten
  <2>3. /\ execution'[Exec(x)] = status /\ status # "absent"
        /\ \A e \in Executions : e # Exec(x) => SameRows(e)
    BY <1>1, <1>4, <2>2 DEF Writes, SetExecution, Statuses, SameRows, TypeInv, TypeOK
  <2>4. publications[Exec(x)] = <<>>
    BY <1>1, <2>1 DEF Holds, CompletedPc, BlindPc
  <2>5. pc'[x] \in CompletedPc => status = "COMPLETED"
    BY <1>4, <2>1, Taking
  <2> QED BY <1>1, <1>4, <2>1, <2>2, <2>3, <2>4, <2>5, TakingKeepsSole
<1>5. CASE Completes(x)
  <2>1. "COMPLETED" \in Statuses
    BY DEF Statuses
  <2>2. (PlainPc \cup {"log_completion"}) \cap UnrunPc = {}
    BY <1>2
  <2> QED BY <1>4, <1>5, <2>1, <2>2 DEF Completes
<1>6. CASE Restates(x)
  BY <1>2, <1>4, <1>6 DEF Restates
<1>7. CASE Closes(x)
  <2> DEFINE points == PlainPc \cup {"report_completion", "handover"}
  <2>1. Takes(x, points, run[x].seen) /\ UNCHANGED execution /\ \A e \in Executions : SameRows(e)
    BY <1>7 DEF Closes, Untold, SameRows
  <2>2. points \cap UnrunPc = {}
    BY <1>2
  <2> HIDE DEF points
  <2>3. /\ execution[Exec(x)] = "COMPLETED" /\ publications[Exec(x)] = <<>>
        /\ (pc[x] \notin BlindPc => execution[Exec(x)] = run[x].seen)
    BY <1>1, <1>7 DEF Closes, Holds, CompletedPc, CoordinatorPc
  <2> QED BY <1>1, <2>1, <2>2, <2>3, TakingKeepsSole
<1>8. CASE Stores(x)
  <2> DEFINE points == PlainPc \cup {"register", "link"}
  <2>1. /\ Takes(x, points, run[x].seen) /\ UNCHANGED execution
        /\ \A e \in Executions : e # Exec(x) => SameRows(e)
    BY <1>8 DEF Stores, SameRows
  <2>2. points \cap UnrunPc = {} /\ points \cap CompletedPc = {}
    BY <1>2
  <2> HIDE DEF points
  <2>3. /\ execution[Exec(x)] # "absent" /\ publications[Exec(x)] = <<>>
        /\ (pc[x] \notin BlindPc => execution[Exec(x)] = run[x].seen)
    BY <1>1, <1>8 DEF Stores, Holds, CoordinatorPc
  <2>4. pc'[x] \notin CompletedPc
    BY <2>1, <2>2, Taking
  <2> QED BY <1>1, <2>1, <2>2, <2>3, <2>4, TakingKeepsSole
<1> QED BY <1>3, <1>5, <1>6, <1>7, <1>8

LEMMA RewritingIsSame ==
  ASSUME AutoTypeOK, NEW e \in Executions, NEW n \in DOMAIN publications[e],
         NEW p \in Publication, Changes(e, n, p), NEW f \in Executions
  PROVE  publications'[f] = <<>> <=> publications[f] = <<>>
<1>1. /\ publications[f] \in Seq(Publication) /\ publications'[f] \in Seq(Publication)
      /\ Len(publications'[f]) = Len(publications[f])
  BY ChangesTyped DEF AutoTypeOK
<1> QED BY <1>1, EmptySeq

LEMMA CoordinatorKeepsSole ==
  ASSUME AutoTypeInv, AutoTypeInv', IdleHasNone, Sole, NEW x \in Procs,
         CoordinatorStep(x) \/ CoordinatorFault(x)
  PROVE  IdleHasNone' /\ Sole'
<1> USE DEF AutoTypeInv
<1>1. /\ Coordinates(x) /\ pc[x] # "idle" /\ Exec(x) \in Executions /\ Holds(x)
      /\ UNCHANGED <<execution, products, artifacts, queue>>
      /\ Return(x) \/ \E point \in CoordinatorPc : Proceed(x, point, run[x])
  BY CoordinatorCoordinates, CoordinatorMoves DEF Coordinates, tables, Sole
<1>2. pc[x] \in CompletedPc /\ pc[x] \notin BlindPc /\ CoordinatorPc \cap BlindPc = {}
  BY <1>1, PointsApart DEF Coordinates, CompletedPc
<1> DEFINE points == CoordinatorPc \cup EndPc
<1>3. Takes(x, points, run[x].seen)
  <2>1. run[x] \in Run /\ Keeps(x, run[x], run[x].seen)
    BY <1>1, OwnKeeps
  <2>2. CoordinatorPc \subseteq points \ {"idle", "finished"} /\ EndPc \subseteq points
    BY DEF CoordinatorPc
  <2> HIDE DEF points
  <2> QED BY <1>1, <1>2, <2>1, <2>2, GoingTakes, LeavingTakes
<1>4. points \cap UnrunPc = {}
  BY DEF UnrunPc, CoordinatorPc, EndPc
<1> HIDE DEF points
<1>5. \A e \in Executions : e # Exec(x) => SameRows(e)
  <2> SUFFICES ASSUME NEW e \in Executions, e # Exec(x)
               PROVE  publications'[e] = <<>> <=> publications[e] = <<>>
    BY <1>1 DEF SameRows
  <2>1. CASE UNCHANGED publications
    BY <2>1
  <2>2. CASE Insert(Exec(x), target[x]) /\ target[x] \in Nat
    BY <1>1, <2>2, InsertAppends
  <2>3. ASSUME NEW n \in DOMAIN publications[Exec(x)], NEW p \in Publication,
               Changes(Exec(x), n, p)
        PROVE  publications'[e] = <<>> <=> publications[e] = <<>>
    BY <1>1, <2>3 DEF Changes, AutoTypeOK
  <2> QED BY <2>1, <2>2, <2>3, CoordinatorPublishes
<1>6. /\ execution[Exec(x)] = "COMPLETED" /\ pc'[x] \in CoordinatorPc \cup {"idle", "finished"}
      /\ execution[Exec(x)] = run[x].seen
  BY <1>1, <1>2, CoordinatorLocals DEF Holds
<1> QED BY <1>1, <1>3, <1>4, <1>5, <1>6, TakingKeepsSole

\* Without any further condition: whoever becomes idle drops his execution.
LEMMA IdleStaysWithout ==
  ASSUME AutoTypeInv, IdleHasNone, [AutoNext]_autoVars
  PROVE  IdleHasNone'
<1> USE DEF AutoTypeInv
<1>1. ASSUME NEW x \in Procs, NEW point, NEW r, Proceed(x, point, r),
             point = "idle" => r.exec = NoExecution
      PROVE  IdleHasNone'
  <2>1. \A y \in Procs : /\ pc'[y] = IF y = x THEN point ELSE pc[y]
                         /\ run'[y] = IF y = x THEN r ELSE run[y]
    BY <1>1 DEF TypeInv, TypeOK, Proceed
  <2> QED BY <1>1, <2>1 DEF IdleHasNone, Exec
<1>2. IdleRun.exec = NoExecution
  BY DEF IdleRun
<1>3. ASSUME UNCHANGED <<pc, run>> PROVE IdleHasNone'
  BY <1>3 DEF IdleHasNone, Exec
<1>4. CASE RunNext
  <2>1. ASSUME NEW x \in Procs, NEW points, NEW seen, Takes(x, points, seen) PROVE IdleHasNone'
    BY <1>1, <1>2, <2>1 DEF Takes
  <2>2. ASSUME NEW x \in Procs,
               \/ \E e \in Executions : RequestRun(x, e) \/ EnqueueWorkflow(x, e) \/ Deliver(x, e)
               \/ Dispatch(x) \/ Load(x) \/ WorkerCrash(x)
        PROVE  IdleHasNone'
    BY <1>1, <1>2, <2>2 DEF RequestRun, EnqueueWorkflow, Deliver, Dispatch, Load, WorkerCrash, Leave
  <2>3. CASE Resends
    BY <1>3, <2>3 DEF Resends
  <2>4. ASSUME NEW x \in Procs,
               Quietly(x) \/ Completes(x) \/ Restates(x) \/ Closes(x) \/ Stores(x)
        PROVE  IdleHasNone'
    BY <2>1, <2>4 DEF Quietly, Completes, Restates, Writes, Closes, Stores
  <2>5. Workers \subseteq Procs
    BY DEF Procs
  <2> QED BY <1>4, <2>2, <2>3, <2>4, <2>5, RuntimeSteps
<1>5. ASSUME NEW x \in Procs, CoordinatorStep(x) \/ CoordinatorFault(x) PROVE IdleHasNone'
  <2>1. Return(x) \/ \E point \in CoordinatorPc : Proceed(x, point, run[x])
    BY <1>5, CoordinatorCoordinates, CoordinatorMoves
  <2> QED BY <1>1, <1>2, <2>1 DEF Return, Leave, CoordinatorPc
<1> QED BY <1>3, <1>4, <1>5 DEF AutoNext, RuntimeStep, PublicationMoves, autoVars, vars

LEMMA NextKeepsSole == AutoTypeInv /\ SoleInv /\ [AutoNext]_autoVars => SoleInv'
<1> SUFFICES ASSUME AutoTypeInv, SoleInv, [AutoNext]_autoVars PROVE SoleInv'
  OBVIOUS
<1> USE DEF AutoTypeInv
<1>0. /\ AutoTypeInv' /\ IdleHasNone
      /\ RanOnce' => Sole /\ UNCHANGED <<workerCrashes, extraMessages>>
  BY AutoStepTyped, CrashesStay DEF SoleInv
<1>1. ASSUME UNCHANGED <<pc, run>>, \A e \in Executions : SameRows(e) PROVE SoleInv'
  <2>1. IdleHasNone'
    BY <1>0, <1>1 DEF IdleHasNone, Exec
  <2>2. ASSUME Sole PROVE Sole'
    <3>1. Alone'
      BY <1>1, <2>2 DEF Sole, Alone, Exec
    <3>2. \A e \in Executions : Waits(e)'
      BY <1>1, <2>2, SameRowsWait DEF Sole
    <3>3. \A y \in Procs : Holds(y)'
      BY <1>1, <2>2, SameRowsHold, BusyRuns DEF Sole
    <3> QED BY <3>1, <3>2, <3>3 DEF Sole
  <2> QED BY <1>0, <2>1, <2>2 DEF SoleInv
<1>2. IdleHasNone'
  BY <1>0, IdleStaysWithout
<1> SUFFICES ASSUME RanOnce' PROVE Sole'
  BY <1>2 DEF SoleInv
<1>3. Sole /\ UNCHANGED <<workerCrashes, extraMessages>> /\ IdleHasNone
  BY <1>0
<1>4. CASE RuntimeStep
  <2>0. RunNext /\ UNCHANGED publications
    BY <1>4 DEF RuntimeStep
  <2>1. ~Resends /\ \A w \in Workers : ~WorkerCrash(w)
    BY <1>3, NothingSpent
  <2>2. PICK x \in Procs :
              \/ \E e \in Executions : RequestRun(x, e) \/ EnqueueWorkflow(x, e) \/ Deliver(x, e)
              \/ Dispatch(x) \/ Load(x)
              \/ Quietly(x) \/ Completes(x) \/ Restates(x) \/ Closes(x) \/ Stores(x)
    BY <2>0, <2>1, RuntimeSteps
  <2> QED BY <1>3, <2>0, <2>2, EnteringKeepsSole, DispatchKeepsSole, LoadKeepsSole,
             RuntimeTakesSole
<1>5. ASSUME NEW x \in Procs, CoordinatorStep(x) \/ CoordinatorFault(x) PROVE Sole'
  BY <1>0, <1>3, <1>5, CoordinatorKeepsSole
<1>6. ASSUME NEW e \in Executions, NEW n \in DOMAIN publications[e], PublicationMoves(e, n)
      PROVE  Sole'
  <2>1. PICK to \in PublicationStatuses \ {"PENDING"} :
          /\ [publications[e][n] EXCEPT !.status = to] \in Publication
          /\ Changes(e, n, [publications[e][n] EXCEPT !.status = to])
    BY <1>6, WorkerMoves
  <2>2. \A f \in Executions : publications'[f] = <<>> <=> publications[f] = <<>>
    BY <2>1, RewritingIsSame
  <2>3. UNCHANGED <<pc, run>> /\ \A f \in Executions : SameRows(f)
    BY <1>6, <2>2 DEF PublicationMoves, vars, tables, SameRows
  <2> QED BY <1>1, <2>3 DEF SoleInv
<1>7. CASE UNCHANGED autoVars
  BY <1>1, <1>7 DEF autoVars, vars, tables, SameRows, SoleInv
<1> QED BY <1>4, <1>5, <1>6, <1>7 DEF AutoNext

(* Without a lost worker or a second message, an execution is at every moment   *)
(* in one place: its message with the broker or one process; so the status its  *)
(* session has seen is the stored one.                                         *)
THEOREM SoleInvariant == AutoSpec => []SoleInv
<1>1. AutoInit => SoleInv
  <2> SUFFICES ASSUME AutoInit PROVE SoleInv
    OBVIOUS
  <2>1. \A x \in Procs : pc[x] = "idle" /\ Exec(x) = NoExecution
    BY DEF AutoInit, Init, IdleRun, Exec
  <2>2. \A e \in Executions : Waits(e)
    BY DEF AutoInit, Init, Waits, Untouched
  <2> QED BY <2>1, <2>2 DEF SoleInv, IdleHasNone, Sole, Alone, Holds
<1> QED BY <1>1, NextKeepsSole, AutoTypeInvariant, PTL DEF AutoSpec

(* An execution that was handed over is at rest, or with its coordinator.      *)

Rests(e) ==
  /\ execution[e] = "COMPLETED" /\ queue[e] = 0
  /\ \A x \in Procs : Exec(x) = e /\ pc[x] # "idle" => pc[x] \in DonePc

HandedInv == RanOnce => \A e \in handed : Rests(e)

\* The rows of a resting execution stay, and so do all who have to do with it.
LEMMA UndisturbedRests ==
  ASSUME NEW e, Rests(e), execution'[e] = execution[e], queue'[e] = queue[e],
         NEW x \in Procs, \A y \in Procs \ {x} : pc'[y] = pc[y] /\ run'[y] = run[y],
         pc'[x] \in DonePc \cup {"idle"} \/ Exec(x)' # e
  PROVE  Rests(e)'
  BY DEF Rests, Exec

\* A step of the runtime that is no coordinator's finds nothing to do with it.
LEMMA RuntimeLetsRest ==
  ASSUME AutoTypeInv, IdleHasNone, NEW e \in Executions, Rests(e), NEW x \in Procs,
         \/ \E f \in Executions : RequestRun(x, f) \/ EnqueueWorkflow(x, f) \/ Deliver(x, f)
         \/ Dispatch(x) \/ Load(x)
         \/ Quietly(x) \/ Completes(x) \/ Restates(x) \/ Closes(x) \/ Stores(x)
  PROVE  Rests(e)'
<1> USE DEF AutoTypeInv
<1>1. /\ pc = [y \in Procs |-> pc[y]] /\ run = [y \in Procs |-> run[y]]
      /\ execution = [f \in Executions |-> execution[f]] /\ queue = [f \in Executions |-> queue[f]]
      /\ NoExecution \notin Executions /\ IdleRun.exec = NoExecution
  BY NoExecutionAssumption DEF TypeInv, TypeOK, IdleRun
<1>2. ASSUME NEW f \in Executions, RequestRun(x, f) \/ EnqueueWorkflow(x, f) \/ Deliver(x, f)
      PROVE  Rests(e)'
  <2>1. f # e
    BY <1>2 DEF Rests, RequestRun, EnqueueWorkflow, Deliver
  <2>2. execution'[e] = execution[e] /\ queue'[e] = queue[e]
    BY <1>1, <1>2, <2>1 DEF RequestRun, EnqueueWorkflow, Deliver, tables
  <2>3. \E point : \E r : Proceed(x, point, r) /\ r.exec = f
    <3>1. /\ \A status : FreshRun(f, status).exec = f
          /\ [IdleRun EXCEPT !.exec = f].exec = f
      BY DEF FreshRun, IdleRun
    <3> QED BY <1>2, <3>1 DEF RequestRun, EnqueueWorkflow, Deliver
  <2>4. Exec(x)' = f /\ \A y \in Procs \ {x} : pc'[y] = pc[y] /\ run'[y] = run[y]
    BY <1>1, <2>3 DEF Proceed, Exec
  <2> QED BY <2>1, <2>2, <2>4, UndisturbedRests
<1>3. ASSUME Dispatch(x) \/ Load(x) PROVE Rests(e)'
  <2>1. Exec(x) # e
    BY <1>3 DEF Dispatch, Load, AtDb, Rests, DonePc, CoordinatorPc
  <2>2. execution'[e] = execution[e] /\ queue'[e] = queue[e]
    BY <1>1, <1>3, <2>1 DEF Dispatch, Load, SendTask, tables
  <2>3. \E point : \E r : Proceed(x, point, r) /\ r.exec \in {Exec(x), NoExecution}
    <3>1. \A f, status : FreshRun(f, status).exec = f
      BY DEF FreshRun, IdleRun
    <3> QED BY <1>1, <1>3, <3>1 DEF Dispatch, Load, Leave
  <2>4. /\ Exec(x)' \in {Exec(x), NoExecution}
        /\ \A y \in Procs \ {x} : pc'[y] = pc[y] /\ run'[y] = run[y]
    BY <1>1, <2>3 DEF Proceed, Exec
  <2> QED BY <1>1, <2>1, <2>2, <2>4, UndisturbedRests
<1>4. CASE Quietly(x)
  <2>1. execution'[e] = execution[e] /\ queue'[e] = queue[e]
    BY <1>4 DEF Quietly, Untold
  <2>2. Exec(x) = e => pc'[x] = "idle"
    BY <1>4 DEF Quietly, Rests
  <2>3. /\ Exec(x)' \in {Exec(x), NoExecution}
        /\ \A y \in Procs \ {x} : pc'[y] = pc[y] /\ run'[y] = run[y]
    BY <1>4, Taking DEF Quietly, Keeps, Exec
  <2> QED BY <1>1, <2>1, <2>2, <2>3, UndisturbedRests
<1>5. CASE Completes(x) \/ Restates(x) \/ Closes(x) \/ Stores(x)
  <2>1. pc[x] # "idle" /\ pc[x] \notin DonePc
    BY <1>5 DEF Completes, Restates, Writes, Closes, Stores, BlindPc, CompletedPc, DonePc,
                CoordinatorPc
  <2>2. Exec(x) # e
    BY <2>1 DEF Rests
  <2>3. execution'[e] = execution[e] /\ queue'[e] = queue[e]
    BY <1>1, <1>5, <2>2 DEF Completes, Restates, Writes, SetExecution, Closes, Untold, Stores
  <2>4. PICK points, seen : Takes(x, points, seen)
    BY <1>5 DEF Completes, Restates, Writes, Closes, Stores
  <2>5. /\ Exec(x)' \in {Exec(x), NoExecution}
        /\ \A y \in Procs \ {x} : pc'[y] = pc[y] /\ run'[y] = run[y]
    BY <2>4, Taking DEF Keeps, Exec
  <2> QED BY <1>1, <2>2, <2>3, <2>5, UndisturbedRests
<1> QED BY <1>2, <1>3, <1>4, <1>5

LEMMA NextRests ==
  AutoTypeInv /\ SoleInv /\ HandedInv /\ [AutoNext]_autoVars => HandedInv'
<1> SUFFICES ASSUME AutoTypeInv, SoleInv, HandedInv, [AutoNext]_autoVars, RanOnce',
                    NEW e \in handed'
             PROVE  Rests(e)'
  BY DEF HandedInv
<1> USE DEF AutoTypeInv
<1>1. /\ RanOnce /\ UNCHANGED <<workerCrashes, extraMessages>>
      /\ AutoTypeInv' /\ IdleHasNone /\ Sole' /\ \A f \in handed : Rests(f)
      /\ e \in Executions
  <2>1. AutoTypeInv' /\ SoleInv'
    BY AutoStepTyped, NextKeepsSole
  <2> QED BY <2>1, CrashesStay DEF SoleInv, HandedInv, AutoTypeOK
<1>2. CASE RuntimeStep
  <2>1. CASE e \in handed
    <3>1. ~Resends /\ \A w \in Workers : ~WorkerCrash(w)
      BY <1>1, NothingSpent
    <3>2. RunNext
      BY <1>2 DEF RuntimeStep
    <3> QED BY <1>1, <2>1, <3>1, <3>2, RuntimeSteps, RuntimeLetsRest
  <2>2. CASE e \notin handed
    <3>1. PICK x \in Procs : pc'[x] = "handover" /\ Exec(x)' = e
      BY <1>2, <2>2 DEF RuntimeStep
    <3>2. execution'[e] = "COMPLETED" /\ queue'[e] = 0
      BY <1>1, <3>1, PointsApart DEF Sole, Holds, CompletedPc, Exec
    <3>3. \A y \in Procs : Exec(y)' = e => y = x
      BY <1>1, <3>1 DEF Sole, Alone, Exec
    <3> QED BY <3>1, <3>2, <3>3 DEF Rests, DonePc, Exec
  <2> QED BY <2>1, <2>2
<1>3. ASSUME NEW x \in Procs, CoordinatorStep(x) \/ CoordinatorFault(x) PROVE Rests(e)'
  <2>1. Coordinates(x)
    BY <1>3, CoordinatorCoordinates
  <2>2. Rests(e) /\ UNCHANGED <<execution, queue>>
    BY <1>1, <2>1 DEF Coordinates, tables
  <2>3. /\ \A y \in Procs \ {x} : pc'[y] = pc[y] /\ run'[y] = run[y]
        /\ pc'[x] \in DonePc \cup {"idle"}
    BY <2>1, CoordinatorLocals DEF DonePc
  <2> QED BY <2>2, <2>3, UndisturbedRests
<1>4. ASSUME UNCHANGED <<vars, handed>> PROVE Rests(e)'
  BY <1>1, <1>4 DEF vars, tables, Rests, Exec
<1> QED BY <1>2, <1>3, <1>4 DEF AutoNext, PublicationMoves, autoVars

(* Whatever fails once a run has announced its success and the coordinator was   *)
(* called - the database, the broker, an answer, the process of a request -     *)
(* the execution stays COMPLETED, whether or not a publication comes of it, as  *)
(* long as it is not run again.                                                *)
THEOREM KeepsCompleted == AutoSpec => []PublishingKeepsCompleted
<1>1. AutoInit => HandedInv
  BY DEF AutoInit, HandedInv
<1>2. HandedInv => PublishingKeepsCompleted
  BY DEF HandedInv, Rests, PublishingKeepsCompleted
<1> QED BY <1>1, <1>2, NextRests, AutoTypeInvariant, SoleInvariant, PTL DEF AutoSpec

LEMMA AutoInitWork == AutoInit => WorkInv
  BY InitWork DEF AutoInit

LEMMA AutoNextKeepsWork == AutoTypeInv /\ WorkInv /\ [AutoNext]_autoVars => WorkInv'
<1> SUFFICES ASSUME AutoTypeInv, WorkInv, [AutoNext]_autoVars PROVE WorkInv'
  OBVIOUS
<1>1. CASE RuntimeStep \/ UNCHANGED vars
  BY <1>1, NextKeepsWork DEF RuntimeStep, Next, AutoTypeInv
<1>2. ASSUME NEW x \in Procs, CoordinatorStep(x) \/ CoordinatorFault(x) PROVE WorkInv'
  BY <1>2, CoordinatorCoordinates, CoordinatorMoves, GlidingKeepsWork DEF AutoTypeInv
<1> QED BY <1>1, <1>2 DEF AutoNext, PublicationMoves, autoVars

\* The job accounts of a run hold with the coordinator, which touches no job.
THEOREM AutoWorkInvariant == AutoSpec => []WorkInv
  BY AutoInitWork, AutoNextKeepsWork, AutoTypeInvariant, PTL DEF AutoSpec

\* What a final medium of an execution depends on.
LEMMA FinalStays ==
  ASSUME NEW e \in Executions, NEW asset, Final(e, asset),
         products'[e] = products[e], artifacts'[e] = artifacts[e], jobs'[e] = jobs[e]
  PROVE  Final(e, asset)'
  BY DEF Final

LEMMA LinkedStays ==
  ASSUME NEW e \in Executions, Linked(e),
         products'[e] = products[e], artifacts'[e] = artifacts[e]
  PROVE  Linked(e)'
  BY DEF Linked

\* A process and its media are as they were.
LEMMA OtherMedia ==
  ASSUME TypeInv, NEW y \in Procs, OwnMedia(y), Newest(y), Selected(y),
         pc'[y] = pc[y], run'[y] = run[y],
         pc[y] # "idle" => /\ target'[y] = target[y]
                           /\ products'[Exec(y)] = products[Exec(y)]
                           /\ artifacts'[Exec(y)] = artifacts[Exec(y)]
                           /\ jobs'[Exec(y)] = jobs[Exec(y)]
  PROVE  OwnMedia(y)' /\ Newest(y)' /\ Selected(y)'
<1>1. CASE pc[y] = "idle"
  BY <1>1 DEF OwnMedia, Newest, Selected, BlindPc
<1>2. CASE pc[y] # "idle"
  <2>1. Exec(y)' = Exec(y) /\ Exec(y) \in Executions
    BY <1>2, BusyRuns DEF Exec
  <2> QED BY <1>2, <2>1 DEF OwnMedia, Newest, Selected, Final
<1> QED BY <1>1, <1>2

(* A step of a process x that leaves the publications alone, the media and jobs *)
(* of the other executions, and its own media.                                *)
LEMMA TakingKeepsMedia ==
  ASSUME AutoTypeInv, IdleHasNone, Sole, Media, NEW x \in Procs, pc[x] # "idle",
         NEW points, NEW seen, Takes(x, points, seen),
         pc'[x] \notin {"register", "link", "create_publication"},
         UNCHANGED <<products, artifacts, publications>>, OwnJobsOnly(x),
         \A y \in Procs \ {x} : pc[y] # "idle" => target'[y] = target[y],
         publications[Exec(x)] # <<>> => UNCHANGED jobs
  PROVE  Media'
<1> USE DEF AutoTypeInv
<1>1. /\ Exec(x) \in Executions
      /\ \A y \in Procs \ {x} : pc[y] # "idle" => Exec(y) # Exec(x) /\ Exec(y) \in Executions
  BY AloneWith DEF Sole
<1>2. /\ \A y \in Procs \ {x} : pc'[y] = pc[y] /\ run'[y] = run[y]
      /\ pc'[x] \in points
      /\ \/ pc'[x] = "idle"
         \/ pc'[x] = "finished"
         \/ pc[x] \notin BlindPc /\ Keeps(x, run'[x], seen)
  BY Taking
<1>3. ASSUME NEW e \in Executions PROVE Linked(e)' /\ Issued(e)'
  <2>1. Linked(e)'
    BY LinkedStays DEF Media
  <2>2. DOMAIN publications[e] # {} => jobs'[e] = jobs[e]
    <3>1. DOMAIN publications[e] # {} => publications[e] # <<>>
      OBVIOUS
    <3> QED BY <1>1, <3>1 DEF OwnJobsOnly
  <2> QED BY <2>1, <2>2, FinalStays DEF Media, Issued
<1>4. ASSUME NEW y \in Procs PROVE OwnMedia(y)' /\ Newest(y)' /\ Selected(y)'
  <2>1. CASE y = x
    <3>1. Newest(x)' /\ Selected(x)'
      BY <1>2 DEF Newest, Selected
    <3>2. OwnMedia(x)'
      BY <1>2 DEF OwnMedia, Media, Keeps, Exec, BlindPc
    <3> QED BY <2>1, <3>1, <3>2
  <2> QED BY <1>1, <1>2, <2>1, OtherMedia DEF Media, OwnJobsOnly
<1> QED BY <1>3, <1>4 DEF Media

(* A step that begins a run, or ends a request without one.                    *)
LEMMA ComingKeepsMedia ==
  ASSUME AutoTypeInv, Media, NEW x \in Procs,
         UNCHANGED <<products, artifacts, publications, jobs>>,
         \A y \in Procs \ {x} : /\ pc'[y] = pc[y] /\ run'[y] = run[y]
                                /\ pc[y] # "idle" => target'[y] = target[y],
         pc'[x] \in {"idle", "dispatch", "load", "start", "reject"},
         pc'[x] \in {"start", "reject"} => products[run'[x].exec] = <<>>
  PROVE  Media'
<1>1. ASSUME NEW e \in Executions PROVE Linked(e)' /\ Issued(e)'
  BY LinkedStays, FinalStays DEF Media, Issued
<1>2. ASSUME NEW y \in Procs PROVE OwnMedia(y)' /\ Newest(y)' /\ Selected(y)'
  <2>1. CASE y = x
    <3>1. Newest(x)' /\ Selected(x)'
      BY DEF Newest, Selected
    <3>2. pc'[x] \in {"start", "reject"} => DOMAIN products[run'[x].exec] = {}
      OBVIOUS
    <3>3. OwnMedia(x)'
      BY <3>2 DEF OwnMedia, Exec, BlindPc
    <3> QED BY <2>1, <3>1, <3>3
  <2> QED BY <2>1, OtherMedia DEF Media, AutoTypeInv
<1> QED BY <1>1, <1>2 DEF Media

(* A step of a run that stores, registers or links a medium.                   *)
LEMMA StoringKeepsMedia ==
  ASSUME AutoTypeInv, IdleHasNone, Sole, Media, NEW x \in Procs, Stores(x),
         UNCHANGED publications,
         \A y \in Procs \ {x} : pc[y] # "idle" => target'[y] = target[y],
         NEW own \in Executions, own = Exec(x), Linked(own)', OwnMedia(x)', Newest(x)'
  PROVE  Media'
<1> USE DEF AutoTypeInv
<1>1. /\ pc[x] \in {"operate", "register", "link"} /\ pc[x] # "idle" /\ UNCHANGED jobs
      /\ Takes(x, PlainPc \cup {"register", "link"}, run[x].seen)
      /\ \A e \in Executions :
           e # Exec(x) => products'[e] = products[e] /\ artifacts'[e] = artifacts[e]
  BY DEF Stores
<1>2. /\ Exec(x) \in Executions
      /\ \A y \in Procs \ {x} : pc[y] # "idle" => Exec(y) # Exec(x) /\ Exec(y) \in Executions
  BY <1>1, AloneWith DEF Sole
<1>3. /\ \A y \in Procs \ {x} : pc'[y] = pc[y] /\ run'[y] = run[y]
      /\ pc'[x] # "create_publication"
  BY <1>1, Taking DEF PlainPc, CompletedPc, CoordinatorPc
<1>4. publications[Exec(x)] = <<>>
  BY <1>1 DEF Sole, Holds, CoordinatorPc
<1>5. ASSUME NEW e \in Executions PROVE Linked(e)' /\ Issued(e)'
  <2>1. CASE e = Exec(x)
    <3>1. DOMAIN publications'[e] = {}
      BY <1>4, <2>1
    <3>2. Issued(e)'
      BY <3>1 DEF Issued
    <3> QED BY <2>1, <3>2
  <2>2. CASE e # Exec(x)
    BY <1>1, <2>2, LinkedStays, FinalStays DEF Media, Issued
  <2> QED BY <2>1, <2>2
<1>6. ASSUME NEW y \in Procs PROVE OwnMedia(y)' /\ Newest(y)' /\ Selected(y)'
  <2>1. CASE y = x
    BY <1>3, <2>1 DEF Selected
  <2> QED BY <1>1, <1>2, <1>3, <2>1, OtherMedia DEF Media
<1> QED BY <1>5, <1>6 DEF Media

LEMMA MediaTypes ==
  ASSUME TypeInv, NEW e \in Executions
  PROVE  /\ products[e] \in Seq(Product) /\ Len(products[e]) \in Nat
         /\ DOMAIN products[e] = 1..Len(products[e])
         /\ artifacts[e] \in Seq(Nat) /\ Len(artifacts[e]) \in Nat
         /\ DOMAIN artifacts[e] = 1..Len(artifacts[e])
         /\ \A k \in DOMAIN artifacts[e] : artifacts[e][k] \in Nat
<1>1. products[e] \in Seq(Product) /\ artifacts[e] \in Seq(Nat)
  BY TablesTyped DEF TablesOK
<1> QED BY <1>1, LenProperties, ElementOfSeq

\* A run that leaves no medium behind, or comes out of the handling of one.
LEMMA PlainKeepsMedia ==
  ASSUME AutoTypeInv, IdleHasNone, Sole, Media, NEW x \in Procs, Stores(x),
         UNCHANGED <<products, artifacts, publications>>, pc'[x] \notin {"register", "link"},
         \A y \in Procs \ {x} : pc[y] # "idle" => target'[y] = target[y]
  PROVE  Media'
<1>1. /\ pc[x] # "idle" /\ UNCHANGED jobs /\ OwnJobsOnly(x)
      /\ Takes(x, PlainPc \cup {"register", "link"}, run[x].seen)
  BY DEF Stores, OwnJobsOnly
<1>2. pc'[x] # "create_publication"
  BY <1>1, Taking DEF PlainPc, CompletedPc, CoordinatorPc, AutoTypeInv
<1> QED BY <1>1, <1>2, TakingKeepsMedia

LEMMA OperateKeepsMedia ==
  ASSUME AutoTypeInv, WorkInv, IdleHasNone, Sole, Media, NEW x \in Procs, Stores(x), Operate(x),
         UNCHANGED publications,
         \A y \in Procs \ {x} : pc[y] # "idle" => target'[y] = target[y]
  PROVE  Media'
<1> USE DEF AutoTypeInv
<1>0. PICK e \in Executions : e = Exec(x)
  BY BusyRuns DEF Operate
<1> DEFINE n == Len(products[e]) + 1
           medium == [kind |-> Step(x).operation, registered |-> FALSE, job |-> run[x].job]
           r == [run[x] EXCEPT !.product = n]
<1>1. /\ e = Exec(x) /\ run[x] \in Run /\ pc[x] = "operate" /\ UNCHANGED artifacts
      /\ run'[x].exec = e \/ pc'[x] \in {"idle", "finished"}
  <2>1. pc[x] = "operate" /\ pc[x] # "idle" /\ Takes(x, PlainPc \cup {"register", "link"}, run[x].seen)
    BY DEF Operate, Stores
  <2> QED BY <1>0, <2>1, BusyRuns, Taking DEF Operate, Keeps
<1>2. CASE UNCHANGED products /\ (Proceed(x, "complete_job", run[x]) \/ Fail(x))
  <2>1. pc'[x] \in {"complete_job", "fail_step"}
    BY <1>1, <1>2 DEF Fail, Raise, Proceed, TryPc, TypeInv, TypeOK
  <2> QED BY <1>1, <1>2, <2>1, PlainKeepsMedia
<1>3. CASE /\ Step(x).operation \in {"image", "video"}
           /\ products' = Write(products, x, medium)
           /\ Proceed(x, "register", r)
  <2>1. run[x].job \in run[x].mine /\ run[x].job \in Nat
    <3>1. Accounts(x) /\ "operate" \in WorkPc
      BY DEF WorkInv, WorkPc, ItemPc
    <3> QED BY <1>1, <3>1 DEF Accounts, Run
  <2>2. medium \in Product /\ medium.job = run[x].job
    BY <1>3, <2>1 DEF Product
  <2>3. n \in Nat /\ r \in Run /\ r.product = n /\ r.exec = e /\ r.mine = run[x].mine
    <3>1. n \in Nat
      BY <1>1, MediaTypes
    <3> QED BY <1>1, <3>1 DEF Run, Exec
  <2>4. pc'[x] = "register" /\ run'[x] = r
    BY <1>3 DEF Proceed, TypeInv, TypeOK
  <2> HIDE DEF r, medium
  <2>5. /\ products'[e] \in Seq(Product) /\ Len(products'[e]) = n /\ n > 0
        /\ DOMAIN products'[e] = 1..n /\ DOMAIN products[e] = 1..(n - 1)
        /\ \A k \in 1..(n - 1) : products'[e][k] = products[e][k]
        /\ products'[e][n] = medium
    <3>1. products'[e] = Append(products[e], medium)
      BY <1>1, <1>3, TablesTyped DEF Write, TablesOK
    <3> QED BY <1>1, <2>2, <3>1, MediaTypes, AppendProperties, LenProperties
  <2>6. artifacts'[e] = artifacts[e] /\ \A k \in DOMAIN artifacts[e] :
          artifacts[e][k] \in 1..(n - 1) /\ products[e][artifacts[e][k]].registered
    BY <1>1, <2>5 DEF Media, Linked
  <2> HIDE DEF n
  <2>7. Linked(e)'
    <3>1. \A k, l \in DOMAIN artifacts[e] : k < l => artifacts[e][k] < artifacts[e][l]
      BY <1>1 DEF Media, Linked
    <3>2. \A k \in 1..(n - 1) : k \in 1..n
      BY <2>3
    <3>3. ASSUME NEW k \in DOMAIN artifacts[e]
          PROVE  artifacts[e][k] \in 1..n /\ products'[e][artifacts[e][k]].registered
      BY <2>5, <2>6, <3>2
    <3> QED BY <2>5, <2>6, <3>1, <3>3 DEF Linked
  <2>8. Exec(x)' = e
    BY <2>3, <2>4 DEF Exec
  <2>9. OwnMedia(x)'
    <3>1. \A k \in DOMAIN products[e] : products[e][k].job \in run[x].mine
      BY <1>1 DEF Media, OwnMedia, BlindPc
    <3>2. \A k \in 1..n : products'[e][k].job \in run[x].mine
      <4>1. \A k \in 1..n : k \in 1..(n - 1) \/ k = n
        BY <2>3
      <4> QED BY <1>1, <2>1, <2>2, <2>5, <3>1, <4>1
    <3> QED BY <2>3, <2>4, <2>5, <2>8, <3>2 DEF OwnMedia
  <2>10. Newest(x)'
    <3>1. \A k \in DOMAIN artifacts'[e] : artifacts'[e][k] < n
      BY <2>3, <2>6
    <3>2. n \in 1..n
      BY <2>3, <2>5
    <3> QED BY <2>3, <2>4, <2>5, <2>8, <3>1, <3>2 DEF Newest
  <2> QED BY <1>1, <2>7, <2>9, <2>10, StoringKeepsMedia
<1> QED BY <1>0, <1>2, <1>3 DEF Operate

\* Register and Link go on, or into the handling of an exception.
LEMMA AfterStoring ==
  ASSUME TypeInv, NEW x \in Procs, pc[x] \in TryPc, NEW point,
         Proceed(x, point, run[x]) \/ LoseAnswer(x, run[x])
  PROVE  (pc'[x] = point /\ run'[x] = run[x]) \/ pc'[x] = "fail_step"
  BY DEF LoseAnswer, Raise, Proceed, TypeInv, TypeOK

LEMMA RegisterKeepsMedia ==
  ASSUME AutoTypeInv, IdleHasNone, Sole, Media, NEW x \in Procs, Stores(x), Register(x),
         UNCHANGED publications,
         \A y \in Procs \ {x} : pc[y] # "idle" => target'[y] = target[y]
  PROVE  Media'
<1> USE DEF AutoTypeInv
<1>0. PICK e \in Executions : e = Exec(x)
  BY BusyRuns DEF Register, AtDb
<1> DEFINE n == run[x].product
           medium == [products[e][n] EXCEPT !.registered = TRUE]
<1>1. /\ pc[x] = "register" /\ pc[x] \in TryPc /\ UNCHANGED artifacts
      /\ products' = [products EXCEPT ![e] = [products[e] EXCEPT ![n] = medium]]
      /\ Takes(x, PlainPc \cup {"register", "link"}, run[x].seen)
  BY <1>0 DEF Register, AtDb, Stores, TryPc
<1>2. /\ n = Len(products[e]) /\ n \in DOMAIN products[e] /\ n \in Nat
      /\ \A k \in DOMAIN artifacts[e] : artifacts[e][k] < n
      /\ \A k \in DOMAIN products[e] : products[e][k].job \in run[x].mine
      /\ Linked(e)
  BY <1>0, <1>1, MediaTypes DEF Media, Newest, OwnMedia, BlindPc
<1>3. medium \in Product /\ medium.registered /\ medium.job = products[e][n].job
  <2>1. products[e][n] \in Product
    BY <1>2, MediaTypes, ElementOfSeq
  <2> QED BY <2>1 DEF Product
<1> HIDE DEF medium
<1>4. /\ DOMAIN products'[e] = DOMAIN products[e] /\ Len(products'[e]) = n
      /\ \A k \in DOMAIN products[e] :
           products'[e][k] = IF k = n THEN medium ELSE products[e][k]
  <2> DEFINE g == [products[e] EXCEPT ![n] = medium]
  <2>1. /\ DOMAIN g = DOMAIN products[e] /\ Len(g) = Len(products[e])
        /\ \A k \in DOMAIN products[e] : g[k] = IF k = n THEN medium ELSE products[e][k]
    BY <1>3, MediaTypes, ReplaceTypes
  <2>2. products'[e] = g
    BY <1>1, TablesTyped DEF TablesOK
  <2> HIDE DEF g
  <2> QED BY <1>2, <2>1, <2>2
<1> HIDE DEF n
<1>5. Linked(e)'
  BY <1>1, <1>2, <1>3, <1>4 DEF Linked
<1>6. (pc'[x] = "link" /\ run'[x] = run[x]) \/ pc'[x] = "fail_step"
  BY <1>1, AfterStoring DEF Register
<1>7. OwnMedia(x)'
  <2>1. pc'[x] \notin BlindPc => run'[x].exec = e /\ run[x].mine \subseteq run'[x].mine
    BY <1>0, <1>1, Taking DEF Keeps, BlindPc
  <2>2. \A k \in DOMAIN products'[e] : products'[e][k].job \in run[x].mine
    BY <1>2, <1>3, <1>4
  <2> QED BY <2>1, <2>2 DEF OwnMedia, Exec
<1>8. Newest(x)'
  BY <1>0, <1>1, <1>2, <1>3, <1>4, <1>6 DEF Newest, Exec, n
<1> QED BY <1>0, <1>5, <1>7, <1>8, StoringKeepsMedia

LEMMA LinkKeepsMedia ==
  ASSUME AutoTypeInv, IdleHasNone, Sole, Media, NEW x \in Procs, Stores(x), Link(x),
         UNCHANGED publications,
         \A y \in Procs \ {x} : pc[y] # "idle" => target'[y] = target[y]
  PROVE  Media'
<1> USE DEF AutoTypeInv
<1>0. PICK e \in Executions : e = Exec(x)
  BY BusyRuns DEF Link, AtDb
<1> DEFINE n == run[x].product
           l == Len(artifacts[e])
<1>1. /\ pc[x] = "link" /\ pc[x] \in TryPc /\ UNCHANGED products
      /\ artifacts'[e] = Append(artifacts[e], n)
      /\ Takes(x, PlainPc \cup {"register", "link"}, run[x].seen)
  BY <1>0, TablesTyped DEF Link, AtDb, Stores, TryPc, Write, TablesOK
<1>2. /\ n \in DOMAIN products[e] /\ n \in Nat /\ products[e][n].registered
      /\ \A k \in DOMAIN artifacts[e] : artifacts[e][k] < n
      /\ \A k \in DOMAIN products[e] : products[e][k].job \in run[x].mine
      /\ Linked(e)
  BY <1>0, <1>1, MediaTypes DEF Media, Newest, OwnMedia, BlindPc
<1>3. /\ l \in Nat /\ DOMAIN artifacts[e] = 1..l /\ DOMAIN artifacts'[e] = 1..(l + 1)
      /\ \A k \in 1..l : artifacts'[e][k] = artifacts[e][k]
      /\ artifacts'[e][l + 1] = n
  BY <1>1, <1>2, MediaTypes, AppendProperties, LenProperties
<1> HIDE DEF n, l
<1>4. \A k \in 1..(l + 1) : k \in 1..l \/ k = l + 1
  BY <1>3
<1>5. Linked(e)'
  <2>1. \A k \in DOMAIN artifacts'[e] :
          artifacts'[e][k] \in DOMAIN products'[e] /\ products'[e][artifacts'[e][k]].registered
    BY <1>1, <1>2, <1>3, <1>4 DEF Linked
  <2>2. ASSUME NEW i \in DOMAIN artifacts'[e], NEW j \in DOMAIN artifacts'[e], i < j
        PROVE  artifacts'[e][i] < artifacts'[e][j]
    <3>1. i \in 1..l
      BY <1>3, <2>2
    <3>2. CASE j = l + 1
      BY <1>2, <1>3, <3>1, <3>2
    <3>3. CASE j \in 1..l
      BY <1>2, <1>3, <2>2, <3>1, <3>3 DEF Linked
    <3> QED BY <1>3, <1>4, <3>2, <3>3
  <2> QED BY <2>1, <2>2 DEF Linked
<1>6. (pc'[x] = "presign" /\ run'[x] = run[x]) \/ pc'[x] = "fail_step"
  BY <1>1, AfterStoring DEF Link
<1>7. OwnMedia(x)'
  <2>1. pc'[x] \notin BlindPc => run'[x].exec = e /\ run[x].mine \subseteq run'[x].mine
    BY <1>0, <1>1, Taking DEF Keeps, BlindPc
  <2> QED BY <1>1, <1>2, <2>1 DEF OwnMedia, Exec
<1>8. Newest(x)'
  BY <1>6 DEF Newest
<1> QED BY <1>0, <1>5, <1>7, <1>8, StoringKeepsMedia

\* The last video linked, of an execution whose run completed all of its jobs.
LEMMA SelectedIsFinal ==
  ASSUME AutoTypeInv, WorkInv, Media, NEW x \in Procs, pc[x] = "handover",
         NEW e \in Executions, e = Exec(x), Videos(e) # {}
  PROVE  Final(e, FinalVideo(e))
<1> USE DEF AutoTypeInv
<1>1. PICK n \in Videos(e) : FinalVideo(e) = artifacts[e][n] /\ \A k \in Videos(e) : k <= n
  BY FinalVideoChosen
<1>2. n \in DOMAIN artifacts[e] /\ Linked(e) /\ DOMAIN artifacts[e] \subseteq Nat
  BY MediaTypes DEF Videos, Media
<1>3. /\ FinalVideo(e) \in DOMAIN products[e] /\ products[e][FinalVideo(e)].registered
      /\ FinalVideo(e) \in Nat
  BY <1>1, <1>2, MediaTypes DEF Linked
<1>4. ASSUME NEW k \in DOMAIN artifacts[e], products[e][artifacts[e][k]].kind = "video"
      PROVE  artifacts[e][k] <= FinalVideo(e)
  <2>1. k \in Videos(e)
    BY <1>4 DEF Videos
  <2>2. k \in Nat /\ n \in Nat /\ k <= n /\ artifacts[e][k] \in Nat
    BY <1>1, <1>2, <2>1, MediaTypes
  <2>3. k = n \/ k < n
    BY <2>2
  <2>4. k < n => artifacts[e][k] < artifacts[e][n]
    BY <1>2 DEF Linked
  <2> QED BY <1>1, <1>3, <2>2, <2>3, <2>4
<1>5. jobs[e][products[e][FinalVideo(e)].job].status = "COMPLETED"
  <2>1. products[e][FinalVideo(e)].job \in run[x].mine
    BY <1>3 DEF Media, OwnMedia, BlindPc
  <2>2. Accounts(x) /\ "handover" \in BetweenPc
    BY DEF WorkInv, BetweenPc
  <2> QED BY <2>1, <2>2 DEF Accounts
<1> QED BY <1>3, <1>4, <1>5 DEF Final

\* A publication that is rewritten stays about the same medium.
LEMMA RewritingKeepsIssued ==
  ASSUME AutoTypeOK, NEW e \in Executions, NEW n \in DOMAIN publications[e],
         NEW p \in Publication, Changes(e, n, p), p.asset = publications[e][n].asset,
         UNCHANGED <<products, artifacts, jobs>>, NEW f \in Executions, Issued(f)
  PROVE  Issued(f)'
<1>1. /\ DOMAIN publications'[f] = DOMAIN publications[f]
      /\ \A k \in DOMAIN publications[f] : publications'[f][k].asset = publications[f][k].asset
  BY ChangesTyped
<1> QED BY <1>1, FinalStays DEF Issued

LEMMA CoordinatorIssues ==
  ASSUME AutoTypeInv, Media, NEW x \in Procs, CoordinatorStep(x) \/ CoordinatorFault(x),
         UNCHANGED <<products, artifacts, jobs>>, NEW f \in Executions
  PROVE  Issued(f)'
<1> USE DEF AutoTypeInv
<1>1. CASE UNCHANGED publications
  BY <1>1, FinalStays DEF Media, Issued
<1>2. ASSUME NEW n \in DOMAIN publications[Exec(x)], NEW p \in Publication,
             Changes(Exec(x), n, p), p.asset = publications[Exec(x)][n].asset
      PROVE  Issued(f)'
  <2>1. Exec(x) \in Executions
    BY CoordinatorCoordinates, CoordinatorMoves
  <2> QED BY <1>2, <2>1, RewritingKeepsIssued DEF Media
<1>3. CASE /\ CreatePublication(x) /\ Exec(x) \in Executions /\ target[x] \in Nat
           /\ Insert(Exec(x), target[x])
  <2>1. PICK e \in Executions : e = Exec(x)
    BY <1>3
  <2>2. Final(e, target[x]) /\ Issued(f)
    BY <1>3, <2>1 DEF CreatePublication, Media, Selected
  <2>3. PICK asset \in Nat : asset = target[x]
    BY <1>3
  <2>4. Final(e, asset)'
    BY <2>2, <2>3, FinalStays
  <2>5. \A k \in DOMAIN publications'[f] :
          \/ k \in DOMAIN publications[f] /\ publications'[f][k] = publications[f][k]
          \/ f = e /\ publications'[f][k].asset = asset
    <3>1. Insert(e, asset)
      BY <1>3, <2>1, <2>3
    <3>2. CASE f # e
      BY <3>1, <3>2, InsertAppends
    <3>3. CASE f = e
      <4>1. Draft(asset).asset = asset
        BY DEF Draft
      <4> DEFINE n == Len(publications[e]) + 1
      <4>2. /\ DOMAIN publications'[e] = DOMAIN publications[e] \cup {n}
            /\ publications'[e][n] = Draft(asset)
            /\ \A k \in DOMAIN publications[e] : publications'[e][k] = publications[e][k]
        BY <3>1, InsertAppends
      <4> HIDE DEF n
      <4> QED BY <3>3, <4>1, <4>2
    <3> QED BY <3>2, <3>3
  <2> QED BY <2>2, <2>4, <2>5, FinalStays DEF Issued
<1> QED BY <1>1, <1>2, <1>3, CoordinatorPublishes

LEMMA CoordinatorKeepsMedia ==
  ASSUME AutoTypeInv, WorkInv, Media, NEW x \in Procs, CoordinatorStep(x) \/ CoordinatorFault(x)
  PROVE  Media'
<1> USE DEF AutoTypeInv
<1>1. /\ Coordinates(x) /\ UNCHANGED <<products, artifacts, jobs>>
      /\ pc[x] \notin BlindPc
      /\ \A y \in Procs \ {x} : pc'[y] = pc[y] /\ run'[y] = run[y] /\ target'[y] = target[y]
      /\ \/ pc'[x] \in {"idle", "finished"} /\ target'[x] = 0 /\ Finish(x)
         \/ /\ pc'[x] \in CoordinatorPc /\ run'[x] = run[x]
            /\ \A point, n : Forward(x, point, n) => pc'[x] = point /\ target'[x] = n
            /\ \E point \in CoordinatorPc : \E n : Forward(x, point, n)
  <2>1. Coordinates(x)
    BY CoordinatorCoordinates
  <2> QED BY <2>1, CoordinatorLocals, PointsApart DEF Coordinates, tables, CompletedPc
<1>2. ASSUME NEW e \in Executions PROVE Linked(e)' /\ Issued(e)'
  BY <1>1, CoordinatorIssues, LinkedStays DEF Media
<1>3. ASSUME NEW y \in Procs \ {x} PROVE OwnMedia(y)' /\ Newest(y)' /\ Selected(y)'
  BY <1>1, <1>3, OtherMedia DEF Media
<1>4. OwnMedia(x)' /\ Newest(x)'
  BY <1>1 DEF Media, OwnMedia, Newest, Exec, CoordinatorPc, BlindPc
<1>5. Selected(x)'
  <2> SUFFICES ASSUME pc'[x] = "create_publication" PROVE Final(Exec(x), target[x])'
    BY DEF Selected
  <2>1. SelectVideo(x) /\ Forward(x, "create_publication", FinalVideo(Exec(x)))
        /\ Videos(Exec(x)) # {} /\ pc[x] = "handover"
    <3>1. ~Finish(x)
      BY <1>1 DEF Finish, Return, Leave, Proceed, TypeInv, TypeOK
    <3>2. \A n : /\ ~Forward(x, "claim", n) /\ ~Forward(x, "send", n)
                 /\ ~Forward(x, "send_failed", n)
      BY <1>1
    <3> QED BY <3>1, <3>2 DEF CoordinatorStep, SelectVideo, CreatePublication, Claim, Send,
               SendFailed, CoordinatorFault, Contain, ContainLostAnswer
  <2>2. run'[x] = run[x] /\ target'[x] = FinalVideo(Exec(x)) /\ Exec(x) \in Executions
    BY <1>1, <2>1, CoordinatorMoves
  <2>3. PICK e \in Executions, asset \in Nat : e = Exec(x) /\ asset = target'[x]
    BY <2>2, CoordinatorTargets
  <2>4. Final(e, asset)
    BY <2>1, <2>2, <2>3, SelectedIsFinal
  <2>5. Final(e, asset)'
    BY <1>1, <2>4, FinalStays
  <2> QED BY <2>2, <2>3, <2>5 DEF Final, Exec
<1> QED BY <1>2, <1>3, <1>4, <1>5 DEF Media

LEMMA NextKeepsMedia ==
  AutoTypeInv /\ WorkInv /\ SoleInv /\ MediaInv /\ [AutoNext]_autoVars => MediaInv'
<1> SUFFICES ASSUME AutoTypeInv, WorkInv, SoleInv, MediaInv, [AutoNext]_autoVars, RanOnce'
             PROVE  Media'
  BY DEF MediaInv
<1> USE DEF AutoTypeInv
<1>1. /\ IdleHasNone /\ Sole /\ Media
      /\ UNCHANGED <<workerCrashes, extraMessages>>
  BY CrashesStay DEF SoleInv, MediaInv
<1>2. CASE RuntimeStep
  <2>1. /\ RunNext /\ UNCHANGED publications
        /\ \A y \in Procs : target'[y] = IF pc'[y] = "idle" THEN 0 ELSE target[y]
    BY <1>2 DEF RuntimeStep
  <2>2. ~Resends /\ \A w \in Workers : ~WorkerCrash(w)
    <3>1. workerCrashes \in Nat /\ extraMessages \in Nat
      BY BoundsAreNats DEF TypeInv, TypeOK
    <3>2. \A n \in Nat : n + 1 # n
      OBVIOUS
    <3> QED BY <1>1, <3>1, <3>2 DEF Resends, WorkerCrash
  <2>3. PICK x \in Procs :
              \/ \E e \in Executions : RequestRun(x, e) \/ EnqueueWorkflow(x, e) \/ Deliver(x, e)
              \/ Dispatch(x) \/ Load(x)
              \/ Quietly(x) \/ Completes(x) \/ Restates(x) \/ Closes(x) \/ Stores(x)
    BY <2>1, <2>2, RuntimeSteps
  <2>4. ASSUME \A y \in Procs \ {x} : pc'[y] = pc[y]
        PROVE  \A y \in Procs \ {x} : pc[y] # "idle" => target'[y] = target[y]
    BY <2>1, <2>4
  <2>5. ASSUME NEW e \in Executions, RequestRun(x, e) \/ EnqueueWorkflow(x, e) \/ Deliver(x, e)
        PROVE  Media'
    <3>1. /\ UNCHANGED <<products, artifacts, jobs>>
          /\ \A y \in Procs \ {x} : pc'[y] = pc[y] /\ run'[y] = run[y]
          /\ pc'[x] \in {"start", "dispatch", "load"} /\ run'[x].exec = e
      <4>1. UNCHANGED <<products, artifacts, jobs>>
        BY <2>5 DEF RequestRun, EnqueueWorkflow, Deliver, tables
      <4>2. PICK point \in {"start", "dispatch", "load"} : \E r :
              Proceed(x, point, r) /\ r.exec = e
        <5>1. /\ FreshRun(e, "PENDING").exec = e /\ [IdleRun EXCEPT !.exec = e].exec = e
          BY DEF FreshRun, IdleRun
        <5> QED BY <2>5, <5>1 DEF RequestRun, EnqueueWorkflow, Deliver
      <4> QED BY <4>1, <4>2 DEF Proceed, TypeInv, TypeOK
    <3>2. pc'[x] = "start" => products[e] = <<>>
      BY <1>1, <2>5 DEF RequestRun, EnqueueWorkflow, Deliver, Proceed, Sole, Waits, Untouched,
                        TypeInv, TypeOK
    <3> QED BY <1>1, <2>1, <2>4, <3>1, <3>2, ComingKeepsMedia
  <2>6. CASE Dispatch(x) \/ Load(x)
    <3>1. /\ UNCHANGED <<products, artifacts, jobs>>
          /\ \A y \in Procs \ {x} : pc'[y] = pc[y] /\ run'[y] = run[y]
          /\ \/ pc'[x] = "idle"
             \/ pc[x] = "load" /\ pc'[x] \in {"start", "reject"} /\ run'[x].exec = Exec(x)
      <4>1. UNCHANGED <<products, artifacts, jobs>>
        BY <2>6 DEF Dispatch, Load, tables
      <4>2. CASE Dispatch(x)
        BY <4>1, <4>2 DEF Dispatch, Leave, Proceed, TypeInv, TypeOK
      <4>3. CASE Load(x)
        <5>1. FreshRun(Exec(x), execution[Exec(x)]).exec = Exec(x)
          BY DEF FreshRun, IdleRun
        <5> QED BY <4>1, <4>3, <5>1 DEF Load, AtDb, Proceed, TypeInv, TypeOK
      <4> QED BY <2>6, <4>2, <4>3
    <3>2. pc[x] = "load" => products[Exec(x)] = <<>>
      BY <1>1 DEF Sole, Holds, UnrunPc, Untouched
    <3> QED BY <1>1, <2>1, <2>4, <3>1, <3>2, ComingKeepsMedia
  <2>7. ASSUME NEW points, NEW seen, Takes(x, points, seen), pc[x] # "idle",
               points \cap {"register", "link", "create_publication"} = {},
               UNCHANGED <<products, artifacts>>, OwnJobsOnly(x),
               publications[Exec(x)] # <<>> => UNCHANGED jobs
        PROVE  Media'
    <3>1. /\ \A y \in Procs \ {x} : pc'[y] = pc[y]
          /\ pc'[x] \notin {"register", "link", "create_publication"}
      BY <2>7, Taking
    <3> QED BY <1>1, <2>1, <2>4, <2>7, <3>1, TakingKeepsMedia
  <2>8. /\ PlainPc \cap {"register", "link", "create_publication"} = {}
        /\ \A points : /\ points = PlainPc \cup {"log_completion"} =>
                            points \cap {"register", "link", "create_publication"} = {}
                       /\ points = PlainPc \cup {"report_completion", "handover"} =>
                            points \cap {"register", "link", "create_publication"} = {}
    BY DEF PlainPc, CompletedPc, CoordinatorPc
  <2>9. CASE Quietly(x)
    <3>1. publications[Exec(x)] # <<>> => UNCHANGED jobs
      BY <1>1, <2>9 DEF Sole, Holds, Quietly, CompletedPc
    <3> QED BY <2>7, <2>8, <2>9, <3>1 DEF Quietly, Untold
  <2>10. CASE Completes(x) \/ Restates(x) \/ Closes(x)
    <3>1. pc[x] # "idle" /\ UNCHANGED <<products, artifacts, jobs>> /\ OwnJobsOnly(x)
      BY <2>10 DEF Completes, Restates, Writes, Closes, Untold, OwnJobsOnly, BlindPc
    <3>2. \E points, seen : /\ Takes(x, points, seen)
                            /\ points \cap {"register", "link", "create_publication"} = {}
      BY <2>8, <2>10 DEF Completes, Restates, Writes, Closes
    <3> QED BY <2>7, <3>1, <3>2
  <2>11. CASE Stores(x)
    <3>1. \A y \in Procs \ {x} : pc[y] # "idle" => target'[y] = target[y]
      BY <2>4, <2>11, Taking DEF Stores
    <3> QED BY <1>1, <2>1, <2>11, <3>1, OperateKeepsMedia, RegisterKeepsMedia, LinkKeepsMedia
            DEF Stores
  <2> QED BY <2>3, <2>5, <2>6, <2>9, <2>10, <2>11
<1>3. ASSUME NEW x \in Procs, CoordinatorStep(x) \/ CoordinatorFault(x) PROVE Media'
  BY <1>1, <1>3, CoordinatorKeepsMedia
<1>4. ASSUME UNCHANGED <<vars, target>>, \A e \in Executions : Issued(e)' PROVE Media'
  <2>1. UNCHANGED <<products, artifacts, jobs, pc, run, target>>
    BY <1>4 DEF vars, tables
  <2>2. \A e \in Executions : Linked(e)'
    BY <1>1, <2>1, LinkedStays DEF Media
  <2>3. ASSUME NEW y \in Procs PROVE OwnMedia(y)' /\ Newest(y)' /\ Selected(y)'
    BY <1>1, <2>1, OtherMedia DEF Media
  <2> QED BY <1>4, <2>2, <2>3 DEF Media
<1>5. ASSUME NEW e \in Executions, NEW n \in DOMAIN publications[e], PublicationMoves(e, n)
      PROVE  Media'
  <2>1. PICK to \in PublicationStatuses \ {"PENDING"} :
          /\ [publications[e][n] EXCEPT !.status = to] \in Publication
          /\ Changes(e, n, [publications[e][n] EXCEPT !.status = to])
    BY <1>5, WorkerMoves
  <2> DEFINE p == [publications[e][n] EXCEPT !.status = to]
  <2>2. p \in Publication /\ Changes(e, n, p) /\ p.asset = publications[e][n].asset
    BY <2>1, KnownPublications, RewritesKeep
  <2> HIDE DEF p
  <2>3. UNCHANGED <<vars, target>> /\ UNCHANGED <<products, artifacts, jobs>>
    BY <1>5 DEF PublicationMoves, vars, tables
  <2>4. \A f \in Executions : Issued(f)'
    BY <1>1, <2>2, <2>3, RewritingKeepsIssued DEF Media
  <2> QED BY <1>4, <2>3, <2>4
<1>6. CASE UNCHANGED autoVars
  <2>1. UNCHANGED <<vars, target, publications, products, artifacts, jobs>>
    BY <1>6 DEF autoVars, vars, tables
  <2>2. \A f \in Executions : Issued(f)'
    BY <1>1, <2>1, FinalStays DEF Media, Issued
  <2> QED BY <1>4, <2>1, <2>2
<1> QED BY <1>2, <1>3, <1>5, <1>6 DEF AutoNext

(* The media of an execution are stored by the jobs of its one run and linked   *)
(* in the order of storing; what a coordinator selected, and what a publication *)
(* is about, is the newest linked video.                                       *)
THEOREM MediaInvariant == AutoSpec => []MediaInv
<1>1. AutoInit => MediaInv
  <2> SUFFICES ASSUME AutoInit PROVE Media
    BY DEF MediaInv
  <2>1. \A x \in Procs : pc[x] = "idle"
    BY DEF AutoInit, Init
  <2>2. \A e \in Executions : artifacts[e] = <<>> /\ publications[e] = <<>>
    BY DEF AutoInit, Init
  <2>3. \A e \in Executions : DOMAIN artifacts[e] = {} /\ DOMAIN publications[e] = {}
    BY <2>2
  <2>4. \A e \in Executions : Linked(e) /\ Issued(e)
    BY <2>3 DEF Linked, Issued
  <2>5. \A x \in Procs : OwnMedia(x) /\ Newest(x) /\ Selected(x)
    BY <2>1 DEF OwnMedia, Newest, Selected, BlindPc
  <2> QED BY <2>4, <2>5 DEF Media
<1> QED BY <1>1, NextKeepsMedia, AutoTypeInvariant, AutoWorkInvariant, SoleInvariant, PTL
        DEF AutoSpec

(* What is published is the newest video of its execution, registered as an     *)
(* asset, and made by a job that is COMPLETED: no later step of the run, of     *)
(* another run or of a failing handler takes that back, unless the execution    *)
(* is run a second time.                                                       *)
THEOREM PublishesFinalVideo == AutoSpec => []PublishedVideoIsFinal
<1>1. MediaInv => PublishedVideoIsFinal
  BY DEF MediaInv, Media, Issued, Final, PublishedVideoIsFinal
<1> QED BY <1>1, MediaInvariant, PTL
=============================================================================
