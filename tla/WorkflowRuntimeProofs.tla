------------------------ MODULE WorkflowRuntimeProofs ------------------------
(***************************************************************************)
(* Proofs about WorkflowRuntime for every set of workflows, handlers,       *)
(* workers and executions and every bound on faults, crashes and messages.  *)
(***************************************************************************)
EXTENDS WorkflowRuntime, FiniteSetTheorems, SequenceTheorems, TLAPS

USE PlansAssumption, RunnersAssumption, NoExecutionAssumption, LengthsAssumption,
    BudgetsAssumption

-----------------------------------------------------------------------------
(* Type correctness.  It is not inductive: which step a handler marks as       *)
(* failed, whether the next step exists and whether an item is left depends    *)
(* on what the process did before.                                           *)

\* Control points of a run that has not ended: its workflow was found valid.
RunningPc == {"start", "log_start"} \cup TryPc

\* Control points at which the run works on an item of its step.
ItemPc == {"create_job", "begin_job", "operate", "register", "link", "presign", "complete_job"}

\* What a process at a control point can rely on.
Fits(point, r) ==
  /\ point # "idle" => r.exec \in Executions
  /\ point \in RunningPc => Valid
  /\ point \in TryPc \cup {"fail_step"} => r.step \in DOMAIN plan
  /\ point \in ItemPc => r.left > 0

TypeInv == TypeOK /\ \A x \in Procs : Fits(pc[x], run[x])

\* A step of one process to a point that fits it.
Hops(x) == \E point \in Pcs : \E r \in Run : Fits(point, r) /\ Proceed(x, point, r)

LEMMA HopTypes ==
  ASSUME TypeInv, NEW x \in Procs, Hops(x), UNCHANGED plan
  PROVE  /\ pc' \in [Procs -> Pcs] /\ run' \in [Procs -> Run]
         /\ \A y \in Procs : pc'[y] # "idle" => run'[y].exec \in Executions
         /\ \A y \in Procs : pc'[y] \in TryPc => run'[y].step \in DOMAIN plan'
         /\ (\A y \in Procs : Fits(pc[y], run[y]))'
<1>1. PICK point \in Pcs, r \in Run : Fits(point, r) /\ Proceed(x, point, r)
  BY DEF Hops
<1>2. \A y \in Procs : /\ pc'[y] = IF y = x THEN point ELSE pc[y]
                       /\ run'[y] = IF y = x THEN r ELSE run[y]
  BY <1>1 DEF TypeInv, TypeOK, Proceed
<1>3. \A y \in Procs : Fits(pc'[y], run'[y])
  BY <1>1, <1>2 DEF TypeInv
<1>4. \A y \in Procs : Fits(pc[y], run[y])'
  BY <1>3 DEF Fits, Valid, Exists
<1>5. pc' \in [Procs -> Pcs] /\ run' \in [Procs -> Run]
  BY <1>1 DEF TypeInv, TypeOK, Proceed
<1> QED BY <1>3, <1>4, <1>5 DEF Fits

LEMMA PointsAreDistinct ==
  /\ {"idle", "finished", "safety", "fail_step"} \subseteq Pcs
  /\ TryPc \subseteq Pcs /\ HandlerPc \subseteq Pcs
  /\ \A point \in {"idle", "finished", "safety"} :
       point \notin RunningPc /\ point \notin TryPc /\ point \notin ItemPc /\ point # "fail_step"
  /\ "fail_step" \notin RunningPc /\ "fail_step" \notin TryPc /\ "fail_step" \notin ItemPc
  BY DEF Pcs, DbPc, TryPc, HandlerPc, RunningPc, ItemPc

LEMMA BoundsAreNats ==
  /\ MaxItems \in Nat /\ MaxJobs \in Nat /\ MaxFaults \in Nat /\ MaxClientCrashes \in Nat
  /\ MaxWorkerCrashes \in Nat /\ MaxExtraMessages \in Nat /\ MaxMishaps \in Nat
  OBVIOUS

LEMMA IdleRuns ==
  /\ IdleRun \in Run
  /\ \A e \in Executions : /\ [IdleRun EXCEPT !.exec = e] \in Run
                           /\ [IdleRun EXCEPT !.exec = e].exec = e
<1>1. <<>> \in Seq(Statuses) /\ {} \in SUBSET Nat /\ "absent" \in ExecutionStatuses
      /\ "short" \in Lengths /\ 0 \in Nat
  BY DEF ExecutionStatuses, Lengths
<1>2. IdleRun \in Run
  BY <1>1 DEF IdleRun, Run
<1> QED BY <1>2 DEF IdleRun, Run

LEMMA RaiseHops ==
  ASSUME TypeInv, NEW x \in Procs, pc[x] # "idle",
         NEW r \in Run, r.exec = Exec(x), r.step = run[x].step
  PROVE  /\ Raise(x, r) => Hops(x)
         /\ Return(x) => Hops(x)
         /\ Leave(x) => Hops(x)
<1>0. Exec(x) \in Executions /\ pc[x] \in Pcs /\ (pc[x] \in TryPc => run[x].step \in DOMAIN plan)
  BY DEF TypeInv, TypeOK
<1>1. Leave(x) => Hops(x)
  BY IdleRuns, PointsAreDistinct DEF Leave, Hops, Fits
<1>2. Return(x) => Hops(x)
  <2>1. Fits("finished", [IdleRun EXCEPT !.exec = Exec(x)])
    BY <1>0, IdleRuns, PointsAreDistinct DEF Fits
  <2> QED BY <1>0, <1>1, <2>1, IdleRuns, PointsAreDistinct DEF Return, Hops
<1>3. Fits("safety", r) /\ (pc[x] \in TryPc => Fits("fail_step", r))
  BY <1>0, PointsAreDistinct DEF Fits
<1> QED BY <1>1, <1>2, <1>3, PointsAreDistinct DEF Raise, Hops

LEMMA LostHops ==
  ASSUME TypeInv, NEW x \in Procs, pc[x] # "idle",
         NEW r \in Run, r.exec = Exec(x), r.step = run[x].step, LoseAnswer(x, r)
  PROVE  Hops(x) /\ faults' \in 0..MaxFaults
<1>1. PICK broken \in BOOLEAN, length \in MessageLengths :
        Raise(x, [r EXCEPT !.broken = broken, !.length = length])
  BY DEF LoseAnswer
<1> DEFINE q == [r EXCEPT !.broken = broken, !.length = length]
<1>2. q \in Run /\ q.exec = Exec(x) /\ q.step = run[x].step
  BY DEF Run, Lengths
<1>3. faults' \in 0..MaxFaults
  <2>1. faults \in Nat /\ faults < MaxFaults /\ faults' = faults + 1
    BY BoundsAreNats DEF LoseAnswer, Affordable, TypeInv, TypeOK
  <2> QED BY <2>1, BoundsAreNats
<1> HIDE DEF q
<1> QED BY <1>1, <1>2, <1>3, RaiseHops DEF q

-----------------------------------------------------------------------------
(* What the repository calls write and what the session then holds.           *)

TablesOK ==
  /\ execution \in [Executions -> ExecutionStatuses]
  /\ steps \in Seq(Statuses) /\ Len(steps) = Len(plan)
  /\ jobs \in [Executions -> Seq(Job)]
  /\ products \in [Executions -> Seq(Product)]
  /\ artifacts \in [Executions -> Seq(Nat)]
  /\ errors \in [Executions -> Nat]
  /\ trail \in [Executions -> Seq(Record)]
  /\ reports \in [Executions -> Seq(Report)]

LEMMA StepTyped ==
  ASSUME TypeInv, NEW x \in Procs, Hops(x), TablesOK', Quiet, faults' \in 0..MaxFaults
  PROVE  TypeInv'
<1>1. UNCHANGED <<plan, queue, clientCrashes, workerCrashes, extraMessages>>
  BY DEF Quiet
<1>2. TypeOK'
  BY <1>1, HopTypes DEF TypeInv, TypeOK, TablesOK, Exec
<1>3. (\A y \in Procs : Fits(pc[y], run[y]))'
  BY <1>1, HopTypes
<1> QED BY <1>2, <1>3 DEF TypeInv

\* Appending a row.
LEMMA WriteTypes ==
  ASSUME NEW S, NEW table \in [Executions -> Seq(S)], NEW x \in Procs,
         Exec(x) \in Executions, NEW entry \in S
  PROVE  Write(table, x, entry) \in [Executions -> Seq(S)]
  BY DEF Write

\* Replacing an element of a sequence, if there is such an element.
LEMMA ReplaceTypes ==
  ASSUME NEW S, NEW f \in Seq(S), NEW i, NEW v, i \in DOMAIN f => v \in S
  PROVE  [f EXCEPT ![i] = v] \in Seq(S) /\ Len([f EXCEPT ![i] = v]) = Len(f)
<1>1. f \in [1..Len(f) -> S] /\ Len(f) \in Nat
  OBVIOUS
<1>2. [f EXCEPT ![i] = v] \in [1..Len(f) -> S]
  BY <1>1
<1> DEFINE g == [f EXCEPT ![i] = v]
<1>3. g \in [1..Len(f) -> S]
  BY <1>2
<1> HIDE DEF g
<1>4. g \in Seq(S)
  BY <1>1, <1>3, SeqDef
<1>5. Len(g) = Len(f)
  BY <1>1, <1>3, <1>4, LenProperties
<1> QED BY <1>4, <1>5 DEF g

LEMMA SetJobTypes ==
  ASSUME TypeInv, NEW x \in Procs, Exec(x) \in Executions, NEW status \in Statuses,
         SetJob(x, status)
  PROVE  jobs' \in [Executions -> Seq(Job)]
<1>1. jobs[Exec(x)] \in Seq(Job)
  BY DEF TypeInv, TypeOK
<1>2. run[x].job \in DOMAIN jobs[Exec(x)] =>
        [jobs[Exec(x)][run[x].job] EXCEPT !.status = status] \in Job
  <2>1. ASSUME run[x].job \in DOMAIN jobs[Exec(x)] PROVE jobs[Exec(x)][run[x].job] \in Job
    BY <1>1, <2>1, LenProperties, ElementOfSeq
  <2> QED BY <2>1 DEF Job
<1>3. [jobs[Exec(x)] EXCEPT ![run[x].job] = [jobs[Exec(x)][run[x].job] EXCEPT !.status = status]]
        \in Seq(Job)
  BY <1>1, <1>2, ReplaceTypes
<1> QED BY <1>1, <1>3 DEF SetJob, TypeInv, TypeOK

LEMMA SeenExecutions ==
  ASSUME TypeInv, NEW x \in Procs, pc[x] # "idle", NEW status \in Statuses
  PROVE  /\ SeeExecution(x, status) \in Run
         /\ SeeExecution(x, status).exec = Exec(x)
         /\ SeeExecution(x, status).step = run[x].step
         /\ SetExecution(x, status) => execution' \in [Executions -> ExecutionStatuses]
<1>0. Exec(x) \in Executions /\ run[x] \in Run /\ execution \in [Executions -> ExecutionStatuses]
  BY DEF TypeInv, TypeOK
<1>1. StoredExecution(x, status) \in ExecutionStatuses
  BY <1>0 DEF StoredExecution, Updated, ExecutionStatuses
<1> QED BY <1>0, <1>1 DEF SeeExecution, SetExecution, Run, Exec

LEMMA SeenSteps ==
  ASSUME TypeInv, NEW x \in Procs, pc[x] \in TryPc \cup {"fail_step"}, NEW status \in Statuses
  PROVE  /\ SeeStep(x, status) \in Run
         /\ SeeStep(x, status).exec = Exec(x)
         /\ SeeStep(x, status).step = run[x].step
         /\ SetStep(x, status) => steps' \in Seq(Statuses) /\ Len(steps') = Len(plan)
<1>0. /\ run[x] \in Run /\ run[x].step \in DOMAIN plan
      /\ steps \in Seq(Statuses) /\ Len(steps) = Len(plan) /\ plan \in Seq(PlanStep)
  BY DEF TypeInv, TypeOK, Fits
<1>1. StoredStep(x, status) \in Statuses
  BY <1>0 DEF StoredStep, Updated
<1>2. [run[x].seenSteps EXCEPT ![run[x].step] = StoredStep(x, status)] \in Seq(Statuses)
  BY <1>0, <1>1, ReplaceTypes DEF Run
<1>3. SetStep(x, status) => steps' \in Seq(Statuses) /\ Len(steps') = Len(plan)
  BY <1>0, <1>1 DEF SetStep
<1> QED BY <1>0, <1>2, <1>3 DEF SeeStep, Run, Exec

\* The locals after an assignment to some of them.
LEMMA AssignedRuns ==
  ASSUME NEW r \in Run
  PROVE  /\ \A length \in MessageLengths :
              /\ [r EXCEPT !.length = length] \in Run
              /\ [r EXCEPT !.broken = TRUE, !.length = length] \in Run
         /\ [r EXCEPT !.broken = TRUE] \in Run
         /\ \A n \in Nat : /\ [r EXCEPT !.left = n] \in Run /\ AtStep(r, n) \in Run
                           /\ [r EXCEPT !.product = n] \in Run
                           /\ [r EXCEPT !.mine = @ \cup {n}] \in Run
                           /\ [r EXCEPT !.job = n, !.product = 0, !.mine = @ \cup {n}] \in Run
         /\ r.left > 0 => [r EXCEPT !.success = @ + 1, !.left = @ - 1] \in Run
<1>1. /\ \A length \in MessageLengths :
           /\ [r EXCEPT !.length = length] \in Run
           /\ [r EXCEPT !.broken = TRUE, !.length = length] \in Run
      /\ [r EXCEPT !.broken = TRUE] \in Run
  BY DEF Run, Lengths
<1>2. \A n \in Nat : /\ [r EXCEPT !.left = n] \in Run /\ AtStep(r, n) \in Run
                     /\ [r EXCEPT !.product = n] \in Run
  BY DEF Run, AtStep
<1>3. ASSUME NEW n \in Nat
      PROVE  /\ [r EXCEPT !.mine = @ \cup {n}] \in Run
             /\ [r EXCEPT !.job = n, !.product = 0, !.mine = @ \cup {n}] \in Run
  <2>1. r.mine \cup {n} \in SUBSET Nat
    BY DEF Run
  <2> QED BY <2>1 DEF Run
<1>4. ASSUME r.left > 0 PROVE [r EXCEPT !.success = @ + 1, !.left = @ - 1] \in Run
  <2>1. r.success + 1 \in Nat /\ r.left - 1 \in Nat
    BY <1>4 DEF Run
  <2> QED BY <2>1 DEF Run
<1> QED BY <1>1, <1>2, <1>3, <1>4

-----------------------------------------------------------------------------
(* Every step of a run.                                                      *)

\* Control points that ask for nothing but an execution.
EasyPc == Pcs \ (RunningPc \cup {"idle", "fail_step"})

LEMMA EasyPoints ==
  /\ {"reject", "reject_execution", "log_error", "fail_job", "fail_execution", "log_failure",
      "report_failure", "complete", "log_completion", "report_completion", "safety",
      "handover", "finished", "load", "dispatch"} \subseteq EasyPc
  /\ EasyPc \subseteq Pcs
  /\ \A point \in EasyPc, r \in Run : r.exec \in Executions => Fits(point, r)
<1>1. ItemPc \subseteq RunningPc /\ TryPc \subseteq RunningPc
  BY DEF ItemPc, TryPc, RunningPc
<1>2. \A point \in EasyPc, r \in Run : r.exec \in Executions => Fits(point, r)
  BY <1>1 DEF EasyPc, Fits
<1>3. {"reject", "reject_execution", "log_error", "fail_job", "fail_execution", "log_failure",
       "report_failure", "complete", "log_completion", "report_completion", "safety",
       "handover", "finished", "load", "dispatch"} \subseteq EasyPc
  BY DEF EasyPc, RunningPc, TryPc, Pcs, DbPc, HandlerPc
<1> QED BY <1>2, <1>3 DEF EasyPc

LEMMA EasyHops ==
  ASSUME TypeInv, NEW x \in Procs, NEW point \in EasyPc, NEW r \in Run, r.exec \in Executions,
         Proceed(x, point, r)
  PROVE  Hops(x)
  BY EasyPoints DEF Hops

\* What a process that is not idle has, and what its current locals can be passed to.
LEMMA BusyRuns ==
  ASSUME TypeInv, NEW x \in Procs, pc[x] # "idle"
  PROVE  /\ run[x] \in Run /\ Exec(x) \in Executions /\ run[x].exec = Exec(x)
         /\ Raise(x, run[x]) => Hops(x)
         /\ Return(x) => Hops(x)
         /\ Leave(x) => Hops(x)
         /\ LoseAnswer(x, run[x]) => Hops(x)
         /\ \A status \in Statuses : LoseAnswer(x, SeeExecution(x, status)) => Hops(x)
         /\ Fail(x) => Hops(x)
         /\ \A r : LoseAnswer(x, r) => faults' \in 0..MaxFaults
         /\ Answered => faults' \in 0..MaxFaults
<1>1. run[x] \in Run /\ Exec(x) \in Executions /\ run[x].exec = Exec(x)
  BY DEF TypeInv, TypeOK, Exec
<1>2. /\ Raise(x, run[x]) => Hops(x)
      /\ Return(x) => Hops(x)
      /\ Leave(x) => Hops(x)
  BY <1>1, RaiseHops
<1>3. LoseAnswer(x, run[x]) => Hops(x)
  BY <1>1, LostHops
<1>4. \A status \in Statuses : LoseAnswer(x, SeeExecution(x, status)) => Hops(x)
  BY LostHops, SeenExecutions
<1>5. ASSUME NEW length \in MessageLengths, Raise(x, [run[x] EXCEPT !.length = length])
      PROVE  Hops(x)
  <2> DEFINE r == [run[x] EXCEPT !.length = length]
  <2>1. r \in Run /\ r.exec = Exec(x) /\ r.step = run[x].step
    BY <1>1, AssignedRuns DEF Run, Exec
  <2> HIDE DEF r
  <2> QED BY <1>5, <2>1, RaiseHops DEF r
<1>6. ASSUME NEW r, LoseAnswer(x, r) PROVE faults' \in 0..MaxFaults
  <2>1. faults \in Nat /\ faults < MaxFaults /\ faults' = faults + 1
    BY <1>6, BoundsAreNats DEF LoseAnswer, Affordable, TypeInv, TypeOK
  <2> QED BY <2>1, BoundsAreNats
<1>7. Answered => faults' \in 0..MaxFaults
  BY DEF Answered, TypeInv, TypeOK
<1> QED BY <1>1, <1>2, <1>3, <1>4, <1>5, <1>6, <1>7 DEF Fail

LEMMA TablesTyped ==
  ASSUME TypeInv
  PROVE  TablesOK /\ (UNCHANGED <<plan, tables>> => TablesOK')
  BY DEF TypeInv, TypeOK, TablesOK, tables

\* Steps that write the execution's row, and the end of a task.
LEMMA ExecutionWritesTyped ==
  ASSUME TypeInv, NEW x \in Procs,
         \/ RejectExecution(x) \/ Start(x) \/ FailExecution(x) \/ Complete(x) \/ Safety(x)
  PROVE  TypeInv'
<1>0. pc[x] # "idle" /\ {"FAILED", "RUNNING", "COMPLETED"} \subseteq Statuses
  BY DEF RejectExecution, Start, FailExecution, Complete, Safety, AtDb, Statuses
<1>1. \A status \in Statuses : /\ SeeExecution(x, status) \in Run
                               /\ SeeExecution(x, status).exec \in Executions
                               /\ SetExecution(x, status) =>
                                    execution' \in [Executions -> ExecutionStatuses]
  BY <1>0, SeenExecutions, BusyRuns
<1>2. Quiet /\ UNCHANGED <<steps, jobs, products, artifacts, errors, trail, reports>>
  BY DEF RejectExecution, Start, FailExecution, Complete, Safety
<1>3. TablesOK' /\ faults' \in 0..MaxFaults
  <2>1. execution' \in [Executions -> ExecutionStatuses]
    BY <1>0, <1>1 DEF RejectExecution, Start, FailExecution, Complete, Safety
  <2>2. faults' \in 0..MaxFaults
    BY <1>0, BusyRuns DEF RejectExecution, Start, FailExecution, Complete, Safety
  <2> QED BY <1>2, <2>1, <2>2, TablesTyped DEF TablesOK, Quiet
<1>4. Hops(x)
  <2>1. CASE RejectExecution(x) \/ Safety(x)
    BY <1>0, <2>1, BusyRuns DEF RejectExecution, Safety
  <2>2. CASE FailExecution(x)
    BY <1>0, <1>1, <2>2, BusyRuns, EasyHops, EasyPoints DEF FailExecution
  <2>3. CASE Complete(x)
    BY <1>0, <1>1, <2>3, BusyRuns, EasyHops, EasyPoints DEF Complete
  <2>4. CASE Start(x)
    <3>1. ASSUME Proceed(x, "log_start", SeeExecution(x, "RUNNING")) PROVE Hops(x)
      <4>1. Valid
        BY <2>4 DEF Start, AtDb, TypeInv, Fits, RunningPc
      <4>2. /\ "log_start" \in Pcs /\ "log_start" \notin TryPc /\ "log_start" # "fail_step"
            /\ "log_start" \notin ItemPc
        BY DEF Pcs, DbPc, TryPc, HandlerPc, ItemPc
      <4>3. Fits("log_start", SeeExecution(x, "RUNNING"))
        BY <1>0, <1>1, <4>1, <4>2 DEF Fits
      <4> QED BY <1>0, <1>1, <3>1, <4>2, <4>3 DEF Hops
    <3> QED BY <1>0, <2>4, <3>1, BusyRuns DEF Start
  <2> QED BY <2>1, <2>2, <2>3, <2>4
<1> QED BY <1>2, <1>3, <1>4, StepTyped

\* Steps that append to the audit of the execution.
LEMMA AuditWritesTyped ==
  ASSUME TypeInv, NEW x \in Procs,
         \/ Reject(x) \/ LogStart(x) \/ LogError(x) \/ LogFailure(x) \/ ReportFailure(x)
         \/ LogCompletion(x) \/ ReportCompletion(x)
  PROVE  TypeInv'
<1>0. /\ pc[x] # "idle" /\ Quiet
      /\ UNCHANGED <<execution, steps, jobs, products, artifacts>>
  BY DEF Reject, LogStart, LogError, LogFailure, ReportFailure, LogCompletion,
         ReportCompletion, AtDb
<1>1. /\ run[x] \in Run /\ Exec(x) \in Executions /\ run[x].exec \in Executions
      /\ run[x].seen \in ExecutionStatuses /\ run[x].was \in ExecutionStatuses
      /\ run[x].success \in Nat
  BY <1>0, BusyRuns DEF Run
<1>2. faults' \in 0..MaxFaults
  BY <1>0, BusyRuns DEF Reject, LogStart, LogError, LogFailure, ReportFailure, LogCompletion,
         ReportCompletion
<1>3. TablesOK'
  <2>1. errors' \in [Executions -> Nat]
    <3>1. errors \in [Executions -> Nat]
      BY TablesTyped DEF TablesOK
    <3>2. UNCHANGED errors \/ errors' = [errors EXCEPT ![Exec(x)] = @ + 1]
      BY DEF Reject, LogStart, LogError, LogFailure, ReportFailure, LogCompletion, ReportCompletion
    <3> QED BY <1>1, <3>1, <3>2
  <2>2. trail' \in [Executions -> Seq(Record)]
    <3>1. /\ [from |-> run[x].was, to |-> run[x].seen] \in Record
          /\ [from |-> run[x].seen, to |-> "FAILED"] \in Record
          /\ [from |-> run[x].seen, to |-> "COMPLETED"] \in Record
      BY <1>1 DEF Record, ExecutionStatuses, Statuses
    <3>2. trail \in [Executions -> Seq(Record)]
      BY TablesTyped DEF TablesOK
    <3>3. ASSUME NEW entry \in Record PROVE Write(trail, x, entry) \in [Executions -> Seq(Record)]
      BY <1>1, <3>2, WriteTypes
    <3> QED BY <3>1, <3>2, <3>3 DEF Reject, LogStart, LogError, LogFailure, ReportFailure,
              LogCompletion, ReportCompletion
  <2>3. reports' \in [Executions -> Seq(Report)]
    <3>1. /\ [success |-> run[x].success, failure |-> 0] \in Report
          /\ [success |-> run[x].success, failure |-> 1] \in Report
      BY <1>1 DEF Report
    <3>2. reports \in [Executions -> Seq(Report)]
      BY TablesTyped DEF TablesOK
    <3>3. ASSUME NEW entry \in Report
          PROVE  Write(reports, x, entry) \in [Executions -> Seq(Report)]
      BY <1>1, <3>2, WriteTypes
    <3> QED BY <3>1, <3>2, <3>3 DEF Reject, LogStart, LogError, LogFailure, ReportFailure,
              LogCompletion, ReportCompletion, WriteReport
  <2> QED BY <1>0, <2>1, <2>2, <2>3, TablesTyped DEF TablesOK, Quiet
<1>4. Hops(x)
  <2>1. CASE Reject(x) \/ LogCompletion(x) \/ ReportCompletion(x) \/ ReportFailure(x)
    BY <1>0, <1>1, <2>1, BusyRuns, EasyHops, EasyPoints
       DEF Reject, LogCompletion, ReportCompletion, ReportFailure
  <2>2. CASE LogError(x)
    BY <1>0, <1>1, <2>2, BusyRuns, EasyHops, EasyPoints DEF LogError, AfterError
  <2>3. CASE LogFailure(x)
    <3> DEFINE r == [run[x] EXCEPT !.broken = TRUE]
    <3>1. r \in Run /\ r.exec = Exec(x) /\ r.step = run[x].step
      BY <1>1, AssignedRuns DEF Run, Exec
    <3> HIDE DEF r
    <3>2. Raise(x, r) => Hops(x)
      BY <1>0, <3>1, RaiseHops
    <3> QED BY <1>0, <1>1, <2>3, <3>2, BusyRuns, EasyHops, EasyPoints DEF LogFailure, r
  <2>4. CASE LogStart(x)
    <3>1. ASSUME Proceed(x, "start_step", AtStep(run[x], 1)) PROVE Hops(x)
      <4>1. Valid
        BY <2>4 DEF LogStart, AtDb, TypeInv, Fits, RunningPc
      <4>2. 1 \in DOMAIN plan
        BY <4>1 DEF Valid, TypeInv, TypeOK
      <4>3. AtStep(run[x], 1) \in Run /\ AtStep(run[x], 1).exec \in Executions
            /\ AtStep(run[x], 1).step = 1
        BY <1>1, AssignedRuns DEF AtStep, Run
      <4>4. "start_step" \in Pcs /\ "start_step" \notin ItemPc
        BY DEF Pcs, DbPc, TryPc, ItemPc
      <4>5. Fits("start_step", AtStep(run[x], 1))
        BY <4>1, <4>2, <4>3, <4>4 DEF Fits
      <4> QED BY <3>1, <4>3, <4>4, <4>5 DEF Hops
    <3> QED BY <1>0, <2>4, <3>1, BusyRuns DEF LogStart
  <2> QED BY <2>1, <2>2, <2>3, <2>4
<1> QED BY <1>0, <1>2, <1>3, <1>4, StepTyped

NextItemPc == {"create_job", "complete_step"}

\* The points the loop over the items goes to.
LEMMA ItemPoints ==
  ASSUME NEW r \in Run, r.exec \in Executions, r.step \in DOMAIN plan, Valid
  PROVE  NextItem(r) \in Pcs /\ Fits(NextItem(r), r)
<1>1. NextItemPc \subseteq TryPc /\ TryPc \subseteq Pcs /\ "complete_step" \notin ItemPc
      /\ "fail_step" \notin NextItemPc /\ "idle" \notin NextItemPc
  BY DEF NextItemPc, TryPc, Pcs, DbPc, ItemPc
<1>2. NextItem(r) \in NextItemPc /\ (NextItem(r) = "create_job" => r.left > 0)
  BY DEF NextItem, NextItemPc, Run
<1>3. \A point \in NextItemPc : point \in ItemPc => point = "create_job"
  BY <1>1 DEF NextItemPc
<1> QED BY <1>1, <1>2, <1>3 DEF Fits

\* The other points inside the try block.
LEMMA TryHops ==
  ASSUME TypeInv, NEW x \in Procs, NEW point \in TryPc, NEW r \in Run, Proceed(x, point, r),
         r.exec \in Executions, r.step \in DOMAIN plan, Valid, r.left > 0
  PROVE  Hops(x)
<1>1. point \in Pcs /\ Fits(point, r)
  BY PointsAreDistinct DEF Fits
<1> QED BY <1>1 DEF Hops

\* What a run inside the try block has.
LEMMA TryingRuns ==
  ASSUME TypeInv, NEW x \in Procs, pc[x] \in TryPc
  PROVE  /\ pc[x] # "idle" /\ run[x] \in Run /\ run[x].exec \in Executions
         /\ Valid /\ run[x].step \in DOMAIN plan /\ plan \in Seq(PlanStep)
         /\ pc[x] \in ItemPc => run[x].left > 0
  BY DEF TypeInv, TypeOK, Fits, RunningPc, TryPc, Exec

\* The targets of a condition and the next step in order are steps.
LEMMA NextStepsExist ==
  ASSUME plan \in Seq(PlanStep), Valid, NEW s \in DOMAIN plan
  PROVE  \A next \in NextSteps(s) : next = 0 \/ next \in DOMAIN plan
  BY DEF NextSteps, Target, Exists, Valid

LEMMA StepWritesTyped ==
  ASSUME TypeInv, NEW x \in Procs, StartStep(x) \/ CompleteStep(x) \/ FailStep(x)
  PROVE  TypeInv'
<1>0. /\ pc[x] \in TryPc \cup {"fail_step"} /\ pc[x] # "idle" /\ Quiet
      /\ UNCHANGED <<execution, jobs, products, artifacts, errors, trail, reports>>
      /\ {"RUNNING", "COMPLETED", "FAILED"} \subseteq Statuses
  BY DEF StartStep, CompleteStep, FailStep, AtDb, TryPc, Statuses
<1>1. \A status \in Statuses :
        /\ SeeStep(x, status) \in Run
        /\ SeeStep(x, status).exec = Exec(x) /\ SeeStep(x, status).step = run[x].step
        /\ SetStep(x, status) => steps' \in Seq(Statuses) /\ Len(steps') = Len(plan)
  BY <1>0, SeenSteps
<1>2. TablesOK' /\ faults' \in 0..MaxFaults
  <2>1. steps' \in Seq(Statuses) /\ Len(steps') = Len(plan)
    BY <1>0, <1>1 DEF StartStep, CompleteStep, FailStep
  <2>2. faults' \in 0..MaxFaults
    BY <1>0, BusyRuns DEF StartStep, CompleteStep, FailStep
  <2> QED BY <1>0, <2>1, <2>2, TablesTyped DEF TablesOK, Quiet
<1>3. ASSUME NEW status \in Statuses, LoseAnswer(x, SeeStep(x, status)) PROVE Hops(x)
  BY <1>0, <1>1, <1>3, LostHops
<1>4. ASSUME NEW status \in Statuses, NEW length \in MessageLengths,
             Raise(x, [SeeStep(x, status) EXCEPT !.length = length])
      PROVE  Hops(x)
  <2> DEFINE r == [SeeStep(x, status) EXCEPT !.length = length]
  <2>1. r \in Run /\ r.exec = Exec(x) /\ r.step = run[x].step
    <3> DEFINE q == SeeStep(x, status)
    <3>1. q \in Run /\ q.exec = Exec(x) /\ q.step = run[x].step
      BY <1>1
    <3> HIDE DEF q
    <3>2. [q EXCEPT !.length = length] \in Run
      BY <3>1, AssignedRuns
    <3>3. [q EXCEPT !.length = length].exec = q.exec /\ [q EXCEPT !.length = length].step = q.step
      BY <3>1 DEF Run
    <3> QED BY <3>1, <3>2, <3>3 DEF q
  <2> HIDE DEF r
  <2> QED BY <1>0, <1>4, <2>1, RaiseHops DEF r
<1>5. CASE FailStep(x)
  <2>1. Hops(x)
    BY <1>0, <1>1, <1>3, <1>5, BusyRuns, EasyHops, EasyPoints DEF FailStep
  <2> QED BY <1>0, <1>2, <2>1, StepTyped
<1>6. CASE StartStep(x)
  <2>0. Valid /\ run[x].step \in DOMAIN plan /\ run[x].exec \in Executions
    BY <1>6, TryingRuns DEF StartStep, AtDb, TryPc
  <2>1. ASSUME NEW n \in Nat,
               Proceed(x, NextItem([SeeStep(x, "RUNNING") EXCEPT !.left = n]),
                       [SeeStep(x, "RUNNING") EXCEPT !.left = n])
        PROVE  Hops(x)
    <3> DEFINE q == SeeStep(x, "RUNNING")
               r == [SeeStep(x, "RUNNING") EXCEPT !.left = n]
    <3>1. q \in Run /\ q.exec = Exec(x) /\ q.step = run[x].step
      BY <1>0, <1>1
    <3>2. r \in Run /\ r.exec = q.exec /\ r.step = q.step
      <4> HIDE DEF q
      <4>1. [q EXCEPT !.left = n] \in Run
        BY <3>1, AssignedRuns
      <4>2. [q EXCEPT !.left = n].exec = q.exec /\ [q EXCEPT !.left = n].step = q.step
        BY <3>1 DEF Run
      <4> QED BY <4>1, <4>2 DEF q
    <3> HIDE DEF q, r
    <3>3. NextItem(r) \in Pcs /\ Fits(NextItem(r), r)
      BY <2>0, <3>1, <3>2, ItemPoints DEF Exec
    <3> QED BY <2>1, <3>2, <3>3 DEF Hops, r
  <2>2. \A s : Items(s) \subseteq Nat
    BY BoundsAreNats DEF Items
  <2>3. Hops(x)
    BY <1>0, <1>3, <1>4, <1>6, <2>1, <2>2 DEF StartStep
  <2> QED BY <1>0, <1>2, <2>3, StepTyped
<1>7. CASE CompleteStep(x)
  <2>0. /\ Valid /\ run[x].step \in DOMAIN plan /\ run[x].exec \in Executions
        /\ plan \in Seq(PlanStep)
    BY <1>7, TryingRuns DEF CompleteStep, AtDb, TryPc
  <2> DEFINE q == SeeStep(x, "COMPLETED")
  <2>1. q \in Run /\ q.exec = Exec(x) /\ q.exec \in Executions
    BY <1>0, <1>1, <2>0 DEF Exec
  <2> HIDE DEF q
  <2>2. Proceed(x, "complete", q) => Hops(x)
    BY <2>1, EasyHops, EasyPoints
  <2>3. ASSUME NEW next \in DOMAIN plan, Proceed(x, "start_step", AtStep(q, next)) PROVE Hops(x)
    <3>1. next \in Nat
      BY <2>0
    <3>2. AtStep(q, next) \in Run /\ AtStep(q, next).exec = q.exec /\ AtStep(q, next).step = next
      BY <2>1, <3>1, AssignedRuns DEF AtStep, Run
    <3>3. "start_step" \in Pcs /\ "start_step" \notin ItemPc
      BY DEF Pcs, DbPc, TryPc, ItemPc
    <3>4. Fits("start_step", AtStep(q, next))
      BY <2>0, <2>1, <3>2, <3>3 DEF Fits
    <3> QED BY <2>3, <3>2, <3>3, <3>4 DEF Hops
  <2>4. Hops(x)
    BY <1>0, <1>3, <1>4, <1>7, <2>0, <2>2, <2>3, NextStepsExist DEF CompleteStep, q
  <2> QED BY <1>0, <1>2, <2>4, StepTyped
<1> QED BY <1>5, <1>6, <1>7

LEMMA JobWritesTyped ==
  ASSUME TypeInv, NEW x \in Procs,
         CreateJob(x) \/ BeginJob(x) \/ CompleteJob(x) \/ FailJob(x)
  PROVE  TypeInv'
<1>0. /\ pc[x] # "idle" /\ Quiet
      /\ UNCHANGED <<execution, steps, products, artifacts, errors, trail, reports>>
      /\ {"RUNNING", "COMPLETED", "FAILED", "PENDING"} \subseteq Statuses
  BY DEF CreateJob, BeginJob, CompleteJob, FailJob, AtDb, Statuses
<1>1. run[x] \in Run /\ Exec(x) \in Executions /\ run[x].exec = Exec(x)
  BY <1>0, BusyRuns
<1>n. Len(jobs[Exec(x)]) + 1 \in Nat
  BY <1>1 DEF TypeInv, TypeOK
<1>2. TablesOK' /\ faults' \in 0..MaxFaults
  <2>1. jobs' \in [Executions -> Seq(Job)]
    <3>1. [step |-> run[x].step, status |-> "PENDING"] \in Job
      BY <1>0, <1>1 DEF Job, Run
    <3>2. jobs \in [Executions -> Seq(Job)]
      BY TablesTyped DEF TablesOK
    <3>3. Write(jobs, x, [step |-> run[x].step, status |-> "PENDING"]) \in [Executions -> Seq(Job)]
      BY <1>1, <3>1, <3>2, WriteTypes
    <3>4. \A status \in Statuses : SetJob(x, status) => jobs' \in [Executions -> Seq(Job)]
      BY <1>1, SetJobTypes
    <3> QED BY <1>0, <3>3, <3>4 DEF CreateJob, BeginJob, CompleteJob, FailJob
  <2>2. faults' \in 0..MaxFaults
    BY <1>0, BusyRuns DEF CreateJob, BeginJob, CompleteJob, FailJob
  <2> QED BY <1>0, <2>1, <2>2, TablesTyped DEF TablesOK, Quiet
<1>3. Hops(x)
  <2>1. CASE FailJob(x)
    BY <1>0, <1>1, <2>1, BusyRuns, EasyHops, EasyPoints DEF FailJob
  <2>2. CASE CreateJob(x)
    <3> DEFINE n == Len(jobs[Exec(x)]) + 1
               q == [run[x] EXCEPT !.mine = @ \cup {n}]
               r == [run[x] EXCEPT !.job = n, !.product = 0, !.mine = @ \cup {n}]
    <3>0. /\ Valid /\ run[x].step \in DOMAIN plan /\ run[x].left > 0 /\ "begin_job" \in TryPc
      BY <2>2, TryingRuns DEF CreateJob, AtDb, TryPc, ItemPc
    <3>1. /\ q \in Run /\ r \in Run
      BY <1>1, <1>n, AssignedRuns
    <3>2. /\ q.exec = Exec(x) /\ q.step = run[x].step
          /\ r.exec = Exec(x) /\ r.step = run[x].step /\ r.left = run[x].left
      BY <1>1 DEF Run
    <3> HIDE DEF q, r
    <3>3. LoseAnswer(x, q) => Hops(x)
      BY <1>0, <3>1, <3>2, LostHops
    <3>4. Proceed(x, "begin_job", r) => Hops(x)
      BY <1>1, <3>0, <3>1, <3>2, TryHops
    <3> QED BY <2>2, <3>3, <3>4 DEF CreateJob, q, r
  <2>3. CASE BeginJob(x)
    <3>0. /\ Valid /\ run[x].step \in DOMAIN plan /\ run[x].left > 0 /\ "operate" \in TryPc
      BY <2>3, TryingRuns DEF BeginJob, AtDb, TryPc, ItemPc
    <3> QED BY <1>0, <1>1, <2>3, <3>0, TryHops, BusyRuns DEF BeginJob
  <2>4. CASE CompleteJob(x)
    <3> DEFINE r == [run[x] EXCEPT !.success = @ + 1, !.left = @ - 1]
    <3>0. /\ Valid /\ run[x].step \in DOMAIN plan /\ run[x].left > 0
      BY <2>4, TryingRuns DEF CompleteJob, AtDb, TryPc, ItemPc
    <3>1. r \in Run /\ r.exec = Exec(x) /\ r.step = run[x].step
      BY <1>1, <3>0, AssignedRuns DEF Run
    <3> HIDE DEF r
    <3>2. NextItem(r) \in Pcs /\ Fits(NextItem(r), r)
      BY <1>1, <3>0, <3>1, ItemPoints
    <3>3. Proceed(x, NextItem(r), r) => Hops(x)
      BY <3>1, <3>2 DEF Hops
    <3> QED BY <1>0, <2>4, <3>3, BusyRuns DEF CompleteJob, r
  <2> QED BY <2>1, <2>2, <2>3, <2>4
<1> QED BY <1>0, <1>2, <1>3, StepTyped

LEMMA MediaTyped ==
  ASSUME TypeInv, NEW x \in Procs, Operate(x) \/ Register(x) \/ Link(x) \/ Presign(x)
  PROVE  TypeInv'
<1>0. /\ pc[x] # "idle" /\ Quiet /\ pc[x] \in TryPc /\ pc[x] \in ItemPc
      /\ UNCHANGED <<execution, steps, jobs, errors, trail, reports>>
  BY DEF Operate, Register, Link, Presign, AtDb, TryPc, ItemPc, Quiet, tables, spent
<1>1. /\ run[x] \in Run /\ Exec(x) \in Executions /\ run[x].exec = Exec(x)
      /\ Valid /\ run[x].step \in DOMAIN plan /\ run[x].left > 0
  BY <1>0, BusyRuns, TryingRuns
<1>2. {"complete_job", "register", "link", "presign"} \subseteq TryPc
  BY DEF TryPc
<1>p. products \in [Executions -> Seq(Product)] /\ Len(products[Exec(x)]) + 1 \in Nat
  <2>1. products \in [Executions -> Seq(Product)]
    BY TablesTyped DEF TablesOK
  <2>2. products[Exec(x)] \in Seq(Product)
    BY <1>1, <2>1
  <2> QED BY <2>1, <2>2, LenProperties
<1>3. TablesOK' /\ faults' \in 0..MaxFaults
  <2>1. products' \in [Executions -> Seq(Product)]
    <3>1. CASE Operate(x)
      <4>1. ASSUME Step(x).operation \in {"image", "video"}
            PROVE  [kind |-> Step(x).operation, registered |-> FALSE, job |-> run[x].job] \in Product
        BY <1>1, <4>1 DEF Product, Run
      <4> QED BY <1>1, <1>p, <3>1, <4>1, WriteTypes DEF Operate
    <3>2. CASE Register(x)
      <4> DEFINE p == products[Exec(x)]
      <4>1. p \in Seq(Product)
        BY <1>1, <1>p
      <4>2. ASSUME run[x].product \in DOMAIN p
            PROVE  [p[run[x].product] EXCEPT !.registered = TRUE] \in Product
        <5>1. p[run[x].product] \in Product
          BY <4>1, <4>2, LenProperties, ElementOfSeq
        <5> QED BY <5>1 DEF Product
      <4>3. [p EXCEPT ![run[x].product] = [p[run[x].product] EXCEPT !.registered = TRUE]]
              \in Seq(Product)
        BY <4>1, <4>2, ReplaceTypes
      <4> QED BY <1>1, <1>p, <3>2, <4>3 DEF Register
    <3>3. CASE Link(x) \/ Presign(x)
      BY <1>p, <3>3 DEF Link, Presign, tables
    <3> QED BY <3>1, <3>2, <3>3
  <2>2. artifacts' \in [Executions -> Seq(Nat)]
    <3>1. artifacts \in [Executions -> Seq(Nat)] /\ run[x].product \in Nat
      BY <1>1, TablesTyped DEF TablesOK, Run
    <3>2. Write(artifacts, x, run[x].product) \in [Executions -> Seq(Nat)]
      BY <1>1, <3>1, WriteTypes
    <3>3. UNCHANGED artifacts \/ artifacts' = Write(artifacts, x, run[x].product)
      BY DEF Operate, Register, Link, Presign, tables
    <3> QED BY <3>1, <3>2, <3>3
  <2>3. faults' \in 0..MaxFaults
    BY <1>0, BusyRuns DEF Operate, Register, Link, Presign, spent, Answered
  <2> QED BY <1>0, <2>1, <2>2, <2>3, TablesTyped DEF TablesOK, Quiet
<1>4. \A point \in TryPc : Proceed(x, point, run[x]) => Hops(x)
  BY <1>1, TryHops
<1>5. Hops(x)
  <2>1. CASE Operate(x)
    <3> DEFINE r == [run[x] EXCEPT !.product = Len(products[Exec(x)]) + 1]
    <3>1. r \in Run /\ r.exec = Exec(x) /\ r.step = run[x].step /\ r.left = run[x].left
      BY <1>1, <1>p, AssignedRuns DEF Run
    <3> HIDE DEF r
    <3>2. Proceed(x, "register", r) => Hops(x)
      BY <1>1, <1>2, <3>1, TryHops
    <3> QED BY <1>0, <1>2, <1>4, <2>1, <3>2, BusyRuns DEF Operate, r
  <2>2. CASE Register(x) \/ Link(x) \/ Presign(x)
    BY <1>0, <1>2, <1>4, <2>2, BusyRuns DEF Register, Link, Presign
  <2> QED BY <2>1, <2>2
<1> QED BY <1>0, <1>3, <1>5, StepTyped

-----------------------------------------------------------------------------
(* Requests, the broker, and what may go wrong.                               *)

\* Steps of a process that leave the tables alone.
LEMMA ControlTyped ==
  ASSUME TypeInv, NEW x \in Procs, Hops(x), UNCHANGED <<plan, tables>>,
         queue' \in [Executions -> Nat], faults' \in 0..MaxFaults,
         clientCrashes' \in 0..MaxClientCrashes, workerCrashes' \in 0..MaxWorkerCrashes,
         extraMessages' \in 0..MaxExtraMessages
  PROVE  TypeInv'
<1>1. TypeOK'
  BY HopTypes DEF TypeInv, TypeOK, tables, Exec
<1> QED BY <1>1, HopTypes DEF TypeInv

LEMMA SpentTyped ==
  ASSUME TypeInv
  PROVE  /\ faults \in 0..MaxFaults /\ clientCrashes \in 0..MaxClientCrashes
         /\ workerCrashes \in 0..MaxWorkerCrashes /\ extraMessages \in 0..MaxExtraMessages
         /\ queue \in [Executions -> Nat]
         /\ \A e \in Executions : SendTask(e) => queue' \in [Executions -> Nat]
         /\ Affordable(clientCrashes, MaxClientCrashes) => clientCrashes + 1 \in 0..MaxClientCrashes
         /\ Affordable(workerCrashes, MaxWorkerCrashes) => workerCrashes + 1 \in 0..MaxWorkerCrashes
         /\ Affordable(extraMessages, MaxExtraMessages) => extraMessages + 1 \in 0..MaxExtraMessages
<1>1. /\ faults \in 0..MaxFaults /\ clientCrashes \in 0..MaxClientCrashes
      /\ workerCrashes \in 0..MaxWorkerCrashes /\ extraMessages \in 0..MaxExtraMessages
      /\ queue \in [Executions -> Nat]
  BY DEF TypeInv, TypeOK
<1>2. \A e \in Executions : SendTask(e) => queue' \in [Executions -> Nat]
  BY <1>1 DEF SendTask
<1>3. \A count, bound \in Nat : count < bound => count + 1 \in 0..bound
  OBVIOUS
<1> QED BY <1>1, <1>2, <1>3, BoundsAreNats DEF Affordable

LEMMA FreshRuns ==
  ASSUME TypeInv, NEW e \in Executions, NEW status \in ExecutionStatuses
  PROVE  FreshRun(e, status) \in Run /\ FreshRun(e, status).exec = e
<1>1. steps \in Seq(Statuses)
  BY DEF TypeInv, TypeOK
<1> QED BY <1>1, IdleRuns DEF FreshRun, IdleRun, Run

LEMMA StartPoint ==
  ASSUME NEW r \in Run, r.exec \in Executions, Valid
  PROVE  "start" \in Pcs /\ Fits("start", r)
<1>1. "start" \in Pcs /\ "start" \notin TryPc /\ "start" # "fail_step" /\ "start" \notin ItemPc
  BY DEF Pcs, DbPc, TryPc, ItemPc
<1> QED BY <1>1 DEF Fits

LEMMA RequestsTyped ==
  ASSUME TypeInv, NEW c \in Clients, NEW e \in Executions,
         RequestRun(c, e) \/ EnqueueWorkflow(c, e) \/ EnqueueExecution(e)
  PROVE  TypeInv'
<1>0. c \in Procs /\ "PENDING" \in ExecutionStatuses
  BY DEF Procs, ExecutionStatuses, Statuses
<1>1. CASE EnqueueExecution(e)
  <2>1. queue' \in [Executions -> Nat] /\ extraMessages' \in 0..MaxExtraMessages
    BY <1>1, SpentTyped DEF EnqueueExecution
  <2>2. TypeOK'
    BY <1>1, <2>1 DEF EnqueueExecution, TypeInv, TypeOK, tables, Exec
  <2> QED BY <1>1, <2>2 DEF EnqueueExecution, TypeInv, Fits, Valid, Exists
<1>2. CASE RequestRun(c, e) \/ EnqueueWorkflow(c, e)
  <2>1. Hops(c)
    <3>1. CASE RequestRun(c, e)
      <4>1. FreshRun(e, "PENDING") \in Run /\ FreshRun(e, "PENDING").exec = e
        BY <1>0, FreshRuns
      <4> QED BY <3>1, <4>1, StartPoint DEF RequestRun, Hops
    <3>2. CASE EnqueueWorkflow(c, e)
      BY <1>0, <3>2, IdleRuns, EasyHops, EasyPoints DEF EnqueueWorkflow
    <3> QED BY <1>2, <3>1, <3>2
  <2>2. /\ execution' \in [Executions -> ExecutionStatuses]
        /\ UNCHANGED <<steps, jobs, products, artifacts, errors, trail, reports>>
        /\ Quiet /\ UNCHANGED faults
    BY <1>0, <1>2, TablesTyped DEF TablesOK, RequestRun, EnqueueWorkflow, spent, Quiet
  <2>3. TablesOK' /\ faults' \in 0..MaxFaults
    BY <2>2, TablesTyped, SpentTyped DEF TablesOK, Quiet
  <2> QED BY <1>0, <2>1, <2>2, <2>3, StepTyped
<1> QED BY <1>1, <1>2

LEMMA BrokerTyped ==
  ASSUME TypeInv, NEW x \in Procs,
         \/ Dispatch(x) \/ Load(x) \/ Ack(x) \/ Handover(x) \/ PendingRollback(x)
         \/ \E e \in Executions : Deliver(x, e)
  PROVE  TypeInv'
<1>1. UNCHANGED <<plan, tables>> /\ UNCHANGED spent
  BY DEF Dispatch, Load, Ack, Handover, PendingRollback, Deliver
<1>2. CASE \E e \in Executions : Deliver(x, e)
  <2>1. PICK e \in Executions : Deliver(x, e)
    BY <1>2
  <2>2. queue' \in [Executions -> Nat]
    BY <2>1, SpentTyped DEF Deliver
  <2>3. Hops(x)
    BY <2>1, IdleRuns, EasyHops, EasyPoints DEF Deliver
  <2> QED BY <1>1, <2>2, <2>3, ControlTyped, SpentTyped DEF spent
<1>3. CASE Dispatch(x) \/ Load(x) \/ Ack(x) \/ Handover(x) \/ PendingRollback(x)
  <2>0. pc[x] # "idle"
    BY <1>3 DEF Dispatch, Load, Ack, Handover, PendingRollback, AtDb, DbPc, TryPc, HandlerPc
  <2>1. queue' \in [Executions -> Nat]
    BY <1>3, <2>0, SpentTyped, BusyRuns
       DEF Dispatch, Load, Ack, Handover, PendingRollback
  <2>2. Hops(x)
    <3>1. CASE Load(x)
      <4>1. Exec(x) \in Executions /\ execution[Exec(x)] \in ExecutionStatuses
        BY <2>0, BusyRuns, TablesTyped DEF TablesOK
      <4>2. /\ FreshRun(Exec(x), execution[Exec(x)]) \in Run
            /\ FreshRun(Exec(x), execution[Exec(x)]).exec \in Executions
        BY <4>1, FreshRuns
      <4>3. CASE Valid
        BY <3>1, <4>2, <4>3, StartPoint DEF Load, Hops
      <4>4. CASE ~Valid
        BY <3>1, <4>2, <4>4, EasyHops, EasyPoints DEF Load
      <4> QED BY <4>3, <4>4
    <3>2. CASE Dispatch(x) \/ Ack(x) \/ Handover(x) \/ PendingRollback(x)
      BY <2>0, <3>2, BusyRuns DEF Dispatch, Ack, Handover, PendingRollback
    <3> QED BY <1>3, <3>1, <3>2
  <2> QED BY <1>1, <2>1, <2>2, ControlTyped, SpentTyped DEF spent
<1> QED BY <1>2, <1>3

LEMMA FaultsTyped ==
  ASSUME TypeInv, NEW x \in Procs,
         DbFault(x) \/ ClientCrash(x) \/ WorkerCrash(x) \/ Redeliver(x)
  PROVE  TypeInv'
<1>0. pc[x] # "idle" /\ UNCHANGED <<plan, tables>>
  BY DEF DbFault, ClientCrash, WorkerCrash, Redeliver, DbPc, TryPc, HandlerPc, Quiet
<1>1. run[x] \in Run /\ Exec(x) \in Executions /\ run[x].exec = Exec(x)
  BY <1>0, BusyRuns
<1>2. CASE Redeliver(x)
  <2>1. queue' \in [Executions -> Nat] /\ extraMessages' \in 0..MaxExtraMessages
    BY <1>1, <1>2, SpentTyped DEF Redeliver
  <2>2. TypeOK'
    BY <1>2, <2>1 DEF Redeliver, TypeInv, TypeOK, tables, Exec
  <2> QED BY <1>2, <2>2 DEF Redeliver, TypeInv, Fits, Valid, Exists
<1>3. CASE ClientCrash(x) \/ WorkerCrash(x)
  <2>1. queue' \in [Executions -> Nat]
    BY <1>1, <1>3, SpentTyped DEF ClientCrash, WorkerCrash
  <2>2. /\ faults' \in 0..MaxFaults /\ clientCrashes' \in 0..MaxClientCrashes
        /\ workerCrashes' \in 0..MaxWorkerCrashes /\ extraMessages' \in 0..MaxExtraMessages
    BY <1>3, SpentTyped DEF ClientCrash, WorkerCrash
  <2>3. Hops(x)
    BY <1>0, <1>3, BusyRuns DEF ClientCrash, WorkerCrash
  <2> QED BY <1>0, <2>1, <2>2, <2>3, ControlTyped
<1>4. CASE DbFault(x)
  <2>1. PICK length \in MessageLengths :
          Raise(x, [run[x] EXCEPT !.broken = TRUE, !.length = length])
    BY <1>4 DEF DbFault
  <2> DEFINE r == [run[x] EXCEPT !.broken = TRUE, !.length = length]
  <2>2. r \in Run /\ r.exec = Exec(x) /\ r.step = run[x].step
    BY <1>1, AssignedRuns DEF Run
  <2> HIDE DEF r
  <2>3. Hops(x)
    BY <1>0, <2>1, <2>2, RaiseHops DEF r
  <2>4. faults' \in 0..MaxFaults
    <3>1. Affordable(faults, MaxFaults) /\ faults' = faults + 1
      BY <1>4, Zenon DEF DbFault
    <3>2. faults \in Nat
      BY DEF TypeInv, TypeOK
    <3> QED BY <3>1, <3>2, BoundsAreNats DEF Affordable
  <2> QED BY <1>0, <1>4, <2>3, <2>4, ControlTyped, SpentTyped DEF DbFault, Quiet
<1> QED BY <1>2, <1>3, <1>4

LEMMA InitTyped == Init => TypeInv
<1> SUFFICES ASSUME Init PROVE TypeInv
  OBVIOUS
<1>1. plan \in Seq(PlanStep)
  BY DEF Init
<1>2. steps \in Seq(Statuses) /\ Len(steps) = Len(plan)
  <2>1. steps = [s \in 1..Len(plan) |-> "PENDING"] /\ Len(plan) \in Nat
    BY <1>1 DEF Init
  <2>2. steps \in [1..Len(plan) -> Statuses]
    BY <2>1 DEF Statuses
  <2>3. steps \in Seq(Statuses)
    BY <2>1, <2>2, SeqDef
  <2> QED BY <2>1, <2>3, LenProperties
<1>3. "idle" \in Pcs /\ "absent" \in ExecutionStatuses
  BY DEF Pcs, ExecutionStatuses
<1>4. /\ execution \in [Executions -> ExecutionStatuses]
      /\ jobs \in [Executions -> Seq(Job)]
      /\ products \in [Executions -> Seq(Product)]
      /\ artifacts \in [Executions -> Seq(Nat)]
      /\ errors \in [Executions -> Nat]
      /\ trail \in [Executions -> Seq(Record)]
      /\ reports \in [Executions -> Seq(Report)]
      /\ queue \in [Executions -> Nat]
  BY <1>3 DEF Init
<1>5. pc \in [Procs -> Pcs] /\ run \in [Procs -> Run] /\ \A x \in Procs : pc[x] = "idle"
  BY <1>3, IdleRuns DEF Init
<1>6. /\ faults \in 0..MaxFaults /\ clientCrashes \in 0..MaxClientCrashes
      /\ workerCrashes \in 0..MaxWorkerCrashes /\ extraMessages \in 0..MaxExtraMessages
  BY BoundsAreNats DEF Init
<1>7. \A x \in Procs : Fits(pc[x], run[x])
  BY <1>5, PointsAreDistinct DEF Fits
<1>8. TypeOK
  BY <1>2, <1>4, <1>5, <1>6, PointsAreDistinct DEF TypeOK, Init
<1> QED BY <1>7, <1>8 DEF TypeInv

LEMMA NextTyped ==
  ASSUME TypeInv, [Next]_vars
  PROVE  TypeInv'
<1>0. Clients \subseteq Procs /\ Workers \subseteq Procs
  BY DEF Procs
<1>1. CASE UNCHANGED vars
  <2>1. TypeOK'
    BY <1>1 DEF vars, tables, spent, TypeInv, TypeOK, Exec
  <2> QED BY <1>1, <2>1 DEF vars, TypeInv, Fits, Valid, Exists
<1>2. CASE Request
  <2>1. ASSUME NEW e \in Executions, EnqueueExecution(e) PROVE TypeInv'
    <3>1. queue' \in [Executions -> Nat] /\ extraMessages' \in 0..MaxExtraMessages
      BY <2>1, SpentTyped DEF EnqueueExecution
    <3>2. TypeOK'
      BY <2>1, <3>1 DEF EnqueueExecution, TypeInv, TypeOK, tables, Exec
    <3> QED BY <2>1, <3>2 DEF EnqueueExecution, TypeInv, Fits, Valid, Exists
  <2> QED BY <1>2, <2>1, RequestsTyped DEF Request
<1>3. ASSUME NEW x \in Procs, RunStep(x) PROVE TypeInv'
  BY <1>3, ExecutionWritesTyped, AuditWritesTyped, StepWritesTyped, JobWritesTyped, MediaTyped,
     BrokerTyped DEF RunStep, StepOfPlan, Handler
<1>4. ASSUME NEW w \in Workers, TaskStep(w) PROVE TypeInv'
  BY <1>0, <1>4, ExecutionWritesTyped, AuditWritesTyped, BrokerTyped DEF TaskStep
<1>5. CASE Fault
  BY <1>0, <1>5, FaultsTyped DEF Fault
<1>6. CASE (\E c \in Clients : Dispatch(c)) \/ (\E x \in Procs : Handover(x))
  BY <1>0, <1>6, BrokerTyped
<1> QED BY <1>1, <1>2, <1>3, <1>4, <1>5, <1>6 DEF Next, RunNext

(* Type correctness, with what it takes to be inductive: a run only ever works *)
(* on steps its workflow has, however its conditions branch, and a step ends   *)
(* when no item is left.                                                     *)
THEOREM TypeInvariant == Spec => []TypeInv
  BY InitTyped, NextTyped, PTL DEF Spec

(* Every column, message and control point of the runtime stays in range.      *)
THEOREM TypeCorrect == Spec => []TypeOK
<1>1. TypeInv => TypeOK
  BY DEF TypeInv
<1> QED BY <1>1, TypeInvariant, PTL

-----------------------------------------------------------------------------
(* The jobs of a run.  They are its own, whatever other runs of the same      *)
(* execution do; between two items all of them are COMPLETED and counted, and *)
(* while it works on an item all but that item's are.                         *)

BetweenPc == {"start", "log_start", "start_step", "create_job", "complete_step", "complete",
              "log_completion", "report_completion", "handover"} \cup CoordinatorPc

WorkPc == ItemPc \ {"create_job"}

Created(e) == IF e \in Executions THEN DOMAIN jobs[e] ELSE {}

Accounts(x) ==
  /\ run[x].mine \subseteq Created(Exec(x))
  /\ run[x].job = 0 \/ run[x].job \in run[x].mine
  /\ pc[x] \in BetweenPc =>
       /\ \A j \in run[x].mine : jobs[Exec(x)][j].status = "COMPLETED"
       /\ Cardinality(run[x].mine) = run[x].success
  /\ pc[x] \in WorkPc =>
       /\ run[x].job # 0
       /\ \A j \in run[x].mine : j # run[x].job => jobs[Exec(x)][j].status = "COMPLETED"
       /\ Cardinality(run[x].mine) = run[x].success + 1

OwnJobs ==
  \A x, y \in Procs : x # y /\ Exec(x) = Exec(y) => run[x].mine \cap run[y].mine = {}

WorkInv == OwnJobs /\ \A x \in Procs : Accounts(x)

\* A step that touches no job, and takes the run to no work it did not have.
Glides(x) ==
  \E point \in Pcs : \E r \in Run :
    /\ Proceed(x, point, r)
    /\ point \notin WorkPc \/ (pc[x] \in WorkPc /\ r.job = run[x].job)
    /\ \/ r.mine = {} /\ r.job = 0 /\ r.success = 0
       \/ /\ r.mine = run[x].mine /\ r.exec = Exec(x) /\ r.success = run[x].success
          /\ r.job \in {0, run[x].job}
          /\ point \in BetweenPc => pc[x] \in BetweenPc

\* What another process sees of a step: the jobs it calls its own are as they were.
LEMMA OthersAccount ==
  ASSUME TypeInv, NEW y \in Procs, Accounts(y), pc'[y] = pc[y], run'[y] = run[y],
         Exec(y) \in Executions => DOMAIN jobs[Exec(y)] \subseteq DOMAIN jobs'[Exec(y)],
         \A j \in run[y].mine : jobs'[Exec(y)][j] = jobs[Exec(y)][j]
  PROVE  Accounts(y)'
  BY DEF Accounts, Created, Exec

LEMMA GlidingKeepsWork ==
  ASSUME TypeInv, WorkInv, NEW x \in Procs, Glides(x), UNCHANGED jobs
  PROVE  WorkInv'
<1>1. PICK point \in Pcs, r \in Run :
        /\ Proceed(x, point, r)
        /\ point \notin WorkPc \/ (pc[x] \in WorkPc /\ r.job = run[x].job)
        /\ \/ r.mine = {} /\ r.job = 0 /\ r.success = 0
           \/ /\ r.mine = run[x].mine /\ r.exec = Exec(x) /\ r.success = run[x].success
              /\ r.job \in {0, run[x].job}
              /\ point \in BetweenPc => pc[x] \in BetweenPc
  BY DEF Glides
<1>2. \A y \in Procs : /\ pc'[y] = IF y = x THEN point ELSE pc[y]
                       /\ run'[y] = IF y = x THEN r ELSE run[y]
  BY <1>1 DEF TypeInv, TypeOK, Proceed
<1>3. OwnJobs'
  <2>1. r.mine = {} \/ (r.mine = run[x].mine /\ r.exec = Exec(x))
    BY <1>1
  <2> QED BY <1>2, <2>1 DEF WorkInv, OwnJobs, Exec
<1>4. ASSUME NEW y \in Procs, y # x PROVE Accounts(y)'
  BY <1>2, <1>4, OthersAccount DEF WorkInv
<1>5. Accounts(x)'
  <2>1. Accounts(x)
    BY DEF WorkInv
  <2>2. CASE r.mine = {} /\ r.job = 0 /\ r.success = 0
    <3>1. Cardinality({}) = 0
      BY FS_EmptySet
    <3>2. point \notin WorkPc
      <4>1. SUFFICES ASSUME pc[x] \in WorkPc, r.job = run[x].job PROVE FALSE
        BY <1>1
      <4> QED BY <2>1, <2>2, <4>1 DEF Accounts
    <3> QED BY <1>2, <2>2, <3>1, <3>2 DEF Accounts, Exec
  <2>3. CASE /\ r.mine = run[x].mine /\ r.exec = Exec(x) /\ r.success = run[x].success
             /\ r.job \in {0, run[x].job}
             /\ point \in BetweenPc => pc[x] \in BetweenPc
    BY <1>1, <1>2, <2>1, <2>3 DEF Accounts, Created, Exec
  <2> QED BY <1>1, <2>2, <2>3
<1> QED BY <1>3, <1>4, <1>5 DEF WorkInv

-----------------------------------------------------------------------------
LEMMA WorkPoints ==
  /\ BetweenPc \subseteq Pcs /\ WorkPc \subseteq Pcs /\ WorkPc \subseteq TryPc
  /\ BetweenPc \cap WorkPc = {}
  /\ {"idle", "finished", "safety", "fail_step", "dispatch", "load", "reject", "reject_execution",
      "log_error", "fail_job", "fail_execution", "log_failure", "report_failure"}
       \cap (BetweenPc \cup WorkPc) = {}
  BY DEF CoordinatorPc, BetweenPc, WorkPc, ItemPc, TryPc, Pcs, DbPc, HandlerPc

\* Whoever raises, returns or leaves keeps his accounts or drops them.
LEMMA EndingGlides ==
  ASSUME TypeInv, NEW x \in Procs, pc[x] # "idle",
         NEW r \in Run, r.mine = run[x].mine, r.exec = Exec(x), r.success = run[x].success,
         r.job \in {0, run[x].job}
  PROVE  /\ Raise(x, r) => Glides(x)
         /\ Return(x) => Glides(x)
         /\ Leave(x) => Glides(x)
         /\ LoseAnswer(x, r) => Glides(x)
<1>0. /\ {"idle", "finished", "safety", "fail_step"} \subseteq Pcs
      /\ \A p \in {"idle", "finished", "safety", "fail_step"} : p \notin BetweenPc /\ p \notin WorkPc
  BY WorkPoints, PointsAreDistinct
<1>1. Leave(x) => Glides(x)
  BY <1>0, IdleRuns DEF Leave, Glides, IdleRun
<1>2. Return(x) => Glides(x)
  <2>1. Exec(x) \in Executions
    BY DEF TypeInv, TypeOK
  <2>2. /\ [IdleRun EXCEPT !.exec = Exec(x)] \in Run
        /\ [IdleRun EXCEPT !.exec = Exec(x)].mine = {}
        /\ [IdleRun EXCEPT !.exec = Exec(x)].job = 0
        /\ [IdleRun EXCEPT !.exec = Exec(x)].success = 0
    BY <2>1, IdleRuns DEF IdleRun
  <2> QED BY <1>0, <1>1, <2>2 DEF Return, Glides
<1>3. ASSUME NEW q \in Run, q.mine = run[x].mine, q.exec = Exec(x), q.success = run[x].success,
             q.job \in {0, run[x].job}, Raise(x, q)
      PROVE  Glides(x)
  <2>1. CASE Proceed(x, "fail_step", q) \/ Proceed(x, "safety", q)
    BY <1>0, <1>3, <2>1 DEF Glides
  <2> QED BY <1>2, <1>3, <2>1 DEF Raise
<1>4. ASSUME LoseAnswer(x, r) PROVE Glides(x)
  <2>1. PICK broken \in BOOLEAN, length \in MessageLengths :
          Raise(x, [r EXCEPT !.broken = broken, !.length = length])
    BY <1>4 DEF LoseAnswer
  <2> DEFINE q == [r EXCEPT !.broken = broken, !.length = length]
  <2>2. q \in Run /\ q.exec = r.exec /\ q.mine = r.mine /\ q.success = r.success /\ q.job = r.job
    BY DEF Run, Lengths
  <2> HIDE DEF q
  <2> QED BY <1>3, <2>1, <2>2 DEF q
<1> QED BY <1>1, <1>2, <1>3, <1>4

\* The parts of the locals that the accounts are about.
SameWork(r, q) ==
  r.mine = q.mine /\ r.exec = q.exec /\ r.success = q.success /\ r.job = q.job

LEMMA SeenWork ==
  ASSUME TypeInv, NEW x \in Procs, pc[x] # "idle", NEW status \in Statuses
  PROVE  /\ SeeExecution(x, status) \in Run /\ SameWork(SeeExecution(x, status), run[x])
         /\ pc[x] \in TryPc \cup {"fail_step"} =>
              SeeStep(x, status) \in Run /\ SameWork(SeeStep(x, status), run[x])
<1>1. run[x] \in Run
  BY DEF TypeInv, TypeOK
<1>2. SameWork(SeeExecution(x, status), run[x])
  BY <1>1 DEF SeeExecution, SameWork, Run
<1>3. SameWork(SeeStep(x, status), run[x])
  BY <1>1 DEF SeeStep, SameWork, Run
<1> QED BY <1>2, <1>3, SeenExecutions, SeenSteps

LEMMA AssignedWork ==
  ASSUME NEW r \in Run
  PROVE  /\ \A length \in MessageLengths :
              /\ SameWork([r EXCEPT !.length = length], r)
              /\ SameWork([r EXCEPT !.broken = TRUE, !.length = length], r)
         /\ SameWork([r EXCEPT !.broken = TRUE], r)
         /\ \A n \in Nat : /\ SameWork([r EXCEPT !.left = n], r)
                           /\ SameWork([r EXCEPT !.product = n], r)
                           /\ SameWork([AtStep(r, n) EXCEPT !.job = r.job], r)
                           /\ AtStep(r, n).job = 0
  BY DEF SameWork, AtStep, Run

\* A process that proceeds with its work as it was.
LEMMA SteadyGlides ==
  ASSUME TypeInv, NEW x \in Procs, pc[x] # "idle",
         NEW r \in Run, SameWork(r, run[x]), NEW point \in Pcs, Proceed(x, point, r),
         point \in BetweenPc => pc[x] \in BetweenPc, point \in WorkPc => pc[x] \in WorkPc
  PROVE  Glides(x)
  BY DEF SameWork, Glides, Exec

LEMMA EndingWithWork ==
  ASSUME TypeInv, NEW x \in Procs, pc[x] # "idle", NEW r \in Run, SameWork(r, run[x])
  PROVE  /\ Raise(x, r) => Glides(x)
         /\ LoseAnswer(x, r) => Glides(x)
         /\ Return(x) => Glides(x)
         /\ Leave(x) => Glides(x)
  BY EndingGlides DEF SameWork, Exec

LEMMA OwnWork ==
  ASSUME TypeInv, NEW x \in Procs, pc[x] # "idle"
  PROVE  /\ run[x] \in Run /\ SameWork(run[x], run[x]) /\ Exec(x) \in Executions
         /\ Raise(x, run[x]) => Glides(x)
         /\ Return(x) => Glides(x)
         /\ Leave(x) => Glides(x)
         /\ LoseAnswer(x, run[x]) => Glides(x)
         /\ \A status \in Statuses : LoseAnswer(x, SeeExecution(x, status)) => Glides(x)
         /\ pc[x] \in TryPc \cup {"fail_step"} =>
              \A status \in Statuses : LoseAnswer(x, SeeStep(x, status)) => Glides(x)
         /\ Fail(x) => Glides(x)
<1>1. run[x] \in Run /\ SameWork(run[x], run[x]) /\ Exec(x) \in Executions
  BY BusyRuns DEF SameWork
<1>2. /\ Raise(x, run[x]) => Glides(x)
      /\ Return(x) => Glides(x)
      /\ Leave(x) => Glides(x)
      /\ LoseAnswer(x, run[x]) => Glides(x)
  BY <1>1, EndingWithWork
<1>3. \A status \in Statuses : LoseAnswer(x, SeeExecution(x, status)) => Glides(x)
  BY SeenWork, EndingWithWork
<1>4. pc[x] \in TryPc \cup {"fail_step"} =>
        \A status \in Statuses : LoseAnswer(x, SeeStep(x, status)) => Glides(x)
  BY SeenWork, EndingWithWork
<1>5. ASSUME NEW length \in MessageLengths, Raise(x, [run[x] EXCEPT !.length = length])
      PROVE  Glides(x)
  <2> DEFINE r == [run[x] EXCEPT !.length = length]
  <2>1. r \in Run /\ SameWork(r, run[x])
    BY <1>1, AssignedRuns, AssignedWork
  <2> HIDE DEF r
  <2> QED BY <1>5, <2>1, EndingWithWork DEF r
<1> QED BY <1>1, <1>2, <1>3, <1>4, <1>5 DEF Fail

LEMMA ExecutionWritesGlide ==
  ASSUME TypeInv, NEW x \in Procs,
         \/ RejectExecution(x) \/ Start(x) \/ FailExecution(x) \/ Complete(x) \/ Safety(x)
  PROVE  Glides(x) /\ UNCHANGED jobs
<1>0. /\ pc[x] # "idle" /\ {"FAILED", "RUNNING", "COMPLETED"} \subseteq Statuses
      /\ UNCHANGED jobs
  BY DEF RejectExecution, Start, FailExecution, Complete, Safety, AtDb, Statuses
<1>1. \A status \in Statuses :
        SeeExecution(x, status) \in Run /\ SameWork(SeeExecution(x, status), run[x])
  BY <1>0, SeenWork
<1>2. {"log_failure", "log_start", "log_completion"} \subseteq Pcs \ WorkPc
      /\ "log_failure" \notin BetweenPc /\ {"start", "complete"} \subseteq BetweenPc
  BY DEF CoordinatorPc, Pcs, DbPc, HandlerPc, WorkPc, ItemPc, BetweenPc
<1>3. CASE RejectExecution(x) \/ Safety(x)
  BY <1>0, <1>3, OwnWork DEF RejectExecution, Safety
<1>4. CASE FailExecution(x)
  BY <1>0, <1>1, <1>2, <1>4, OwnWork, SteadyGlides DEF FailExecution
<1>5. CASE Start(x)
  BY <1>0, <1>1, <1>2, <1>5, OwnWork, SteadyGlides DEF Start, AtDb
<1>6. CASE Complete(x)
  BY <1>0, <1>1, <1>2, <1>6, OwnWork, SteadyGlides DEF Complete, AtDb
<1> QED BY <1>0, <1>3, <1>4, <1>5, <1>6

\* A run that turns to another step, between two items of its work.
LEMMA TurningGlides ==
  ASSUME TypeInv, NEW x \in Procs, pc[x] \in BetweenPc, NEW r \in Run, SameWork(r, run[x]),
         NEW s \in Nat, Proceed(x, "start_step", AtStep(r, s))
  PROVE  Glides(x)
<1> DEFINE q == AtStep(r, s)
<1>1. /\ q \in Run /\ q.job = 0
      /\ q.mine = r.mine /\ q.exec = r.exec /\ q.success = r.success
  BY AssignedRuns DEF AtStep, Run
<1>2. "start_step" \in Pcs /\ "start_step" \notin WorkPc
  BY DEF Pcs, DbPc, TryPc, WorkPc, ItemPc
<1> HIDE DEF q
<1>3. Proceed(x, "start_step", q)
  BY DEF q
<1> QED BY <1>1, <1>2, <1>3 DEF Glides, SameWork, Exec

LEMMA AuditWritesGlide ==
  ASSUME TypeInv, NEW x \in Procs,
         \/ Reject(x) \/ LogStart(x) \/ LogError(x) \/ LogFailure(x) \/ ReportFailure(x)
         \/ LogCompletion(x) \/ ReportCompletion(x)
  PROVE  Glides(x) /\ UNCHANGED jobs
<1>0. pc[x] # "idle" /\ UNCHANGED jobs
  BY DEF Reject, LogStart, LogError, LogFailure, ReportFailure, LogCompletion,
         ReportCompletion, AtDb
<1>1. /\ run[x] \in Run /\ SameWork(run[x], run[x])
      /\ {"reject_execution", "fail_execution", "fail_job", "report_failure", "report_completion",
          "handover"} \subseteq Pcs \ WorkPc
      /\ {"reject_execution", "fail_execution", "fail_job", "report_failure"} \cap BetweenPc = {}
      /\ {"log_completion", "report_completion", "log_start"} \subseteq BetweenPc
  BY <1>0, OwnWork DEF CoordinatorPc, Pcs, DbPc, HandlerPc, WorkPc, ItemPc, BetweenPc
<1>2. CASE Reject(x) \/ ReportFailure(x)
  BY <1>0, <1>1, <1>2, OwnWork, SteadyGlides DEF Reject, ReportFailure
<1>3. CASE LogCompletion(x) \/ ReportCompletion(x)
  BY <1>0, <1>1, <1>3, OwnWork, SteadyGlides DEF LogCompletion, ReportCompletion, AtDb
<1>4. CASE LogError(x)
  <2>1. AfterError(x) \in {"fail_execution", "fail_job"}
    BY DEF AfterError
  <2> QED BY <1>0, <1>1, <1>4, <2>1, OwnWork, SteadyGlides DEF LogError
<1>5. CASE LogFailure(x)
  <2> DEFINE r == [run[x] EXCEPT !.broken = TRUE]
  <2>1. r \in Run /\ SameWork(r, run[x])
    BY <1>1, AssignedRuns, AssignedWork
  <2> HIDE DEF r
  <2>2. Raise(x, r) => Glides(x)
    BY <1>0, <2>1, EndingWithWork
  <2> QED BY <1>0, <1>1, <1>5, <2>2, OwnWork, SteadyGlides DEF LogFailure, r
<1>6. CASE LogStart(x)
  BY <1>0, <1>1, <1>6, OwnWork, TurningGlides DEF LogStart, AtDb
<1> QED BY <1>0, <1>2, <1>3, <1>4, <1>5, <1>6

LEMMA StepWritesGlide ==
  ASSUME TypeInv, NEW x \in Procs, StartStep(x) \/ CompleteStep(x) \/ FailStep(x)
  PROVE  Glides(x) /\ UNCHANGED jobs
<1>0. /\ pc[x] \in TryPc \cup {"fail_step"} /\ pc[x] # "idle" /\ UNCHANGED jobs
      /\ {"RUNNING", "COMPLETED", "FAILED"} \subseteq Statuses
  BY DEF StartStep, CompleteStep, FailStep, AtDb, TryPc, Statuses
<1>1. \A status \in Statuses : SeeStep(x, status) \in Run /\ SameWork(SeeStep(x, status), run[x])
  BY <1>0, SeenWork
<1>2. /\ {"create_job", "complete_step", "complete", "log_error"} \subseteq Pcs \ WorkPc
      /\ "log_error" \notin BetweenPc /\ {"start_step", "complete_step"} \subseteq BetweenPc
  BY DEF CoordinatorPc, Pcs, DbPc, TryPc, HandlerPc, WorkPc, ItemPc, BetweenPc
<1>3. ASSUME NEW status \in Statuses, NEW length \in MessageLengths,
             Raise(x, [SeeStep(x, status) EXCEPT !.length = length])
      PROVE  Glides(x)
  <2> DEFINE q == SeeStep(x, status)
             r == [q EXCEPT !.length = length]
  <2>1. q \in Run /\ SameWork(q, run[x])
    BY <1>1
  <2>2. r \in Run /\ SameWork(r, run[x])
    <3> HIDE DEF q
    <3> QED BY <2>1, AssignedRuns, AssignedWork DEF SameWork
  <2>3. Raise(x, r)
    BY <1>3
  <2> HIDE DEF q, r
  <2> QED BY <1>0, <2>2, <2>3, EndingWithWork
<1>4. CASE FailStep(x)
  BY <1>0, <1>1, <1>2, <1>4, OwnWork, SteadyGlides DEF FailStep
<1>5. CASE StartStep(x)
  <2>1. ASSUME NEW n \in Nat,
               Proceed(x, NextItem([SeeStep(x, "RUNNING") EXCEPT !.left = n]),
                       [SeeStep(x, "RUNNING") EXCEPT !.left = n])
        PROVE  Glides(x)
    <3> DEFINE q == SeeStep(x, "RUNNING")
               r == [q EXCEPT !.left = n]
    <3>1. q \in Run /\ SameWork(q, run[x])
      BY <1>0, <1>1
    <3>2. r \in Run /\ SameWork(r, run[x])
      <4> HIDE DEF q
      <4> QED BY <3>1, AssignedRuns, AssignedWork DEF SameWork
    <3>3. Proceed(x, NextItem(r), r)
      BY <2>1
    <3> HIDE DEF q, r
    <3>4. NextItem(r) \in {"create_job", "complete_step"} /\ pc[x] \in BetweenPc
      BY <1>2, <1>5 DEF NextItem, StartStep, AtDb
    <3> QED BY <1>0, <1>2, <3>2, <3>3, <3>4, SteadyGlides
  <2>2. \A s : Items(s) \subseteq Nat
    BY BoundsAreNats DEF Items
  <2> QED BY <1>0, <1>3, <1>5, <2>1, <2>2, OwnWork DEF StartStep
<1>6. CASE CompleteStep(x)
  <2>1. /\ Valid /\ run[x].step \in DOMAIN plan /\ plan \in Seq(PlanStep)
        /\ pc[x] \in BetweenPc
    BY <1>2, <1>6, TryingRuns DEF CompleteStep, AtDb, TryPc
  <2>2. \A next \in NextSteps(run[x].step) : next \in Nat
    BY <2>1, NextStepsExist
  <2> DEFINE q == SeeStep(x, "COMPLETED")
  <2>3. q \in Run /\ SameWork(q, run[x])
    BY <1>0, <1>1
  <2> HIDE DEF q
  <2>4. Proceed(x, "complete", q) => Glides(x)
    BY <1>0, <1>2, <2>1, <2>3, SteadyGlides
  <2>5. \A s \in Nat : Proceed(x, "start_step", AtStep(q, s)) => Glides(x)
    BY <2>1, <2>3, TurningGlides
  <2> QED BY <1>0, <1>3, <1>6, <2>2, <2>4, <2>5, OwnWork DEF CompleteStep, q
<1> QED BY <1>0, <1>4, <1>5, <1>6

LEMMA MediaGlides ==
  ASSUME TypeInv, NEW x \in Procs, Operate(x) \/ Register(x) \/ Link(x) \/ Presign(x)
  PROVE  Glides(x) /\ UNCHANGED jobs
<1>0. pc[x] # "idle" /\ UNCHANGED jobs /\ pc[x] \in WorkPc
  BY DEF Operate, Register, Link, Presign, AtDb, tables, WorkPc, ItemPc
<1>1. /\ {"complete_job", "register", "link", "presign"} \subseteq Pcs \ BetweenPc
      /\ run[x] \in Run /\ Exec(x) \in Executions /\ SameWork(run[x], run[x])
  BY <1>0, OwnWork DEF CoordinatorPc, Pcs, DbPc, TryPc, BetweenPc
<1>2. CASE Operate(x)
  <2> DEFINE r == [run[x] EXCEPT !.product = Len(products[Exec(x)]) + 1]
  <2>1. Len(products[Exec(x)]) + 1 \in Nat
    BY <1>1, TablesTyped, LenProperties DEF TablesOK
  <2>2. r \in Run /\ SameWork(r, run[x])
    BY <1>1, <2>1, AssignedRuns, AssignedWork
  <2> HIDE DEF r
  <2> QED BY <1>0, <1>1, <1>2, <2>2, OwnWork, SteadyGlides DEF Operate, r
<1>3. CASE Register(x) \/ Link(x) \/ Presign(x)
  BY <1>0, <1>1, <1>3, OwnWork, SteadyGlides DEF Register, Link, Presign
<1> QED BY <1>0, <1>2, <1>3

LEMMA BrokerGlides ==
  ASSUME TypeInv, NEW x \in Procs,
         \/ Dispatch(x) \/ Load(x) \/ Ack(x) \/ Handover(x) \/ PendingRollback(x)
         \/ \E e \in Executions : Deliver(x, e) \/ RequestRun(x, e) \/ EnqueueWorkflow(x, e)
  PROVE  Glides(x) /\ UNCHANGED jobs
<1>1. UNCHANGED jobs
  BY DEF Dispatch, Load, Ack, Handover, PendingRollback, Deliver, RequestRun, EnqueueWorkflow,
         tables
<1>2. /\ {"start", "reject", "load", "dispatch"} \subseteq Pcs \ WorkPc
      /\ "PENDING" \in ExecutionStatuses
  BY DEF Pcs, DbPc, WorkPc, ItemPc, ExecutionStatuses, Statuses
<1>3. ASSUME NEW e \in Executions, NEW status \in ExecutionStatuses
      PROVE  /\ FreshRun(e, status) \in Run /\ FreshRun(e, status).mine = {}
             /\ FreshRun(e, status).job = 0 /\ FreshRun(e, status).success = 0
  BY FreshRuns DEF FreshRun, IdleRun
<1>4. CASE \E e \in Executions : Deliver(x, e) \/ RequestRun(x, e) \/ EnqueueWorkflow(x, e)
  <2>1. ASSUME NEW e \in Executions
        PROVE  /\ [IdleRun EXCEPT !.exec = e] \in Run /\ [IdleRun EXCEPT !.exec = e].mine = {}
               /\ [IdleRun EXCEPT !.exec = e].job = 0 /\ [IdleRun EXCEPT !.exec = e].success = 0
    BY IdleRuns DEF IdleRun
  <2>2. PICK e \in Executions : Deliver(x, e) \/ RequestRun(x, e) \/ EnqueueWorkflow(x, e)
    BY <1>4
  <2> DEFINE r == [IdleRun EXCEPT !.exec = e]
  <2>3. CASE Deliver(x, e) \/ EnqueueWorkflow(x, e)
    <3>1. r \in Run /\ r.mine = {} /\ r.job = 0 /\ r.success = 0
      BY <2>1, <2>2
    <3>2. PICK point \in {"load", "dispatch"} : Proceed(x, point, r)
      BY <2>2, <2>3 DEF Deliver, EnqueueWorkflow
    <3> HIDE DEF r
    <3>3. point \in Pcs /\ point \notin WorkPc
      BY <1>2, <3>2
    <3>4. Glides(x)
      BY <3>1, <3>2, <3>3 DEF Glides
    <3> QED BY <1>1, <3>4
  <2>4. CASE RequestRun(x, e)
    BY <1>2, <1>3, <2>4 DEF RequestRun, Glides
  <2> QED BY <1>1, <2>2, <2>3, <2>4
<1>5. CASE Load(x)
  <2>1. Exec(x) \in Executions /\ execution[Exec(x)] \in ExecutionStatuses
    BY <1>5, BusyRuns, TablesTyped DEF Load, AtDb, TablesOK
  <2>2. PICK point \in {"start", "reject"} :
          Proceed(x, point, FreshRun(Exec(x), execution[Exec(x)]))
    BY <1>5 DEF Load
  <2> QED BY <1>1, <1>2, <1>3, <2>1, <2>2 DEF Glides
<1>6. CASE Dispatch(x) \/ Ack(x) \/ Handover(x) \/ PendingRollback(x)
  <2>1. pc[x] # "idle"
    BY <1>6 DEF Dispatch, Ack, Handover, PendingRollback, DbPc, TryPc, HandlerPc
  <2> QED BY <1>1, <1>6, <2>1, OwnWork DEF Dispatch, Ack, Handover, PendingRollback
<1> QED BY <1>4, <1>5, <1>6

LEMMA FaultsGlide ==
  ASSUME TypeInv, NEW x \in Procs, DbFault(x) \/ ClientCrash(x) \/ WorkerCrash(x)
  PROVE  Glides(x) /\ UNCHANGED jobs
<1>0. pc[x] # "idle" /\ UNCHANGED jobs
  BY DEF DbFault, ClientCrash, WorkerCrash, DbPc, TryPc, HandlerPc, tables
<1>1. run[x] \in Run /\ SameWork(run[x], run[x])
  BY <1>0, OwnWork
<1>2. CASE ClientCrash(x) \/ WorkerCrash(x)
  BY <1>0, <1>2, OwnWork DEF ClientCrash, WorkerCrash
<1>3. CASE DbFault(x)
  <2>1. PICK length \in MessageLengths :
          Raise(x, [run[x] EXCEPT !.broken = TRUE, !.length = length])
    BY <1>3 DEF DbFault
  <2> DEFINE r == [run[x] EXCEPT !.broken = TRUE, !.length = length]
  <2>2. r \in Run /\ SameWork(r, run[x])
    BY <1>1, AssignedRuns, AssignedWork
  <2> HIDE DEF r
  <2> QED BY <1>0, <2>1, <2>2, EndingWithWork DEF r
<1> QED BY <1>0, <1>2, <1>3

-----------------------------------------------------------------------------
(* The steps that write jobs.                                                *)

\* A status is written to a job of the run's own: the others do not notice.
LEMMA SetJobAlone ==
  ASSUME TypeInv, WorkInv, NEW x \in Procs, pc[x] # "idle", run[x].job # 0,
         NEW status \in Statuses, SetJob(x, status),
         NEW point \in Pcs, NEW r \in Run, Proceed(x, point, r),
         r.mine = {} \/ (r.mine = run[x].mine /\ r.exec = Exec(x))
  PROVE  /\ OwnJobs' /\ \A y \in Procs : y # x => Accounts(y)'
         /\ pc'[x] = point /\ run'[x] = r
         /\ run[x].job \in run[x].mine /\ run[x].mine \subseteq DOMAIN jobs'[Exec(x)]
         /\ \A j \in run[x].mine :
              jobs'[Exec(x)][j].status = IF j = run[x].job THEN status ELSE jobs[Exec(x)][j].status
<1>1. \A y \in Procs : /\ pc'[y] = IF y = x THEN point ELSE pc[y]
                       /\ run'[y] = IF y = x THEN r ELSE run[y]
  BY DEF TypeInv, TypeOK, Proceed
<1>2. /\ Exec(x) \in Executions /\ jobs \in [Executions -> Seq(Job)]
      /\ run[x].job \in run[x].mine /\ run[x].mine \subseteq DOMAIN jobs[Exec(x)]
  BY DEF TypeInv, TypeOK, WorkInv, Accounts, Created
<1> DEFINE row == [jobs[Exec(x)][run[x].job] EXCEPT !.status = status]
<1>3. /\ jobs' = [jobs EXCEPT ![Exec(x)] = [jobs[Exec(x)] EXCEPT ![run[x].job] = row]]
      /\ row.status = status
  <2>1. jobs[Exec(x)] \in Seq(Job) /\ run[x].job \in DOMAIN jobs[Exec(x)]
    BY <1>2
  <2>2. jobs[Exec(x)][run[x].job] \in Job
    BY <2>1, LenProperties, ElementOfSeq
  <2> QED BY <2>2 DEF SetJob, Job
<1> HIDE DEF row
<1>4. /\ \A e \in Executions : e # Exec(x) => jobs'[e] = jobs[e]
      /\ jobs'[Exec(x)] = [jobs[Exec(x)] EXCEPT ![run[x].job] = row]
  BY <1>2, <1>3
<1>5. /\ DOMAIN jobs'[Exec(x)] = DOMAIN jobs[Exec(x)]
      /\ \A j \in DOMAIN jobs[Exec(x)] :
           jobs'[Exec(x)][j] = IF j = run[x].job THEN row ELSE jobs[Exec(x)][j]
  BY <1>4
<1>6. OwnJobs'
  BY <1>1 DEF WorkInv, OwnJobs, Exec
<1>7. ASSUME NEW y \in Procs, y # x PROVE Accounts(y)'
  <2>1. Accounts(y) /\ run[y].mine \subseteq Created(Exec(y))
    BY DEF WorkInv, Accounts
  <2>2. CASE Exec(y) = Exec(x)
    <3>1. \A j \in run[y].mine : j # run[x].job /\ j \in DOMAIN jobs[Exec(x)]
      BY <1>2, <1>7, <2>1, <2>2 DEF WorkInv, OwnJobs, Created
    <3> QED BY <1>1, <1>5, <1>7, <2>1, <2>2, <3>1, OthersAccount
  <2>3. CASE Exec(y) # Exec(x)
    <3>1. Exec(y) \in Executions => jobs'[Exec(y)] = jobs[Exec(y)]
      BY <1>4, <2>3
    <3>2. run[y].mine # {} => Exec(y) \in Executions
      BY <2>1 DEF Created
    <3> QED BY <1>1, <1>7, <2>1, <3>1, <3>2, OthersAccount
  <2> QED BY <2>2, <2>3
<1> QED BY <1>1, <1>2, <1>3, <1>5, <1>6, <1>7

\* A process that ends its work, or turns to an exception, with the accounts it has.
Departs(x) ==
  \E point \in {"idle", "finished", "safety", "fail_step", "fail_execution"}, r \in Run :
    /\ Proceed(x, point, r)
    /\ \/ r.mine = {} /\ r.job = 0
       \/ r.mine = run[x].mine /\ r.exec = Exec(x) /\ r.job = run[x].job

LEMMA LosingDeparts ==
  ASSUME TypeInv, NEW x \in Procs, pc[x] # "idle"
  PROVE  LoseAnswer(x, run[x]) => Departs(x)
<1>1. ASSUME LoseAnswer(x, run[x]) PROVE Departs(x)
  <2>1. PICK broken \in BOOLEAN, length \in MessageLengths :
          Raise(x, [run[x] EXCEPT !.broken = broken, !.length = length])
    BY <1>1 DEF LoseAnswer
  <2> DEFINE q == [run[x] EXCEPT !.broken = broken, !.length = length]
  <2>2. q \in Run /\ q.exec = Exec(x) /\ q.mine = run[x].mine /\ q.job = run[x].job
    <3>1. run[x] \in Run
      BY BusyRuns
    <3> QED BY <3>1 DEF Run, Lengths, Exec
  <2> HIDE DEF q
  <2>3. CASE Return(x)
    <3>1. CASE Leave(x)
      BY <3>1, IdleRuns DEF Leave, Departs, IdleRun
    <3>2. CASE Proceed(x, "finished", [IdleRun EXCEPT !.exec = Exec(x)])
      <4> DEFINE r == [IdleRun EXCEPT !.exec = Exec(x)]
      <4>1. r \in Run /\ r.mine = {} /\ r.job = 0
        BY BusyRuns, IdleRuns DEF IdleRun
      <4> HIDE DEF r
      <4> QED BY <3>2, <4>1 DEF Departs, r
    <3> QED BY <2>3, <3>1, <3>2 DEF Return
  <2>4. CASE Proceed(x, "fail_step", q) \/ Proceed(x, "safety", q)
    BY <2>2, <2>4 DEF Departs
  <2> QED BY <2>1, <2>3, <2>4 DEF Raise, q
<1> QED BY <1>1

LEMMA DepartingKeepsWork ==
  ASSUME TypeInv, WorkInv, NEW x \in Procs, pc[x] # "idle", run[x].job # 0,
         NEW status \in Statuses, SetJob(x, status), Departs(x)
  PROVE  WorkInv'
<1>1. PICK point \in {"idle", "finished", "safety", "fail_step", "fail_execution"}, r \in Run :
        /\ Proceed(x, point, r)
        /\ \/ r.mine = {} /\ r.job = 0
           \/ r.mine = run[x].mine /\ r.exec = Exec(x) /\ r.job = run[x].job
  BY DEF Departs
<1>2. point \in Pcs /\ point \notin BetweenPc /\ point \notin WorkPc
  BY WorkPoints DEF Pcs, DbPc, HandlerPc, BetweenPc, WorkPc, ItemPc, TryPc
<1>3. /\ OwnJobs' /\ \A y \in Procs : y # x => Accounts(y)'
      /\ pc'[x] = point /\ run'[x] = r
      /\ run[x].job \in run[x].mine /\ run[x].mine \subseteq DOMAIN jobs'[Exec(x)]
  BY <1>1, <1>2, SetJobAlone
<1>4. Exec(x) \in Executions
  BY BusyRuns
<1>5. Accounts(x)'
  BY <1>1, <1>2, <1>3, <1>4 DEF Accounts, Created, Exec
<1> QED BY <1>3, <1>5 DEF WorkInv

LEMMA BeginningKeepsWork ==
  ASSUME TypeInv, WorkInv, NEW x \in Procs, BeginJob(x) PROVE WorkInv'
<1>1. /\ pc[x] # "idle" /\ pc[x] \in WorkPc /\ SetJob(x, "RUNNING")
      /\ "RUNNING" \in Statuses
  BY DEF BeginJob, AtDb, WorkPc, ItemPc, Statuses
<1>2. Accounts(x) /\ run[x].job # 0
  BY <1>1 DEF WorkInv, Accounts
<1>3. CASE LoseAnswer(x, run[x])
  BY <1>1, <1>2, <1>3, LosingDeparts, DepartingKeepsWork
<1>4. CASE Proceed(x, "operate", run[x])
  <2>1. "operate" \in Pcs /\ "operate" \notin BetweenPc
    BY DEF CoordinatorPc, Pcs, BetweenPc
  <2>2. run[x] \in Run /\ Exec(x) \in Executions
    BY <1>1, BusyRuns
  <2>3. /\ OwnJobs' /\ \A y \in Procs : y # x => Accounts(y)'
        /\ pc'[x] = "operate" /\ run'[x] = run[x]
        /\ run[x].job \in run[x].mine /\ run[x].mine \subseteq DOMAIN jobs'[Exec(x)]
        /\ \A j \in run[x].mine : jobs'[Exec(x)][j].status =
             IF j = run[x].job THEN "RUNNING" ELSE jobs[Exec(x)][j].status
    BY <1>1, <1>2, <1>4, <2>1, <2>2, SetJobAlone DEF Exec
  <2>4. Accounts(x)'
    BY <1>1, <1>2, <2>1, <2>2, <2>3 DEF Accounts, Created, Exec
  <2> QED BY <2>3, <2>4 DEF WorkInv
<1> QED BY <1>3, <1>4 DEF BeginJob

LEMMA CompletingKeepsWork ==
  ASSUME TypeInv, WorkInv, NEW x \in Procs, CompleteJob(x) PROVE WorkInv'
<1>1. /\ pc[x] # "idle" /\ pc[x] \in WorkPc /\ SetJob(x, "COMPLETED")
      /\ "COMPLETED" \in Statuses
  BY DEF CompleteJob, AtDb, WorkPc, ItemPc, Statuses
<1>2. Accounts(x) /\ run[x].job # 0
  BY <1>1 DEF WorkInv, Accounts
<1>3. CASE LoseAnswer(x, run[x])
  BY <1>1, <1>2, <1>3, LosingDeparts, DepartingKeepsWork
<1> DEFINE r == [run[x] EXCEPT !.success = @ + 1, !.left = @ - 1]
<1>4. CASE Answered /\ Proceed(x, NextItem(r), r)
  <2>1. run[x] \in Run /\ Exec(x) \in Executions
    BY <1>1, BusyRuns
  <2>2. /\ r.mine = run[x].mine /\ r.exec = Exec(x) /\ r.success = run[x].success + 1
        /\ r.job = run[x].job
    BY <2>1 DEF Run, Exec
  <2>3. r \in Run
    <3>1. run[x].left > 0
      BY TryingRuns DEF CompleteJob, AtDb, TryPc, ItemPc
    <3> QED BY <2>1, <3>1, AssignedRuns
  <2> HIDE DEF r
  <2>4. PICK point \in {"create_job", "complete_step"} : Proceed(x, point, r)
    BY <1>4 DEF NextItem
  <2>5. point \in Pcs /\ point \notin WorkPc
    BY DEF Pcs, DbPc, TryPc, WorkPc, ItemPc
  <2>6. /\ OwnJobs' /\ \A y \in Procs : y # x => Accounts(y)'
        /\ pc'[x] = point /\ run'[x] = r
        /\ run[x].job \in run[x].mine /\ run[x].mine \subseteq DOMAIN jobs'[Exec(x)]
        /\ \A j \in run[x].mine : jobs'[Exec(x)][j].status =
             IF j = run[x].job THEN "COMPLETED" ELSE jobs[Exec(x)][j].status
    BY <1>1, <1>2, <2>2, <2>3, <2>4, <2>5, SetJobAlone
  <2>7. Accounts(x)'
    BY <1>1, <1>2, <2>1, <2>2, <2>5, <2>6 DEF Accounts, Created, Exec
  <2> QED BY <2>6, <2>7 DEF WorkInv
<1> QED BY <1>3, <1>4 DEF CompleteJob

LEMMA FailingKeepsWork ==
  ASSUME TypeInv, WorkInv, NEW x \in Procs, FailJob(x) PROVE WorkInv'
<1>1. /\ pc[x] # "idle" /\ pc[x] = "fail_job" /\ SetJob(x, "FAILED") /\ "FAILED" \in Statuses
  BY DEF FailJob, AtDb, Statuses
<1>2. run[x] \in Run /\ SameWork(run[x], run[x]) /\ Exec(x) \in Executions
  BY <1>1, OwnWork
<1>3. Proceed(x, "fail_execution", run[x]) \/ LoseAnswer(x, run[x])
  BY DEF FailJob
<1>4. CASE run[x].job = 0
  <2>1. jobs \in [Executions -> Seq(Job)] /\ 0 \notin DOMAIN jobs[Exec(x)]
    <3>1. jobs \in [Executions -> Seq(Job)] /\ jobs[Exec(x)] \in Seq(Job)
      BY <1>2 DEF TypeInv, TypeOK
    <3> QED BY <3>1, LenProperties
  <2>2. UNCHANGED jobs
    BY <1>1, <1>2, <1>4, <2>1 DEF SetJob
  <2>3. "fail_execution" \in Pcs /\ "fail_execution" \notin BetweenPc \cup WorkPc
    BY DEF CoordinatorPc, Pcs, DbPc, HandlerPc, BetweenPc, WorkPc, ItemPc
  <2>4. Glides(x)
    BY <1>1, <1>2, <1>3, <2>3, OwnWork, SteadyGlides
  <2> QED BY <2>2, <2>4, GlidingKeepsWork
<1>5. CASE run[x].job # 0
  <2>1. Departs(x)
    BY <1>1, <1>2, <1>3, LosingDeparts DEF Departs, Exec
  <2> QED BY <1>1, <1>5, <2>1, DepartingKeepsWork
<1> QED BY <1>4, <1>5

\* A created job is one more of the run's own, and nobody else's.
LEMMA CreatingKeepsWork ==
  ASSUME TypeInv, WorkInv, NEW x \in Procs, CreateJob(x) PROVE WorkInv'
<1> DEFINE n == Len(jobs[Exec(x)]) + 1
           job == [step |-> run[x].step, status |-> "PENDING"]
           own == [run[x] EXCEPT !.mine = @ \cup {n}]
<1>1. /\ pc[x] = "create_job" /\ jobs' = Write(jobs, x, job)
      /\ run[x] \in Run /\ Exec(x) \in Executions
      /\ jobs \in [Executions -> Seq(Job)] /\ jobs[Exec(x)] \in Seq(Job)
      /\ n \in Nat /\ Accounts(x)
  <2>1. pc[x] = "create_job" /\ jobs' = Write(jobs, x, job)
    BY DEF CreateJob, AtDb
  <2>2. /\ run[x] \in Run /\ Exec(x) \in Executions
        /\ jobs \in [Executions -> Seq(Job)] /\ jobs[Exec(x)] \in Seq(Job)
    BY <2>1, BusyRuns DEF TypeInv, TypeOK
  <2> QED BY <2>1, <2>2, LenProperties DEF WorkInv
<1>2. /\ \A e \in Executions : e # Exec(x) => jobs'[e] = jobs[e]
      /\ DOMAIN jobs'[Exec(x)] = DOMAIN jobs[Exec(x)] \cup {n}
      /\ \A j \in DOMAIN jobs[Exec(x)] : jobs'[Exec(x)][j] = jobs[Exec(x)][j]
      /\ DOMAIN jobs[Exec(x)] = 1..(n - 1)
  <2>1. /\ jobs'[Exec(x)] = Append(jobs[Exec(x)], job)
        /\ \A e \in Executions : e # Exec(x) => jobs'[e] = jobs[e]
    BY <1>1 DEF Write
  <2>2. DOMAIN jobs[Exec(x)] = 1..(n - 1) /\ n - 1 = Len(jobs[Exec(x)]) /\ n - 1 \in Nat
    BY <1>1, LenProperties
  <2>3. /\ DOMAIN Append(jobs[Exec(x)], job) = 1..n
        /\ \A j \in 1..(n - 1) : Append(jobs[Exec(x)], job)[j] = jobs[Exec(x)][j]
    <3>1. job \in Job
      BY <1>1 DEF Job, Run, Statuses
    <3> HIDE DEF job
    <3> QED BY <1>1, <2>2, <3>1, AppendProperties
  <2>4. 1..n = (1..(n - 1)) \cup {n}
    BY <2>2
  <2> QED BY <2>1, <2>2, <2>3, <2>4
<1>3. n \notin DOMAIN jobs[Exec(x)]
  BY <1>1, <1>2
<1>4. PICK point \in {"begin_job", "fail_step"}, r \in Run :
        /\ Proceed(x, point, r)
        /\ r.mine = run[x].mine \cup {n} /\ r.exec = Exec(x) /\ r.success = run[x].success
        /\ \/ point = "begin_job" /\ r.job = n
           \/ point = "fail_step" /\ r.job = run[x].job
  <2>1. CASE Proceed(x, "begin_job", [run[x] EXCEPT !.job = n, !.product = 0,
                                                    !.mine = @ \cup {n}])
    <3> DEFINE q == [run[x] EXCEPT !.job = n, !.product = 0, !.mine = @ \cup {n}]
    <3>1. q \in Run
      BY <1>1, AssignedRuns
    <3>2. q.mine = run[x].mine \cup {n} /\ q.exec = Exec(x) /\ q.success = run[x].success
          /\ q.job = n
      BY <1>1 DEF Run, Exec
    <3> HIDE DEF q
    <3> QED BY <2>1, <3>1, <3>2 DEF q
  <2>2. CASE LoseAnswer(x, own)
    <3>1. own \in Run
      BY <1>1, AssignedRuns
    <3>2. own.mine = run[x].mine \cup {n} /\ own.exec = Exec(x) /\ own.success = run[x].success
          /\ own.job = run[x].job
      BY <1>1 DEF Run, Exec
    <3> HIDE DEF own
    <3>3. PICK broken \in BOOLEAN, length \in MessageLengths :
            Raise(x, [own EXCEPT !.broken = broken, !.length = length])
      BY <2>2 DEF LoseAnswer
    <3> DEFINE q == [own EXCEPT !.broken = broken, !.length = length]
    <3>4. q \in Run /\ q.exec = own.exec /\ q.mine = own.mine /\ q.success = own.success
          /\ q.job = own.job
      BY <3>1 DEF Run, Lengths
    <3>5. Proceed(x, "fail_step", q)
      BY <1>1, <3>3 DEF Raise, TryPc
    <3> HIDE DEF q
    <3> QED BY <3>2, <3>4, <3>5
  <2> QED BY <2>1, <2>2 DEF CreateJob
<1> HIDE DEF n, job, own
<1>5. \A y \in Procs : /\ pc'[y] = IF y = x THEN point ELSE pc[y]
                       /\ run'[y] = IF y = x THEN r ELSE run[y]
  BY <1>4 DEF TypeInv, TypeOK, Proceed
<1>6. \A y \in Procs : Exec(y) = Exec(x) => n \notin run[y].mine
  BY <1>1, <1>3 DEF WorkInv, Accounts, Created
<1>7. OwnJobs'
  BY <1>4, <1>5, <1>6 DEF WorkInv, OwnJobs, Exec
<1>8. ASSUME NEW y \in Procs, y # x PROVE Accounts(y)'
  <2>1. Accounts(y) /\ run[y].mine \subseteq Created(Exec(y))
    BY DEF WorkInv, Accounts
  <2>2. CASE Exec(y) = Exec(x)
    <3>1. run[y].mine \subseteq DOMAIN jobs[Exec(x)]
      BY <1>1, <2>1, <2>2 DEF Created
    <3> QED BY <1>2, <1>5, <1>8, <2>1, <2>2, <3>1, OthersAccount
  <2>3. CASE Exec(y) # Exec(x)
    <3>1. Exec(y) \in Executions => jobs'[Exec(y)] = jobs[Exec(y)]
      BY <1>2, <2>3
    <3>2. run[y].mine # {} => Exec(y) \in Executions
      BY <2>1 DEF Created
    <3> QED BY <1>5, <1>8, <2>1, <3>1, <3>2, OthersAccount
  <2> QED BY <2>2, <2>3
<1>9. Accounts(x)'
  <2>1. pc[x] \in BetweenPc /\ run[x].mine \subseteq DOMAIN jobs[Exec(x)] /\ n \notin run[x].mine
    BY <1>1, <1>3 DEF Accounts, Created, BetweenPc
  <2>2. r.mine \subseteq DOMAIN jobs'[Exec(x)]
    BY <1>2, <1>4, <2>1
  <2>3. \A j \in run[x].mine : jobs'[Exec(x)][j].status = "COMPLETED"
    BY <1>1, <1>2, <2>1 DEF Accounts
  <2>4. Cardinality(r.mine) = run[x].success + 1
    <3>1. IsFiniteSet(1..(n - 1))
      <4>1. 1 \in Int /\ n - 1 \in Int
        BY <1>1
      <4> QED BY <4>1, FS_Interval
    <3>2. IsFiniteSet(run[x].mine)
      BY <1>2, <2>1, <3>1, FS_Subset
    <3>3. Cardinality(run[x].mine) = run[x].success
      BY <1>1, <2>1 DEF Accounts
    <3>4. Cardinality(run[x].mine \cup {n}) = Cardinality(run[x].mine) + 1
      BY <2>1, <3>2, FS_AddElement
    <3>5. r.mine = run[x].mine \cup {n}
      BY <1>4
    <3> QED BY <3>3, <3>4, <3>5
  <2>5. /\ "fail_step" \notin BetweenPc /\ "fail_step" \notin WorkPc
        /\ "begin_job" \notin BetweenPc /\ n # 0
    BY <1>1, WorkPoints DEF CoordinatorPc, BetweenPc, n
  <2>6. r.job = 0 \/ r.job \in r.mine
    BY <1>1, <1>4 DEF Accounts
  <2>7. pc'[x] = point /\ run'[x] = r
    BY <1>5
  <2>8. Exec(x)' = Exec(x) /\ Exec(x) \in Executions
    BY <1>1, <1>4, <2>7 DEF Exec
  <2>9. (run[x].mine \subseteq Created(Exec(x)))' /\ (run[x].job = 0 \/ run[x].job \in run[x].mine)'
    BY <2>2, <2>6, <2>7, <2>8 DEF Created
  <2>10. CASE point = "fail_step"
    BY <2>5, <2>7, <2>9, <2>10 DEF Accounts
  <2>11. CASE point = "begin_job"
    <3>1. run'[x].job = n /\ n # 0 /\ run'[x].success = run[x].success
      BY <1>4, <2>5, <2>7, <2>11
    <3>2. \A j \in run'[x].mine : j # n => jobs'[Exec(x)][j].status = "COMPLETED"
      BY <1>4, <2>3, <2>7
    <3> QED BY <1>4, <2>4, <2>5, <2>7, <2>8, <2>9, <2>11, <3>1, <3>2 DEF Accounts
  <2> QED BY <1>4, <2>10, <2>11
<1> QED BY <1>7, <1>8, <1>9 DEF WorkInv

-----------------------------------------------------------------------------
LEMMA InitWork == Init => WorkInv
<1> SUFFICES ASSUME Init PROVE WorkInv
  OBVIOUS
<1>1. \A x \in Procs : pc[x] = "idle" /\ run[x].mine = {} /\ run[x].job = 0
  BY DEF Init, IdleRun
<1>2. OwnJobs
  BY <1>1 DEF OwnJobs
<1>3. "idle" \notin BetweenPc /\ "idle" \notin WorkPc
  BY WorkPoints
<1>4. \A x \in Procs : Accounts(x)
  BY <1>1, <1>3 DEF Accounts
<1> QED BY <1>2, <1>4 DEF WorkInv

LEMMA NextKeepsWork == TypeInv /\ WorkInv /\ [Next]_vars => WorkInv'
<1> SUFFICES ASSUME TypeInv, WorkInv, [Next]_vars PROVE WorkInv'
  OBVIOUS
<1>1. ASSUME UNCHANGED <<pc, run, jobs>> PROVE WorkInv'
  BY <1>1 DEF WorkInv, OwnJobs, Accounts, Created, Exec
<1>2. CASE UNCHANGED vars
  BY <1>1, <1>2 DEF vars, tables
<1>3. ASSUME NEW x \in Procs, RunStep(x) \/ Handover(x) PROVE WorkInv'
  <2>1. CASE Start(x) \/ FailExecution(x) \/ Complete(x)
    BY <2>1, ExecutionWritesGlide, GlidingKeepsWork
  <2>2. CASE \/ LogStart(x) \/ LogError(x) \/ LogFailure(x) \/ ReportFailure(x)
             \/ LogCompletion(x) \/ ReportCompletion(x)
    BY <2>2, AuditWritesGlide, GlidingKeepsWork
  <2>3. CASE StartStep(x) \/ CompleteStep(x) \/ FailStep(x)
    BY <2>3, StepWritesGlide, GlidingKeepsWork
  <2>4. CASE Operate(x) \/ Register(x) \/ Link(x) \/ Presign(x)
    BY <2>4, MediaGlides, GlidingKeepsWork
  <2>5. CASE Handover(x) \/ PendingRollback(x)
    BY <2>5, BrokerGlides, GlidingKeepsWork
  <2>6. CASE CreateJob(x)
    BY <2>6, CreatingKeepsWork
  <2>7. CASE BeginJob(x)
    BY <2>7, BeginningKeepsWork
  <2>8. CASE CompleteJob(x)
    BY <2>8, CompletingKeepsWork
  <2>9. CASE FailJob(x)
    BY <2>9, FailingKeepsWork
  <2> QED BY <1>3, <2>1, <2>2, <2>3, <2>4, <2>5, <2>6, <2>7, <2>8, <2>9
          DEF RunStep, StepOfPlan, Handler
<1>4. ASSUME NEW w \in Workers, TaskStep(w) PROVE WorkInv'
  <2>0. w \in Procs
    BY DEF Procs
  <2>1. CASE RejectExecution(w) \/ Safety(w)
    BY <2>0, <2>1, ExecutionWritesGlide, GlidingKeepsWork
  <2>2. CASE Reject(w)
    BY <2>0, <2>2, AuditWritesGlide, GlidingKeepsWork
  <2>3. CASE Load(w) \/ Ack(w) \/ \E e \in Executions : Deliver(w, e)
    BY <2>0, <2>3, BrokerGlides, GlidingKeepsWork
  <2> QED BY <1>4, <2>1, <2>2, <2>3 DEF TaskStep
<1>5. CASE Request
  <2>1. ASSUME NEW c \in Clients, NEW e \in Executions, RequestRun(c, e) \/ EnqueueWorkflow(c, e)
        PROVE  WorkInv'
    <3>1. c \in Procs
      BY DEF Procs
    <3> QED BY <2>1, <3>1, BrokerGlides, GlidingKeepsWork
  <2>2. ASSUME NEW e \in Executions, EnqueueExecution(e) PROVE WorkInv'
    BY <1>1, <2>2 DEF EnqueueExecution, tables
  <2> QED BY <1>5, <2>1, <2>2 DEF Request
<1>6. ASSUME NEW c \in Clients, Dispatch(c) PROVE WorkInv'
  <2>1. c \in Procs
    BY DEF Procs
  <2> QED BY <1>6, <2>1, BrokerGlides, GlidingKeepsWork
<1>7. CASE Fault
  <2>1. ASSUME NEW x \in Procs, DbFault(x) \/ ClientCrash(x) \/ WorkerCrash(x) PROVE WorkInv'
    BY <2>1, FaultsGlide, GlidingKeepsWork
  <2>2. ASSUME NEW w \in Workers, Redeliver(w) PROVE WorkInv'
    BY <1>1, <2>2 DEF Redeliver, tables
  <2> QED BY <1>7, <2>1, <2>2 DEF Fault, Procs
<1> QED BY <1>2, <1>3, <1>4, <1>5, <1>6, <1>7 DEF Next, RunNext

(* Every job is some run's own and, between two items, COMPLETED and counted:  *)
(* on the way through CreateJob, BeginJob and CompleteJob exactly the current  *)
(* job is not, whatever the other runs and the failing calls do.              *)
THEOREM WorkInvariant == Spec => []WorkInv
<1>1. Init => WorkInv
  BY InitWork
<1>2. TypeInv /\ WorkInv /\ [Next]_vars => WorkInv'
  BY NextKeepsWork
<1> QED BY <1>1, <1>2, TypeInvariant, PTL DEF Spec

(* A run that reaches the writes of its success - the history record, the      *)
(* metrics, the handover - has created no job that is not COMPLETED, and its   *)
(* success_count is the number of its jobs.                                   *)
THEOREM SuccessIsComplete == Spec => []CompletionMeansAllWork
<1>1. TypeInv /\ WorkInv => CompletionMeansAllWork
  <2>1. {"log_completion", "report_completion", "handover"} \subseteq BetweenPc
    BY DEF BetweenPc
  <2> QED BY <2>1 DEF WorkInv, Accounts, CompletionMeansAllWork
<1> QED BY <1>1, TypeInvariant, WorkInvariant, PTL

-----------------------------------------------------------------------------
(* Nothing is left running.  Whatever is PENDING or RUNNING is in the hands of  *)
(* a run that will end it, and that has seen it so: overlapping runs hold stale *)
(* rows, and an update equal to a stale value writes nothing.                   *)

\* Points between the start of an execution and its end.
ActivePc == TryPc \cup {"log_start", "complete", "fail_step", "log_error", "fail_job",
                        "fail_execution"}

\* Points before which a run has closed nothing.
OpenPc == ActivePc \ {"fail_job", "fail_execution"}

\* Points between the start of a step and its end.
StepPc == (TryPc \ {"start_step"}) \cup {"fail_step"}

\* Points between the creation of a job and its end.
JobPc == WorkPc \cup {"fail_step", "log_error", "fail_job"}

OnStep(x, s) == pc[x] \in StepPc /\ run[x].step = s /\ run[x].seenSteps[s] = "RUNNING"

OnExecution(x, e) == pc[x] \in ActivePc /\ Exec(x) = e /\ run[x].seen = "RUNNING"

OnJob(x, e, j) == pc[x] \in JobPc /\ Exec(x) = e /\ run[x].job = j

StepsHeld == \A s \in DOMAIN steps : steps[s] = "RUNNING" => \E x \in Procs : OnStep(x, s)

ExecutionsHeld ==
  \A e \in Executions : execution[e] = "RUNNING" => \E x \in Procs : OnExecution(x, e)

JobsHeld ==
  \A e \in Executions : \A j \in DOMAIN jobs[e] :
    jobs[e][j].status \notin Over => \E x \in Procs : OnJob(x, e, j)

\* A session is broken only by a refused history record, and then the run is over.
SaneRun(point, r) ==
  /\ r.broken => point \in {"safety", "idle", "finished"}
  /\ r.length # "huge"
  /\ point \in {"start"} \cup ActivePc => Len(r.seenSteps) = Len(plan)

Held == StepsHeld /\ ExecutionsHeld /\ JobsHeld /\ \A x \in Procs : SaneRun(pc[x], run[x])

Undisturbed == faults + clientCrashes + workerCrashes = 0

HeldInv == Undisturbed => Held

-----------------------------------------------------------------------------
(* What a step of x must show: whatever is RUNNING or not over after it was so  *)
(* before and is not x's, or is x's now.                                      *)

StepsPass(x) ==
  \A s \in DOMAIN steps' : steps'[s] = "RUNNING" =>
    \/ s \in DOMAIN steps /\ steps[s] = "RUNNING" /\ ~OnStep(x, s)
    \/ OnStep(x, s)'

ExecutionsPass(x) ==
  \A e \in Executions : execution'[e] = "RUNNING" =>
    \/ execution[e] = "RUNNING" /\ ~OnExecution(x, e)
    \/ OnExecution(x, e)'

JobsPass(x) ==
  \A e \in Executions : \A j \in DOMAIN jobs'[e] : jobs'[e][j].status \notin Over =>
    \/ j \in DOMAIN jobs[e] /\ jobs[e][j].status \notin Over /\ ~OnJob(x, e, j)
    \/ OnJob(x, e, j)'

\* x alone moves, to a point at which its locals are sane.
Lands(x) == \E point \in Pcs, r \in Run : SaneRun(point, r) /\ Proceed(x, point, r)

LEMMA Passing ==
  ASSUME TypeInv, Held, NEW x \in Procs, Lands(x), UNCHANGED plan,
         StepsPass(x), ExecutionsPass(x), JobsPass(x)
  PROVE  Held'
<1>1. PICK point \in Pcs, r \in Run : SaneRun(point, r) /\ Proceed(x, point, r)
  BY DEF Lands
<1>2. \A y \in Procs : /\ pc'[y] = IF y = x THEN point ELSE pc[y]
                       /\ run'[y] = IF y = x THEN r ELSE run[y]
  BY <1>1 DEF TypeInv, TypeOK, Proceed
<1>3. \A y \in Procs : y # x =>
        /\ \A s : OnStep(y, s) => OnStep(y, s)'
        /\ \A e : OnExecution(y, e) => OnExecution(y, e)'
        /\ \A e, j : OnJob(y, e, j) => OnJob(y, e, j)'
  BY <1>2 DEF OnStep, OnExecution, OnJob, Exec
<1>4. StepsHeld'
  BY <1>3 DEF StepsPass, Held, StepsHeld
<1>5. ExecutionsHeld'
  BY <1>3 DEF ExecutionsPass, Held, ExecutionsHeld
<1>6. JobsHeld'
  BY <1>3 DEF JobsPass, Held, JobsHeld
<1>7. (\A y \in Procs : SaneRun(pc[y], run[y]))'
  BY <1>1, <1>2 DEF SaneRun, Held
<1> QED BY <1>4, <1>5, <1>6, <1>7 DEF Held

LEMMA ActivePoints ==
  /\ StepPc \subseteq ActivePc /\ JobPc \subseteq ActivePc /\ TryPc \subseteq ActivePc
  /\ ActivePc \subseteq Pcs
  /\ {"idle", "finished", "safety", "start", "reject", "reject_execution", "load", "dispatch",
      "log_completion", "report_completion", "handover", "log_failure", "report_failure"}
        \cap ActivePc = {}
  BY DEF StepPc, JobPc, ActivePc, WorkPc, ItemPc, TryPc, Pcs, DbPc, HandlerPc

\* A process with nothing in hand takes nothing.
LEMMA FreePassing ==
  ASSUME TypeInv, Held, NEW x \in Procs, Lands(x), UNCHANGED <<plan, steps, jobs>>,
         pc[x] \notin ActivePc,
         \A e \in Executions : execution'[e] = "RUNNING" => execution[e] = "RUNNING"
  PROVE  Held'
<1>1. pc[x] \notin StepPc /\ pc[x] \notin JobPc
  BY ActivePoints
<1>2. StepsPass(x) /\ ExecutionsPass(x) /\ JobsPass(x)
  BY <1>1 DEF StepsPass, ExecutionsPass, JobsPass, OnStep, OnExecution, OnJob
<1> QED BY <1>2, Passing

-----------------------------------------------------------------------------
(* Where a step can lead to when nothing is lost and nothing fails.            *)

LEMMA ZeroSum ==
  ASSUME NEW k \in Nat, NEW m \in Nat, NEW n \in Nat, k + m + n = 0
  PROVE  k = 0 /\ m = 0 /\ n = 0
  OBVIOUS

LEMMA EndingLands ==
  ASSUME TypeInv, NEW x \in Procs, pc[x] # "idle"
  PROVE  /\ Return(x) => Lands(x)
         /\ Leave(x) => Lands(x)
         /\ \A r \in Run : pc[x] \notin TryPc /\ r.length # "huge" /\ Raise(x, r) => Lands(x)
<1>0. /\ {"idle", "finished", "safety"} \subseteq Pcs
      /\ \A p \in {"idle", "finished", "safety"} : p \notin ActivePc /\ p # "start"
      /\ Exec(x) \in Executions
  BY ActivePoints, PointsAreDistinct, BusyRuns
<1>1. \A p \in {"idle", "finished", "safety"}, r \in Run :
        r.length # "huge" /\ Proceed(x, p, r) => Lands(x)
  BY <1>0 DEF Lands, SaneRun
<1>2. /\ IdleRun \in Run /\ [IdleRun EXCEPT !.exec = Exec(x)] \in Run
      /\ IdleRun.length # "huge" /\ [IdleRun EXCEPT !.exec = Exec(x)].length # "huge"
  BY <1>0, IdleRuns DEF IdleRun
<1>3. Leave(x) => Lands(x)
  BY <1>1, <1>2 DEF Leave
<1>4. Return(x) => Lands(x)
  BY <1>1, <1>2, <1>3 DEF Return
<1> QED BY <1>1, <1>3, <1>4 DEF Raise

LEMMA NothingLost ==
  ASSUME TypeInv, UNCHANGED faults
  PROVE  \A x, r : ~LoseAnswer(x, r)
<1>1. faults \in Nat
  BY BoundsAreNats DEF TypeInv, TypeOK
<1>2. faults' # faults + 1
  BY <1>1
<1> QED BY <1>2 DEF LoseAnswer

\* To a point without duties, or with locals as sane as they were.
LEMMA GoingLands ==
  ASSUME TypeInv, Held, NEW x \in Procs, NEW point \in Pcs, NEW r \in Run, Proceed(x, point, r),
         ~r.broken, r.length # "huge",
         \/ point \notin ActivePc /\ point # "start"
         \/ Len(r.seenSteps) = Len(plan)
  PROVE  Lands(x)
  BY DEF Lands, SaneRun

\* Steps of a process that has nothing in hand: before its run and after its end.
LEMMA FreeSteps ==
  ASSUME TypeInv, Held, UNCHANGED faults, NEW x \in Procs,
         \/ Reject(x) \/ RejectExecution(x) \/ LogCompletion(x) \/ ReportCompletion(x)
         \/ LogFailure(x) \/ ReportFailure(x) \/ Safety(x)
  PROVE  Held'
<1>1. /\ UNCHANGED <<plan, steps, jobs>> /\ pc[x] # "idle" /\ pc[x] \notin TryPc
      /\ pc[x] \notin ActivePc /\ ~run[x].broken
  BY ActivePoints DEF Reject, RejectExecution, LogCompletion, ReportCompletion, LogFailure,
                      ReportFailure, Safety, Quiet, AtDb
<1>2. /\ run[x] \in Run /\ [run[x] EXCEPT !.broken = TRUE] \in Run
      /\ run[x].length # "huge" /\ [run[x] EXCEPT !.broken = TRUE].length # "huge"
  <2>1. run[x] \in Run /\ run[x].length # "huge"
    BY <1>1, BusyRuns DEF Held, SaneRun
  <2> QED BY <2>1, AssignedRuns DEF Run
<1>3. Lands(x)
  <2>1. {"reject_execution", "report_completion", "handover", "report_failure"} \subseteq Pcs \ ActivePc
    BY DEF ActivePc, TryPc, Pcs, DbPc, HandlerPc
  <2>2. \A p \in {"reject_execution", "report_completion", "handover", "report_failure"} :
          Proceed(x, p, run[x]) => Lands(x)
    BY <1>1, <1>2, <2>1, GoingLands
  <2>3. /\ Return(x) => Lands(x)
        /\ Raise(x, [run[x] EXCEPT !.broken = TRUE]) => Lands(x)
    BY <1>1, <1>2, EndingLands
  <2> QED BY <2>2, <2>3, NothingLost
          DEF Reject, RejectExecution, LogCompletion, ReportCompletion, LogFailure,
              ReportFailure, Safety
<1>4. \A e \in Executions : execution'[e] = "RUNNING" => execution[e] = "RUNNING"
  <2>1. Exec(x) \in Executions /\ execution \in [Executions -> ExecutionStatuses]
    BY <1>1, BusyRuns DEF TypeInv, TypeOK
  <2>2. SetExecution(x, "FAILED") \/ UNCHANGED execution
    BY DEF Reject, RejectExecution, LogCompletion, ReportCompletion, LogFailure,
           ReportFailure, Safety
  <2> QED BY <2>1, <2>2 DEF SetExecution, StoredExecution, Updated
<1> QED BY <1>1, <1>3, <1>4, FreePassing

LEMMA BrokerSteps ==
  ASSUME TypeInv, Held, NEW x \in Procs,
         \/ Dispatch(x) \/ Load(x) \/ Ack(x) \/ Handover(x) \/ PendingRollback(x)
         \/ \E e \in Executions : Deliver(x, e) \/ RequestRun(x, e) \/ EnqueueWorkflow(x, e)
  PROVE  Held'
<1>1. UNCHANGED <<plan, steps, jobs>>
  BY DEF Dispatch, Load, Ack, Handover, PendingRollback, Deliver, RequestRun, EnqueueWorkflow,
         tables
<1>2. pc[x] \notin ActivePc /\ pc[x] \notin TryPc
  <2>1. CASE PendingRollback(x)
    <3>1. pc[x] \in {"safety", "idle", "finished"}
      BY <2>1 DEF PendingRollback, Held, SaneRun
    <3> QED BY <3>1, ActivePoints
  <2>2. CASE ~PendingRollback(x)
    BY <2>2, ActivePoints DEF Dispatch, Load, Ack, Handover, Deliver, RequestRun,
                              EnqueueWorkflow, AtDb
  <2> QED BY <2>1, <2>2
<1>3. \A e \in Executions : execution'[e] = "RUNNING" => execution[e] = "RUNNING"
  <2>1. execution \in [Executions -> ExecutionStatuses]
    BY DEF TypeInv, TypeOK
  <2>2. UNCHANGED execution \/ \E e \in Executions : execution' = [execution EXCEPT ![e] = "PENDING"]
    BY DEF Dispatch, Load, Ack, Handover, PendingRollback, Deliver, RequestRun,
           EnqueueWorkflow, tables
  <2> QED BY <2>1, <2>2
<1>4. Lands(x)
  <2>1. {"start", "reject", "load", "dispatch"} \subseteq Pcs /\ "PENDING" \in ExecutionStatuses
        /\ {"reject", "load", "dispatch"} \cap (ActivePc \cup {"start"}) = {}
    BY ActivePoints DEF Pcs, DbPc, ExecutionStatuses, Statuses
  <2>2. ASSUME NEW e \in Executions, NEW status \in ExecutionStatuses
        PROVE  /\ FreshRun(e, status) \in Run /\ ~FreshRun(e, status).broken
               /\ FreshRun(e, status).length # "huge"
               /\ Len(FreshRun(e, status).seenSteps) = Len(plan)
    <3>1. Len(steps) = Len(plan)
      BY DEF TypeInv, TypeOK
    <3> QED BY <3>1, FreshRuns DEF FreshRun, IdleRun
  <2>3. CASE \E e \in Executions : Deliver(x, e) \/ RequestRun(x, e) \/ EnqueueWorkflow(x, e)
    <3>1. PICK e \in Executions : Deliver(x, e) \/ RequestRun(x, e) \/ EnqueueWorkflow(x, e)
      BY <2>3
    <3> DEFINE q == [IdleRun EXCEPT !.exec = e]
    <3>2. q \in Run /\ ~q.broken /\ q.length # "huge"
      BY IdleRuns DEF IdleRun
    <3>3. \/ \E p \in {"load", "dispatch"} : Proceed(x, p, q)
          \/ Proceed(x, "start", FreshRun(e, "PENDING"))
      BY <3>1 DEF Deliver, RequestRun, EnqueueWorkflow
    <3> HIDE DEF q
    <3> QED BY <2>1, <2>2, <3>2, <3>3, GoingLands
  <2>4. CASE Load(x)
    <3>1. Exec(x) \in Executions /\ execution[Exec(x)] \in ExecutionStatuses
      BY <2>4, BusyRuns DEF Load, AtDb, TypeInv, TypeOK
    <3>2. \E p \in {"start", "reject"} : Proceed(x, p, FreshRun(Exec(x), execution[Exec(x)]))
      BY <2>4 DEF Load
    <3> QED BY <2>1, <2>2, <3>1, <3>2, GoingLands
  <2>5. CASE Dispatch(x) \/ Ack(x) \/ Handover(x)
    BY <2>5, EndingLands DEF Dispatch, Ack, Handover
  <2>6. CASE PendingRollback(x)
    <3>1. pc[x] # "idle" /\ Raise(x, run[x]) /\ run[x].length # "huge"
      BY <2>6 DEF PendingRollback, DbPc, TryPc, HandlerPc, Held, SaneRun
    <3>2. run[x] \in Run
      BY <3>1, BusyRuns
    <3> QED BY <1>2, <3>1, <3>2, EndingLands
  <2> QED BY <2>3, <2>4, <2>5, <2>6
<1> QED BY <1>1, <1>2, <1>3, <1>4, FreePassing

-----------------------------------------------------------------------------
(* Where the steps of a plan lead, and with which locals.                      *)

\* r goes on with the execution of x as x has seen it.
Continues(x, r) ==
  /\ r.exec = Exec(x) /\ r.seen = run[x].seen
  /\ r.broken = run[x].broken /\ r.length \in {run[x].length} \cup MessageLengths

LEMMA OpenPoints ==
  /\ OpenPc = TryPc \cup {"log_start", "complete", "fail_step", "log_error"}
  /\ OpenPc \subseteq ActivePc
  /\ {"create_job", "complete_step", "begin_job", "operate", "complete_job", "register", "link",
      "presign", "fail_step"} \subseteq OpenPc \cap StepPc
  /\ {"begin_job", "operate", "complete_job", "register", "link", "presign", "fail_step"} \subseteq JobPc
  /\ "log_error" \in JobPc
  /\ {"create_job", "start_step", "complete_step"} \cap JobPc = {}
  BY DEF OpenPc, ActivePc, StepPc, JobPc, WorkPc, ItemPc, TryPc

LEMMA MediaMoves ==
  ASSUME TypeInv, UNCHANGED faults, NEW x \in Procs,
         Operate(x) \/ Register(x) \/ Link(x) \/ Presign(x)
  PROVE  \E point \in OpenPc \cap StepPc \cap JobPc, r \in Run :
           /\ Proceed(x, point, r) /\ Continues(x, r)
           /\ r.seenSteps = run[x].seenSteps /\ r.step = run[x].step /\ r.job = run[x].job
<1>0. pc[x] \in TryPc /\ pc[x] # "idle"
  BY DEF Operate, Register, Link, Presign, AtDb, TryPc
<1>1. run[x] \in Run /\ Exec(x) \in Executions
  BY <1>0, BusyRuns
<1>2. \A n \in Nat :
        LET r == [run[x] EXCEPT !.product = n]
        IN  /\ r \in Run /\ Continues(x, r)
            /\ r.seenSteps = run[x].seenSteps /\ r.step = run[x].step /\ r.job = run[x].job
  BY <1>1 DEF Run, Exec, Continues
<1>3. ASSUME NEW length \in MessageLengths
      PROVE  LET r == [run[x] EXCEPT !.length = length]
             IN  /\ r \in Run /\ Continues(x, r)
                 /\ r.seenSteps = run[x].seenSteps /\ r.step = run[x].step /\ r.job = run[x].job
  <2>1. [run[x] EXCEPT !.length = length] \in Run
    BY <1>1, AssignedRuns
  <2> QED BY <1>1, <2>1 DEF Run, Exec, Continues
<1>4. CASE Fail(x)
  <2>1. \E length \in MessageLengths : Proceed(x, "fail_step", [run[x] EXCEPT !.length = length])
    BY <1>0, <1>4 DEF Fail, Raise
  <2> QED BY <1>3, <2>1, OpenPoints
<1>5. CASE \E point \in {"complete_job", "link", "presign"} : Proceed(x, point, run[x])
  BY <1>1, <1>5, OpenPoints DEF Exec, Continues
<1>6. CASE Proceed(x, "register", [run[x] EXCEPT !.product = Len(products[Exec(x)]) + 1])
  <2>1. Len(products[Exec(x)]) + 1 \in Nat
    BY <1>1, TablesTyped, LenProperties DEF TablesOK
  <2> QED BY <1>2, <1>6, <2>1, OpenPoints
<1> QED BY <1>4, <1>5, <1>6, NothingLost DEF Operate, Register, Link, Presign

LEMMA StepMoves ==
  ASSUME TypeInv, UNCHANGED faults, NEW x \in Procs,
         StartStep(x) \/ CompleteStep(x) \/ FailStep(x)
  PROVE  \E status \in Statuses, point \in OpenPc, r \in Run :
           /\ SetStep(x, status) /\ Proceed(x, point, r) /\ Continues(x, r)
           /\ r.seenSteps = SeeStep(x, status).seenSteps
           /\ status = "RUNNING" => point \in StepPc /\ r.step = run[x].step
           /\ pc[x] \in JobPc => point \in JobPc /\ r.job = run[x].job
<1>0. /\ pc[x] \in TryPc \cup {"fail_step"} /\ pc[x] # "idle"
      /\ {"RUNNING", "COMPLETED", "FAILED"} \subseteq Statuses
      /\ {"create_job", "complete_step", "fail_step", "complete", "start_step", "log_error"}
           \subseteq OpenPc
  BY OpenPoints DEF StartStep, CompleteStep, FailStep, AtDb, TryPc, Statuses
<1>1. run[x] \in Run
  BY <1>0, BusyRuns
<1>2. ASSUME NEW status \in Statuses
      PROVE  LET q == SeeStep(x, status)
             IN  q \in Run /\ Continues(x, q) /\ q.step = run[x].step /\ q.job = run[x].job
  <2>1. SeeStep(x, status) \in Run
    BY <1>0, SeenSteps
  <2> QED BY <1>1, <2>1 DEF SeeStep, Run, Exec, Continues
<1>3. ASSUME NEW status \in Statuses, NEW length \in MessageLengths,
             Raise(x, [SeeStep(x, status) EXCEPT !.length = length]), pc[x] \in TryPc
      PROVE  \E r \in Run : /\ Proceed(x, "fail_step", r) /\ Continues(x, r)
                            /\ r.seenSteps = SeeStep(x, status).seenSteps
                            /\ r.step = run[x].step
  <2> DEFINE q == SeeStep(x, status)
             r == [q EXCEPT !.length = length]
  <2>1. q \in Run /\ Continues(x, q) /\ q.step = run[x].step
    BY <1>2
  <2>2. Proceed(x, "fail_step", r)
    BY <1>3 DEF Raise
  <2> HIDE DEF q
  <2>3. r \in Run
    BY <2>1, AssignedRuns
  <2>4. Continues(x, r) /\ r.seenSteps = q.seenSteps /\ r.step = q.step
    BY <2>1, <2>3 DEF Run, Continues
  <2> HIDE DEF r
  <2> QED BY <2>1, <2>2, <2>3, <2>4 DEF q
<1>4. CASE FailStep(x)
  <2>1. SetStep(x, "FAILED") /\ Proceed(x, "log_error", SeeStep(x, "FAILED"))
    BY <1>4, NothingLost DEF FailStep
  <2> QED BY <1>0, <1>2, <2>1, OpenPoints
<1>5. CASE StartStep(x)
  <2> DEFINE q == SeeStep(x, "RUNNING")
  <2>0. q \in Run /\ Continues(x, q) /\ q.step = run[x].step
    BY <1>0, <1>2
  <2>1. /\ SetStep(x, "RUNNING") /\ pc[x] = "start_step" /\ pc[x] \in TryPc
        /\ \/ \E n \in Items(run[x].step) :
                Proceed(x, NextItem([q EXCEPT !.left = n]), [q EXCEPT !.left = n])
           \/ \E length \in MessageLengths : Raise(x, [q EXCEPT !.length = length])
    BY <1>5, NothingLost DEF StartStep, AtDb, TryPc
  <2>2. \A n \in Items(run[x].step) : n \in Nat
    BY BoundsAreNats DEF Items
  <2>3. CASE \E length \in MessageLengths : Raise(x, [q EXCEPT !.length = length])
    BY <1>0, <1>3, <2>1, <2>3, OpenPoints
  <2>4. ASSUME NEW n \in Nat, Proceed(x, NextItem([q EXCEPT !.left = n]), [q EXCEPT !.left = n])
        PROVE  \E point \in {"create_job", "complete_step"}, r \in Run :
                 /\ Proceed(x, point, r) /\ Continues(x, r)
                 /\ r.seenSteps = q.seenSteps /\ r.step = run[x].step
    <3> DEFINE r == [q EXCEPT !.left = n]
    <3> HIDE DEF q
    <3>1. r \in Run
      BY <2>0, AssignedRuns
    <3>2. Continues(x, r) /\ r.seenSteps = q.seenSteps /\ r.step = q.step
      BY <2>0, <3>1 DEF Run, Continues
    <3> HIDE DEF r
    <3>3. NextItem(r) \in {"create_job", "complete_step"} /\ Proceed(x, NextItem(r), r)
      BY <2>4 DEF NextItem, r
    <3> QED BY <2>0, <3>1, <3>2, <3>3
  <2> QED BY <1>0, <2>1, <2>2, <2>3, <2>4, OpenPoints
<1>6. CASE CompleteStep(x)
  <2> DEFINE q == SeeStep(x, "COMPLETED")
  <2>0. q \in Run /\ Continues(x, q)
    BY <1>0, <1>2
  <2>1. /\ SetStep(x, "COMPLETED") /\ pc[x] = "complete_step" /\ pc[x] \in TryPc
        /\ \/ \E next \in NextSteps(run[x].step) :
                IF next = 0 THEN Proceed(x, "complete", q)
                            ELSE Proceed(x, "start_step", AtStep(q, next))
           \/ \E length \in MessageLengths : Raise(x, [q EXCEPT !.length = length])
    BY <1>6, NothingLost DEF CompleteStep, AtDb, TryPc
  <2>2. \A next \in NextSteps(run[x].step) : next \in Nat
    <3>1. Valid /\ run[x].step \in DOMAIN plan /\ plan \in Seq(PlanStep)
      BY <2>1, TryingRuns
    <3> QED BY <3>1, NextStepsExist, LenProperties
  <2>3. CASE \E length \in MessageLengths : Raise(x, [q EXCEPT !.length = length])
    BY <1>0, <1>3, <2>1, <2>3, OpenPoints
  <2>4. CASE Proceed(x, "complete", q)
    BY <1>0, <2>0, <2>1, <2>4, OpenPoints
  <2>5. ASSUME NEW next \in Nat, Proceed(x, "start_step", AtStep(q, next))
        PROVE  \E r \in Run : /\ Proceed(x, "start_step", r) /\ Continues(x, r)
                              /\ r.seenSteps = q.seenSteps
    <3> HIDE DEF q
    <3>1. AtStep(q, next) \in Run
      BY <2>0, AssignedRuns
    <3>2. Continues(x, AtStep(q, next)) /\ AtStep(q, next).seenSteps = q.seenSteps
      BY <2>0 DEF AtStep, Run, Continues
    <3> QED BY <2>5, <3>1, <3>2
  <2> QED BY <1>0, <2>1, <2>2, <2>3, <2>4, <2>5, OpenPoints
<1> QED BY <1>4, <1>5, <1>6

LEMMA JobMoves ==
  ASSUME TypeInv, UNCHANGED faults, NEW x \in Procs,
         CreateJob(x) \/ BeginJob(x) \/ CompleteJob(x) \/ FailJob(x)
  PROVE  \E point \in ActivePc, r \in Run :
           /\ Proceed(x, point, r) /\ Continues(x, r) /\ JobsPass(x)
           /\ r.seenSteps = run[x].seenSteps /\ r.step = run[x].step
           /\ \/ pc[x] # "fail_job" /\ point \in OpenPc /\ point \in StepPc
              \/ pc[x] = "fail_job" /\ point = "fail_execution" /\ pc[x] \notin StepPc
<1>0. /\ pc[x] \in {"create_job", "begin_job", "complete_job", "fail_job"} /\ pc[x] # "idle"
      /\ pc[x] \in StepPc <=> pc[x] # "fail_job"
      /\ pc[x] \in JobPc <=> pc[x] # "create_job"
  BY DEF CreateJob, BeginJob, CompleteJob, FailJob, AtDb, TryPc, ActivePc, StepPc, JobPc, WorkPc,
         ItemPc
<1>1. run[x] \in Run /\ Exec(x) \in Executions /\ jobs \in [Executions -> Seq(Job)]
  BY <1>0, BusyRuns DEF TypeInv, TypeOK
<1>2. /\ {"create_job", "complete_step", "begin_job", "operate"} \subseteq OpenPc \cap StepPc
      /\ {"begin_job", "operate"} \subseteq JobPc /\ "fail_execution" \in ActivePc
      /\ OpenPc \subseteq ActivePc
  BY OpenPoints DEF ActivePc
<1>3. CASE CreateJob(x)
  <2> DEFINE n == Len(jobs[Exec(x)]) + 1
             r == [run[x] EXCEPT !.job = n, !.product = 0, !.mine = @ \cup {n}]
             job == [step |-> run[x].step, status |-> "PENDING"]
  <2>1. n \in Nat /\ jobs[Exec(x)] \in Seq(Job) /\ job \in Job
    BY <1>1, LenProperties DEF Job, Run, Statuses
  <2>2. /\ r \in Run /\ r.exec = Exec(x) /\ r.seen = run[x].seen
        /\ r.seenSteps = run[x].seenSteps /\ r.step = run[x].step /\ r.job = n
        /\ r.broken = run[x].broken /\ r.length = run[x].length
    <3>1. r \in Run
      BY <1>1, <2>1, AssignedRuns
    <3> QED BY <1>1, <3>1 DEF Run, Exec
  <2>3. Proceed(x, "begin_job", r) /\ jobs' = Write(jobs, x, job)
    BY <1>3, NothingLost DEF CreateJob
  <2>4. /\ \A e \in Executions : e # Exec(x) => jobs'[e] = jobs[e]
        /\ jobs'[Exec(x)] = Append(jobs[Exec(x)], job)
    BY <1>1, <2>3 DEF Write
  <2>5. /\ DOMAIN Append(jobs[Exec(x)], job) = DOMAIN jobs[Exec(x)] \cup {n}
        /\ \A j \in DOMAIN jobs[Exec(x)] : Append(jobs[Exec(x)], job)[j] = jobs[Exec(x)][j]
    <3> HIDE DEF job
    <3> QED BY <2>1, AppendProperties, LenProperties
  <2> HIDE DEF r, n, job
  <2>6. pc'[x] = "begin_job" /\ run'[x] = r /\ pc[x] = "create_job"
    BY <1>3, <2>3 DEF TypeInv, TypeOK, Proceed, CreateJob, AtDb
  <2>7. \A e, j : OnJob(x, e, j)' <=> (e = Exec(x) /\ j = n)
    BY <1>2, <2>2, <2>6 DEF OnJob, Exec
  <2>8. \A e, j : ~OnJob(x, e, j)
    BY <1>0, <2>6 DEF OnJob
  <2>9. JobsPass(x)
    BY <1>1, <2>4, <2>5, <2>7, <2>8 DEF JobsPass
  <2>10. Continues(x, r)
    BY <2>2 DEF Continues
  <2> QED BY <1>2, <2>2, <2>3, <2>6, <2>9, <2>10
<1>4. CASE BeginJob(x) \/ CompleteJob(x) \/ FailJob(x)
  <2>1. PICK status \in {"RUNNING", "COMPLETED", "FAILED"},
             point \in {"create_job", "complete_step", "operate", "fail_execution"}, r \in Run :
          /\ SetJob(x, status) /\ Proceed(x, point, r)
          /\ r.exec = Exec(x) /\ r.seen = run[x].seen /\ r.seenSteps = run[x].seenSteps
          /\ r.step = run[x].step /\ r.job = run[x].job
          /\ r.broken = run[x].broken /\ r.length = run[x].length
          /\ status = "RUNNING" => point = "operate"
          /\ pc[x] = "fail_job" <=> point = "fail_execution"
    <3> DEFINE q == [run[x] EXCEPT !.success = @ + 1, !.left = @ - 1]
    <3>1. CASE BeginJob(x)
      BY <1>1, <3>1, NothingLost DEF BeginJob, AtDb, Exec
    <3>2. CASE FailJob(x)
      BY <1>1, <3>2, NothingLost DEF FailJob, AtDb, Exec
    <3>3. CASE CompleteJob(x)
      <4>1. run[x].left > 0
        BY <3>3, TryingRuns DEF CompleteJob, AtDb, TryPc, ItemPc
      <4>2. /\ q \in Run /\ q.exec = Exec(x) /\ q.seen = run[x].seen
            /\ q.seenSteps = run[x].seenSteps /\ q.step = run[x].step /\ q.job = run[x].job
            /\ q.broken = run[x].broken /\ q.length = run[x].length
        BY <1>1, <4>1, AssignedRuns DEF Run, Exec
      <4>3. SetJob(x, "COMPLETED") /\ Proceed(x, NextItem(q), q) /\ pc[x] = "complete_job"
        BY <3>3, NothingLost DEF CompleteJob, AtDb
      <4> HIDE DEF q
      <4>4. NextItem(q) \in {"create_job", "complete_step"}
        BY DEF NextItem
      <4> QED BY <4>2, <4>3, <4>4
    <3> QED BY <1>4, <3>1, <3>2, <3>3
  <2>2. /\ \A e \in Executions : DOMAIN jobs'[e] = DOMAIN jobs[e]
        /\ \A e \in Executions : \A j \in DOMAIN jobs[e] :
             jobs'[e][j].status = IF e = Exec(x) /\ j = run[x].job THEN status ELSE jobs[e][j].status
    <3>1. /\ jobs'[Exec(x)] = [jobs[Exec(x)] EXCEPT ![run[x].job] =
                               [jobs[Exec(x)][run[x].job] EXCEPT !.status = status]]
          /\ \A e \in Executions : e # Exec(x) => jobs'[e] = jobs[e]
      BY <1>1, <2>1 DEF SetJob
    <3>2. \A j \in DOMAIN jobs[Exec(x)] : jobs[Exec(x)][j] \in Job
      BY <1>1, ElementOfSeq, LenProperties
    <3> QED BY <3>1, <3>2 DEF Job
  <2>3. pc'[x] = point /\ run'[x] = r
    BY <2>1 DEF TypeInv, TypeOK, Proceed
  <2>4. JobsPass(x)
    BY <1>2, <2>1, <2>2, <2>3 DEF JobsPass, OnJob, Exec, Over
  <2>5. Continues(x, r)
    BY <2>1 DEF Continues
  <2> QED BY <1>0, <1>2, <2>1, <2>4, <2>5
<1> QED BY <1>3, <1>4

-----------------------------------------------------------------------------
(* Steps of a run.                                                           *)

\* What an active process goes on with.
LEMMA ActiveRuns ==
  ASSUME TypeInv, Held, NEW x \in Procs, pc[x] \in {"start"} \cup ActivePc
  PROVE  /\ pc[x] # "idle" /\ run[x] \in Run /\ Exec(x) \in Executions /\ run[x].exec = Exec(x)
         /\ ~run[x].broken /\ run[x].length # "huge" /\ Len(run[x].seenSteps) = Len(plan)
  BY ActivePoints, BusyRuns DEF Held, SaneRun

LEMMA ExecutionSteps ==
  ASSUME TypeInv, Held, UNCHANGED faults, NEW x \in Procs,
         Start(x) \/ FailExecution(x) \/ Complete(x)
  PROVE  Held'
<1>0. /\ pc[x] \in {"start"} \cup ActivePc /\ pc[x] \notin StepPc /\ pc[x] \notin JobPc
      /\ UNCHANGED <<plan, steps, jobs>>
  BY DEF Start, FailExecution, Complete, AtDb, ActivePc, StepPc, JobPc, TryPc, WorkPc, ItemPc,
         Quiet
<1>1. /\ pc[x] # "idle" /\ run[x] \in Run /\ Exec(x) \in Executions
      /\ ~run[x].broken /\ run[x].length # "huge" /\ Len(run[x].seenSteps) = Len(plan)
  BY <1>0, ActiveRuns
<1>2. StepsPass(x) /\ JobsPass(x)
  BY <1>0 DEF StepsPass, JobsPass, OnStep, OnJob
<1>3. PICK status \in {"RUNNING", "FAILED", "COMPLETED"}, point \in {"log_start", "log_failure", "log_completion"} :
        /\ SetExecution(x, status) /\ Proceed(x, point, SeeExecution(x, status))
        /\ status = "RUNNING" => pc[x] = "start" /\ point = "log_start"
  BY NothingLost DEF Start, FailExecution, Complete, AtDb
<1> DEFINE r == SeeExecution(x, status)
<1>4. /\ r \in Run /\ r.exec = Exec(x) /\ r.seen = StoredExecution(x, status)
      /\ r.broken = run[x].broken /\ r.length = run[x].length /\ r.seenSteps = run[x].seenSteps
  <2>1. status \in Statuses
    BY DEF Statuses
  <2> QED BY <1>1, <2>1, SeenExecutions DEF SeeExecution, Run
<1> HIDE DEF r
<1>5. point \in Pcs
  BY DEF Pcs, DbPc, HandlerPc
<1>6. Lands(x)
  BY <1>1, <1>3, <1>4, <1>5, GoingLands DEF r
<1>7. execution \in [Executions -> ExecutionStatuses] /\ pc'[x] = point /\ run'[x] = r
  BY <1>3 DEF TypeInv, TypeOK, Proceed, r
<1>8. ASSUME NEW e \in Executions, execution'[e] = "RUNNING"
      PROVE  (execution[e] = "RUNNING" /\ ~OnExecution(x, e)) \/ OnExecution(x, e)'
  <2>1. CASE e # Exec(x)
    BY <1>1, <1>3, <1>7, <1>8, <2>1 DEF SetExecution, OnExecution
  <2>2. CASE e = Exec(x)
    <3>1. StoredExecution(x, status) = "RUNNING"
      BY <1>1, <1>3, <1>7, <1>8, <2>2 DEF SetExecution
    <3>2. CASE status = "RUNNING"
      BY <1>3, <1>4, <1>7, <2>2, <3>1, <3>2 DEF OnExecution, Exec, ActivePc
    <3>3. CASE status # "RUNNING"
      BY <2>2, <3>1, <3>3 DEF StoredExecution, Updated, OnExecution
    <3> QED BY <3>2, <3>3
  <2> QED BY <2>1, <2>2
<1>9. ExecutionsPass(x)
  BY <1>8 DEF ExecutionsPass
<1> QED BY <1>0, <1>2, <1>6, <1>9, Passing

\* x goes on with all it has in hand.
LEMMA BusyPassing ==
  ASSUME TypeInv, Held, NEW x \in Procs, pc[x] \in ActivePc,
         NEW point \in ActivePc, NEW r \in Run, Proceed(x, point, r),
         UNCHANGED <<plan, execution, steps, jobs>>,
         r.exec = Exec(x), r.seen = run[x].seen, r.seenSteps = run[x].seenSteps,
         ~r.broken, r.length # "huge",
         pc[x] \in StepPc => point \in StepPc /\ r.step = run[x].step,
         pc[x] \in JobPc => run[x].job = 0 \/ (point \in JobPc /\ r.job = run[x].job)
  PROVE  Held'
<1>1. pc'[x] = point /\ run'[x] = r
  BY DEF TypeInv, TypeOK, Proceed
<1>2. StepsPass(x)
  BY <1>1 DEF StepsPass, OnStep
<1>3. ExecutionsPass(x)
  BY <1>1 DEF ExecutionsPass, OnExecution, Exec
<1>4. JobsPass(x)
  <2>1. \A e \in Executions : 0 \notin DOMAIN jobs[e]
    <3>1. \A e \in Executions : jobs[e] \in Seq(Job)
      BY DEF TypeInv, TypeOK
    <3> QED BY <3>1, LenProperties
  <2> QED BY <1>1, <2>1 DEF JobsPass, OnJob, Exec
<1>5. Lands(x)
  <2>1. Len(r.seenSteps) = Len(plan) /\ point \in Pcs
    BY ActiveRuns, ActivePoints
  <2> QED BY <2>1, GoingLands
<1> QED BY <1>2, <1>3, <1>4, <1>5, Passing

LEMMA AuditSteps ==
  ASSUME TypeInv, Held, UNCHANGED faults, NEW x \in Procs, LogStart(x) \/ LogError(x)
  PROVE  Held'
<1>0. /\ pc[x] \in {"log_start", "log_error"} /\ pc[x] \in ActivePc /\ pc[x] \notin StepPc
      /\ UNCHANGED <<plan, execution, steps, jobs>>
  BY DEF LogStart, LogError, AtDb, ActivePc, StepPc, TryPc, Quiet
<1>1. /\ run[x] \in Run /\ ~run[x].broken /\ run[x].length # "huge"
  BY <1>0, ActiveRuns
<1>2. CASE LogStart(x)
  <2> DEFINE r == AtStep(run[x], 1)
  <2>1. r \in Run /\ r.exec = Exec(x) /\ r.seen = run[x].seen /\ r.seenSteps = run[x].seenSteps
        /\ r.broken = run[x].broken /\ r.length = run[x].length
    BY <1>1, AssignedRuns DEF AtStep, Run, Exec
  <2> HIDE DEF r
  <2>2. Proceed(x, "start_step", r)
    BY <1>2, NothingLost DEF LogStart, r
  <2>3. "start_step" \in ActivePc /\ pc[x] \notin JobPc
    BY <1>2 DEF LogStart, AtDb, ActivePc, TryPc, JobPc, WorkPc, ItemPc
  <2> QED BY <1>0, <1>1, <2>1, <2>2, <2>3, BusyPassing
<1>3. CASE LogError(x)
  <2>1. Proceed(x, AfterError(x), run[x])
    BY <1>1, <1>3, NothingLost DEF LogError
  <2>2. /\ {"fail_execution", "fail_job"} \subseteq ActivePc /\ "fail_job" \in JobPc
    BY DEF ActivePc, JobPc
  <2>3. AfterError(x) \in ActivePc /\ (run[x].job = 0 \/ AfterError(x) \in JobPc)
    BY <2>2 DEF AfterError
  <2> QED BY <1>0, <1>1, <2>1, <2>3, BusyPassing DEF Exec
<1> QED BY <1>2, <1>3

\* Writing a step's row: whoever leaves it RUNNING goes on with it.
LEMMA StepPassing ==
  ASSUME TypeInv, Held, NEW x \in Procs, pc[x] \in TryPc \cup {"fail_step"},
         NEW status \in Statuses, SetStep(x, status),
         NEW point \in ActivePc, NEW r \in Run, Proceed(x, point, r),
         UNCHANGED <<plan, execution, jobs>>,
         r.exec = Exec(x), r.seen = run[x].seen, r.seenSteps = SeeStep(x, status).seenSteps,
         ~r.broken, r.length # "huge",
         status = "RUNNING" => point \in StepPc /\ r.step = run[x].step,
         pc[x] \in JobPc => point \in JobPc /\ r.job = run[x].job
  PROVE  Held'
<1>0. pc[x] \in ActivePc
  BY DEF ActivePc
<1>1. /\ run[x] \in Run /\ Len(run[x].seenSteps) = Len(plan) /\ run[x].seenSteps \in Seq(Statuses)
      /\ run[x].step \in DOMAIN plan /\ plan \in Seq(PlanStep)
      /\ steps \in Seq(Statuses) /\ Len(steps) = Len(plan)
  BY <1>0, ActiveRuns DEF TypeInv, TypeOK, Fits, Run
<1>2. /\ r.seenSteps = [run[x].seenSteps EXCEPT ![run[x].step] = StoredStep(x, status)]
      /\ Len(r.seenSteps) = Len(plan)
      /\ r.seenSteps[run[x].step] = StoredStep(x, status)
      /\ DOMAIN steps' = DOMAIN steps /\ run[x].step \in DOMAIN steps
  <2>1. r.seenSteps = [run[x].seenSteps EXCEPT ![run[x].step] = StoredStep(x, status)]
    BY <1>1 DEF SeeStep, Run
  <2>2. StoredStep(x, status) \in Statuses
    BY <1>1 DEF StoredStep, Updated
  <2>3. Len(r.seenSteps) = Len(plan)
    BY <1>1, <2>1, <2>2, ReplaceTypes
  <2>4. run[x].step \in DOMAIN run[x].seenSteps /\ run[x].step \in DOMAIN steps
    BY <1>1, LenProperties
  <2>5. r.seenSteps[run[x].step] = StoredStep(x, status)
    BY <1>1, <2>1, <2>4
  <2> QED BY <1>1, <2>1, <2>3, <2>4, <2>5 DEF SetStep
<1>3. pc'[x] = point /\ run'[x] = r
  BY DEF TypeInv, TypeOK, Proceed
<1>4. ASSUME NEW s \in DOMAIN steps', steps'[s] = "RUNNING"
      PROVE  (s \in DOMAIN steps /\ steps[s] = "RUNNING" /\ ~OnStep(x, s)) \/ OnStep(x, s)'
  <2>1. CASE s # run[x].step
    BY <1>1, <1>2, <1>4, <2>1 DEF SetStep, OnStep
  <2>2. CASE s = run[x].step
    <3>1. StoredStep(x, status) = "RUNNING"
      BY <1>1, <1>2, <1>4, <2>2 DEF SetStep
    <3>2. CASE status = "RUNNING"
      BY <1>2, <1>3, <2>2, <3>1, <3>2 DEF OnStep
    <3>3. CASE status # "RUNNING"
      BY <1>2, <2>2, <3>1, <3>3 DEF StoredStep, Updated, OnStep
    <3> QED BY <3>2, <3>3
  <2> QED BY <2>1, <2>2
<1>5. StepsPass(x)
  BY <1>4 DEF StepsPass
<1>6. ExecutionsPass(x) /\ JobsPass(x)
  BY <1>3 DEF ExecutionsPass, JobsPass, OnExecution, OnJob, Exec
<1>7. Lands(x)
  BY <1>2, ActivePoints, GoingLands
<1> QED BY <1>5, <1>6, <1>7, Passing

-----------------------------------------------------------------------------
\* Writing jobs: whoever leaves one not over has it in hand.
LEMMA JobPassing ==
  ASSUME TypeInv, Held, NEW x \in Procs, pc[x] \in ActivePc,
         NEW point \in ActivePc, NEW r \in Run, Proceed(x, point, r),
         UNCHANGED <<plan, execution, steps>>,
         r.exec = Exec(x), r.seen = run[x].seen, r.seenSteps = run[x].seenSteps,
         ~r.broken, r.length # "huge",
         pc[x] \in StepPc => point \in StepPc /\ r.step = run[x].step,
         JobsPass(x)
  PROVE  Held'
<1>1. pc'[x] = point /\ run'[x] = r
  BY DEF TypeInv, TypeOK, Proceed
<1>2. StepsPass(x)
  BY <1>1 DEF StepsPass, OnStep
<1>3. ExecutionsPass(x)
  BY <1>1 DEF ExecutionsPass, OnExecution, Exec
<1>4. Lands(x)
  <2>1. Len(r.seenSteps) = Len(plan) /\ point \in Pcs
    BY ActiveRuns, ActivePoints
  <2> QED BY <2>1, GoingLands
<1> QED BY <1>2, <1>3, <1>4, Passing

LEMMA MediaSteps ==
  ASSUME TypeInv, Held, UNCHANGED faults, "huge" \notin MessageLengths, NEW x \in Procs,
         Operate(x) \/ Register(x) \/ Link(x) \/ Presign(x)
  PROVE  Held'
<1>0. pc[x] \in ActivePc /\ UNCHANGED <<plan, execution, steps, jobs>>
  BY DEF Operate, Register, Link, Presign, AtDb, ActivePc, TryPc, Quiet, tables
<1>1. PICK point \in OpenPc \cap StepPc \cap JobPc, r \in Run :
        /\ Proceed(x, point, r) /\ Continues(x, r)
        /\ r.seenSteps = run[x].seenSteps /\ r.step = run[x].step /\ r.job = run[x].job
  BY MediaMoves
<1>2. ~r.broken /\ r.length # "huge" /\ r.exec = Exec(x) /\ r.seen = run[x].seen
  BY <1>0, <1>1, ActiveRuns DEF Continues
<1> QED BY <1>0, <1>1, <1>2, OpenPoints, BusyPassing

LEMMA StepSteps ==
  ASSUME TypeInv, Held, UNCHANGED faults, "huge" \notin MessageLengths, NEW x \in Procs,
         StartStep(x) \/ CompleteStep(x) \/ FailStep(x)
  PROVE  Held'
<1>0. /\ pc[x] \in TryPc \cup {"fail_step"} /\ pc[x] \in ActivePc
      /\ UNCHANGED <<plan, execution, jobs>>
  BY DEF StartStep, CompleteStep, FailStep, AtDb, TryPc, ActivePc, Quiet
<1>1. PICK status \in Statuses, point \in OpenPc, r \in Run :
        /\ SetStep(x, status) /\ Proceed(x, point, r) /\ Continues(x, r)
        /\ r.seenSteps = SeeStep(x, status).seenSteps
        /\ status = "RUNNING" => point \in StepPc /\ r.step = run[x].step
        /\ pc[x] \in JobPc => point \in JobPc /\ r.job = run[x].job
  BY StepMoves
<1>2. ~r.broken /\ r.length # "huge" /\ r.exec = Exec(x) /\ r.seen = run[x].seen
  BY <1>0, <1>1, ActiveRuns DEF Continues
<1>3. point \in ActivePc
  BY OpenPoints
<1> QED BY <1>0, <1>1, <1>2, <1>3, StepPassing

LEMMA JobSteps ==
  ASSUME TypeInv, Held, UNCHANGED faults, "huge" \notin MessageLengths, NEW x \in Procs,
         CreateJob(x) \/ BeginJob(x) \/ CompleteJob(x) \/ FailJob(x)
  PROVE  Held'
<1>0. pc[x] \in ActivePc /\ UNCHANGED <<plan, execution, steps>>
  BY DEF CreateJob, BeginJob, CompleteJob, FailJob, AtDb, TryPc, ActivePc, Quiet
<1>1. PICK point \in ActivePc, r \in Run :
        /\ Proceed(x, point, r) /\ Continues(x, r) /\ JobsPass(x)
        /\ r.seenSteps = run[x].seenSteps /\ r.step = run[x].step
        /\ \/ pc[x] # "fail_job" /\ point \in OpenPc /\ point \in StepPc
           \/ pc[x] = "fail_job" /\ point = "fail_execution" /\ pc[x] \notin StepPc
  BY JobMoves
<1>2. ~r.broken /\ r.length # "huge" /\ r.exec = Exec(x) /\ r.seen = run[x].seen
  BY <1>0, <1>1, ActiveRuns DEF Continues
<1> QED BY <1>0, <1>1, <1>2, JobPassing

-----------------------------------------------------------------------------
LEMMA InitHeld == ASSUME "huge" \notin MessageLengths PROVE Init => HeldInv
<1> SUFFICES ASSUME Init PROVE Held
  BY DEF HeldInv
<1>1. plan \in Seq(PlanStep)
  BY DEF Init
<1>2. \A s \in DOMAIN steps : steps[s] # "RUNNING"
  BY DEF Init
<1>3. \A e \in Executions : execution[e] = "absent" /\ jobs[e] = <<>>
  BY DEF Init
<1>4. \A x \in Procs : SaneRun(pc[x], run[x])
  <2>1. "idle" \notin ActivePc
    BY ActivePoints
  <2> QED BY <2>1 DEF Init, SaneRun, IdleRun
<1>5. JobsHeld
  BY <1>3 DEF JobsHeld
<1> QED BY <1>2, <1>3, <1>4, <1>5 DEF Held, StepsHeld, ExecutionsHeld

\* What was spent stays spent.
LEMMA RunSpends ==
  ASSUME NEW x \in Procs, RunStep(x) \/ Handover(x)
  PROVE  /\ UNCHANGED <<plan, clientCrashes, workerCrashes, extraMessages>>
         /\ faults' = faults \/ faults' = faults + 1
<1>1. CASE \/ Start(x) \/ LogStart(x) \/ Complete(x) \/ LogCompletion(x)
           \/ ReportCompletion(x) \/ PendingRollback(x) \/ Handover(x)
  BY <1>1 DEF Start, LogStart, Complete, LogCompletion, ReportCompletion, PendingRollback,
              Handover, Quiet, spent, Answered, LoseAnswer
<1>2. CASE StartStep(x) \/ CompleteStep(x)
  BY <1>2 DEF StartStep, CompleteStep, Quiet, Answered, LoseAnswer
<1>3. CASE CreateJob(x) \/ BeginJob(x) \/ CompleteJob(x)
  BY <1>3 DEF CreateJob, BeginJob, CompleteJob, Quiet, Answered, LoseAnswer
<1>4. CASE Operate(x) \/ Register(x) \/ Link(x) \/ Presign(x)
  BY <1>4 DEF Operate, Register, Link, Presign, Quiet, spent, Answered, LoseAnswer
<1>5. CASE Handler(x)
  BY <1>5 DEF Handler, FailStep, LogError, FailJob, FailExecution, LogFailure, ReportFailure,
              Quiet, Answered, LoseAnswer
<1> QED BY <1>1, <1>2, <1>3, <1>4, <1>5 DEF RunStep, StepOfPlan

LEMMA NextSpends ==
  ASSUME [Next]_vars
  PROVE  /\ faults' = faults \/ faults' = faults + 1
         /\ clientCrashes' = clientCrashes \/ clientCrashes' = clientCrashes + 1
         /\ workerCrashes' = workerCrashes \/ workerCrashes' = workerCrashes + 1
         /\ extraMessages' = extraMessages \/ extraMessages' = extraMessages + 1
         /\ UNCHANGED plan
<1>1. CASE UNCHANGED vars
  BY <1>1 DEF vars, spent
<1>2. CASE \E x \in Procs : RunStep(x) \/ Handover(x)
  BY <1>2, RunSpends
<1>3. CASE \E w \in Workers : TaskStep(w)
  BY <1>3 DEF TaskStep, Deliver, Load, Reject, RejectExecution, Safety, Ack, Quiet, spent,
              Answered, LoseAnswer
<1>4. CASE Request \/ \E c \in Clients : Dispatch(c)
  BY <1>4 DEF Request, RequestRun, EnqueueWorkflow, EnqueueExecution, Dispatch, spent
<1>5. CASE Fault
  BY <1>5 DEF Fault, DbFault, ClientCrash, WorkerCrash, Redeliver, Quiet
<1> QED BY <1>1, <1>2, <1>3, <1>4, <1>5 DEF Next, RunNext

LEMMA UndisturbedSteps ==
  ASSUME TypeInv, TypeInv', [Next]_vars, Undisturbed'
  PROVE  /\ Undisturbed /\ UNCHANGED faults
         /\ \A x : ~DbFault(x) /\ ~ClientCrash(x) /\ ~WorkerCrash(x)
<1>1. /\ faults \in Nat /\ clientCrashes \in Nat /\ workerCrashes \in Nat
      /\ faults' \in Nat /\ clientCrashes' \in Nat /\ workerCrashes' \in Nat
  BY BoundsAreNats DEF TypeInv, TypeOK
<1>2. faults' = 0 /\ clientCrashes' = 0 /\ workerCrashes' = 0
  <2>1. faults' + clientCrashes' + workerCrashes' = 0
    BY DEF Undisturbed
  <2> QED BY <1>1, <2>1, ZeroSum
<1>3. \A n \in Nat : n + 1 # 0
  OBVIOUS
<1>4. faults = 0 /\ clientCrashes = 0 /\ workerCrashes = 0
  BY <1>1, <1>2, <1>3, NextSpends
<1> QED BY <1>1, <1>2, <1>3, <1>4 DEF Undisturbed, DbFault, ClientCrash, WorkerCrash

LEMMA NextHeld ==
  ASSUME "huge" \notin MessageLengths
  PROVE  TypeInv /\ TypeInv' /\ HeldInv /\ [Next]_vars => HeldInv'
<1> SUFFICES ASSUME TypeInv, TypeInv', HeldInv, [Next]_vars, Undisturbed' PROVE Held'
  BY DEF HeldInv
<1>0. UNCHANGED faults /\ \A x : ~DbFault(x) /\ ~ClientCrash(x) /\ ~WorkerCrash(x)
  BY UndisturbedSteps
<1>1. Held
  BY UndisturbedSteps DEF HeldInv
<1>2. ASSUME UNCHANGED <<plan, execution, steps, jobs, pc, run>> PROVE Held'
  BY <1>1, <1>2 DEF Held, StepsHeld, ExecutionsHeld, JobsHeld, SaneRun, OnStep, OnExecution,
                    OnJob, Exec
<1>3. CASE UNCHANGED vars
  BY <1>2, <1>3 DEF vars, tables
<1>4. ASSUME NEW x \in Procs, RunStep(x) \/ Handover(x) PROVE Held'
  <2>1. CASE Start(x) \/ FailExecution(x) \/ Complete(x)
    BY <1>0, <1>1, <2>1, ExecutionSteps
  <2>2. CASE LogStart(x) \/ LogError(x)
    BY <1>0, <1>1, <2>2, AuditSteps
  <2>3. CASE LogFailure(x) \/ ReportFailure(x) \/ LogCompletion(x) \/ ReportCompletion(x)
    BY <1>0, <1>1, <2>3, FreeSteps
  <2>4. CASE StartStep(x) \/ CompleteStep(x) \/ FailStep(x)
    BY <1>0, <1>1, <2>4, StepSteps
  <2>5. CASE Operate(x) \/ Register(x) \/ Link(x) \/ Presign(x)
    BY <1>0, <1>1, <2>5, MediaSteps
  <2>6. CASE CreateJob(x) \/ BeginJob(x) \/ CompleteJob(x) \/ FailJob(x)
    BY <1>0, <1>1, <2>6, JobSteps
  <2>7. CASE Handover(x) \/ PendingRollback(x)
    BY <1>1, <2>7, BrokerSteps
  <2> QED BY <1>4, <2>1, <2>2, <2>3, <2>4, <2>5, <2>6, <2>7 DEF RunStep, StepOfPlan, Handler
<1>5. ASSUME NEW w \in Workers, TaskStep(w) PROVE Held'
  <2>0. w \in Procs
    BY DEF Procs
  <2>1. CASE Reject(w) \/ RejectExecution(w) \/ Safety(w)
    BY <1>0, <1>1, <2>0, <2>1, FreeSteps
  <2>2. CASE Load(w) \/ Ack(w) \/ \E e \in Executions : Deliver(w, e)
    BY <1>1, <2>0, <2>2, BrokerSteps
  <2> QED BY <1>5, <2>1, <2>2 DEF TaskStep
<1>6. CASE Request
  <2>1. ASSUME NEW c \in Clients, NEW e \in Executions, RequestRun(c, e) \/ EnqueueWorkflow(c, e)
        PROVE  Held'
    <3>1. c \in Procs
      BY DEF Procs
    <3> QED BY <1>1, <2>1, <3>1, BrokerSteps
  <2>2. ASSUME NEW e \in Executions, EnqueueExecution(e) PROVE Held'
    BY <1>2, <2>2 DEF EnqueueExecution, tables
  <2> QED BY <1>6, <2>1, <2>2 DEF Request
<1>7. ASSUME NEW c \in Clients, Dispatch(c) PROVE Held'
  <2>1. c \in Procs
    BY DEF Procs
  <2> QED BY <1>1, <1>7, <2>1, BrokerSteps
<1>8. CASE Fault
  <2>1. PICK w \in Workers : Redeliver(w)
    BY <1>0, <1>8 DEF Fault
  <2> QED BY <1>2, <2>1 DEF Redeliver, tables
<1> QED BY <1>3, <1>4, <1>5, <1>6, <1>7, <1>8 DEF Next, RunNext

(* A step, an execution or a job that is RUNNING, or a job that is PENDING, has *)
(* a run at work on it that will write its end - as long as no process is lost, *)
(* no database call fails and no exception is so long that the handler itself   *)
(* fails on it - however many runs share the steps and the execution.          *)
THEOREM HeldInvariant ==
  ASSUME "huge" \notin MessageLengths PROVE Spec => []HeldInv
<1>1. Init => HeldInv
  BY InitHeld
<1>2. TypeInv /\ TypeInv' /\ HeldInv /\ [Next]_vars => HeldInv'
  BY NextHeld
<1> QED BY <1>1, <1>2, TypeInvariant, PTL DEF Spec

(* Once every process is idle, no step and no execution is RUNNING and no job   *)
(* is PENDING or RUNNING, whatever messages were doubled and whatever failed    *)
(* in the steps.  The constant excludes the exceptions of more than 1000        *)
(* characters, whose record the schema refuses inside the handler.             *)
THEOREM NothingIsLeft ==
  ASSUME "huge" \notin MessageLengths PROVE Spec => []NothingLeftRunning
<1>1. HeldInv => NothingLeftRunning
  <2> SUFFICES ASSUME HeldInv, Calm, Undisturbed
               PROVE  /\ \A s \in DOMAIN steps : steps[s] # "RUNNING"
                      /\ \A e \in Executions :
                           /\ execution[e] # "RUNNING"
                           /\ \A j \in DOMAIN jobs[e] : jobs[e][j].status \in Over
    BY DEF NothingLeftRunning, Undisturbed
  <2>1. Held
    BY DEF HeldInv
  <2>2. \A x \in Procs : pc[x] \notin ActivePc /\ pc[x] \notin StepPc /\ pc[x] \notin JobPc
    BY ActivePoints DEF Calm
  <2>3. /\ \A x \in Procs : \A s : ~OnStep(x, s)
        /\ \A x \in Procs : \A e : ~OnExecution(x, e)
        /\ \A x \in Procs : \A e, j : ~OnJob(x, e, j)
    BY <2>2 DEF OnStep, OnExecution, OnJob
  <2> QED BY <2>1, <2>3 DEF Held, StepsHeld, ExecutionsHeld, JobsHeld
<1> QED BY <1>1, HeldInvariant, PTL

-----------------------------------------------------------------------------
(* The audit catches up.  An execution whose message is never doubled is in one *)
(* place: nowhere, in the queue or with one process, and a lost worker only     *)
(* puts it back.  What its rows say follows from the point its process is at,   *)
(* and once nobody has it any more, its last record and report are about the   *)
(* status it has.                                                             *)

LastRecord(e, status) == trail[e] # <<>> /\ trail[e][Len(trail[e])].to = status

LastReport(e, failure) == reports[e] # <<>> /\ reports[e][Len(reports[e])].failure = failure

\* The closing records of an execution that is over.
Audited(e) ==
  \/ execution[e] \notin Over
  \/ execution[e] = "COMPLETED" /\ LastRecord(e, "COMPLETED") /\ LastReport(e, 0)
  \/ execution[e] = "FAILED" /\ LastRecord(e, "FAILED") /\ LastReport(e, 1) /\ errors[e] > 0

\* What the rows of e say when a process with locals r stands at a point.
Story(point, r, e) ==
  /\ ~r.broken /\ r.length = "short"
  /\ point \in {"start"} \cup ActivePc => r.seen = execution[e]
  /\ point = "dispatch" => execution[e] = "PENDING"
  /\ point \in {"fail_job", "fail_execution"} => errors[e] > 0
  /\ point \in {"log_failure", "report_failure"} => execution[e] = "FAILED" /\ errors[e] > 0
  /\ point = "report_failure" => LastRecord(e, "FAILED")
  /\ point \in {"log_completion", "report_completion", "handover"} => execution[e] = "COMPLETED"
  /\ point \in {"report_completion", "handover"} => LastRecord(e, "COMPLETED")
  /\ point = "handover" => LastReport(e, 0)
  /\ point = "finished" => Audited(e)
  /\ point \notin {"safety", "reject", "reject_execution"}

Has(x, e) == pc[x] # "idle" /\ Exec(x) = e

OnePlace(e) ==
  /\ queue[e] \in {0, 1}
  /\ \A x, y \in Procs : Has(x, e) /\ Has(y, e) => x = y
  /\ \A x \in Procs : Has(x, e) => queue[e] = 0 /\ execution[e] # "absent"
  /\ execution[e] = "absent" => queue[e] = 0

Orderly ==
  /\ \A e \in Executions :
       /\ OnePlace(e)
       /\ queue[e] > 0 \/ Audited(e) \/ \E x \in Procs : Has(x, e)
  /\ \A x \in Procs : Story(pc[x], run[x], Exec(x))

NothingDoubled == faults + clientCrashes + extraMessages = 0

OrderlyInv == Valid /\ NothingDoubled => Orderly
-----------------------------------------------------------------------------
\* The rows a story is about.
SameStory(e) == /\ execution'[e] = execution[e] /\ errors'[e] = errors[e]
                /\ trail'[e] = trail[e] /\ reports'[e] = reports[e]

LEMMA SameStories ==
  ASSUME NEW e, SameStory(e)
  PROVE  /\ Audited(e)' <=> Audited(e)
         /\ \A point, r : Story(point, r, e)' <=> Story(point, r, e)
<1>1. /\ \A status : LastRecord(e, status)' <=> LastRecord(e, status)
      /\ \A failure : LastReport(e, failure)' <=> LastReport(e, failure)
  BY DEF SameStory, LastRecord, LastReport
<1>2. Audited(e)' <=> Audited(e)
  BY <1>1 DEF SameStory, Audited
<1> QED BY <1>1, <1>2 DEF SameStory, Story

\* One process moves, at an execution nobody else has.
LEMMA Moving ==
  ASSUME TypeInv, Orderly, NEW x \in Procs, NEW e \in Executions,
         pc[x] = "idle" \/ Exec(x) = e, \A y \in Procs : Has(y, e) => y = x,
         NEW point \in Pcs, NEW r \in Run, Proceed(x, point, r), point = "idle" \/ r.exec = e,
         \A f \in Executions : f # e => SameStory(f) /\ queue'[f] = queue[f],
         execution'[e] # "absent", queue'[e] \in {0, 1},
         point # "idle" => queue'[e] = 0,
         point = "idle" => queue'[e] = 1 \/ Audited(e)',
         Story(point, r, e)'
  PROVE  Orderly'
<1>1. \A y \in Procs : /\ pc'[y] = IF y = x THEN point ELSE pc[y]
                       /\ run'[y] = IF y = x THEN r ELSE run[y]
  BY DEF TypeInv, TypeOK, Proceed
<1>2. \A y \in Procs, f \in Executions :
        Has(y, f)' <=> IF y = x THEN f = e /\ point # "idle" ELSE f # e /\ Has(y, f)
  BY <1>1 DEF Has, Exec
<1>3. \A f \in Executions : OnePlace(f) /\ (queue[f] > 0 \/ Audited(f) \/ \E y \in Procs : Has(y, f))
  BY DEF Orderly
<1>4. ASSUME NEW f \in Executions
      PROVE  OnePlace(f)' /\ (queue'[f] > 0 \/ Audited(f)' \/ \E y \in Procs : Has(y, f)')
  <2>1. CASE f = e
    <3>1. OnePlace(f)'
      BY <1>2, <2>1 DEF OnePlace
    <3>2. CASE point = "idle"
      BY <2>1, <3>1, <3>2 DEF OnePlace
    <3>3. CASE point # "idle"
      BY <1>2, <2>1, <3>1, <3>3
    <3> QED BY <3>1, <3>2, <3>3
  <2>2. CASE f # e
    <3>1. /\ execution'[f] = execution[f] /\ queue'[f] = queue[f] /\ (Audited(f)' <=> Audited(f))
      BY <2>2, SameStories DEF SameStory
    <3>2. \A y \in Procs : Has(y, f)' => Has(y, f)
      BY <1>2, <2>2
    <3>3. \A y \in Procs : Has(y, f) => Has(y, f)'
      BY <1>2, <2>2 DEF Has
    <3>4. OnePlace(f)'
      BY <1>3, <3>1, <3>2 DEF OnePlace
    <3> QED BY <1>3, <3>1, <3>3, <3>4
  <2> QED BY <2>1, <2>2
<1>5. ASSUME NEW y \in Procs PROVE Story(pc[y], run[y], Exec(y))'
  <2>1. CASE y = x
    <3>1. CASE point = "idle"
      BY <1>1, <2>1, <3>1, ActivePoints DEF Story
    <3>2. CASE point # "idle"
      BY <1>1, <2>1, <3>2 DEF Story, Exec, LastRecord, LastReport, Audited
    <3> QED BY <3>1, <3>2
  <2>2. CASE y # x /\ pc[y] = "idle"
    BY <1>1, <2>2, ActivePoints DEF Orderly, Story
  <2>3. CASE y # x /\ pc[y] # "idle"
    <3>1. Exec(y) \in Executions /\ Exec(y) # e
      BY <2>3, BusyRuns DEF Has
    <3>2. Story(pc[y], run[y], Exec(y)) /\ SameStory(Exec(y))
      BY <3>1 DEF Orderly
    <3>3. \A f, p, q : f = Exec(y) /\ p = pc[y] /\ q = run[y] => Story(p, q, f)'
      BY <3>2, SameStories
    <3>4. PICK f \in Executions : f = Exec(y)
      BY <3>1
    <3>5. pc'[y] = pc[y] /\ run'[y] = run[y] /\ Exec(y)' = f
      BY <1>1, <2>3, <3>4 DEF Exec
    <3> QED BY <3>3, <3>4, <3>5 DEF Story, LastRecord, LastReport, Audited
  <2> QED BY <2>1, <2>2, <2>3
<1> QED BY <1>4, <1>5 DEF Orderly

LEMMA Placed ==
  ASSUME TypeInv, Orderly, NEW x \in Procs, pc[x] # "idle"
  PROVE  /\ run[x] \in Run /\ Exec(x) \in Executions /\ run[x].exec = Exec(x)
         /\ queue[Exec(x)] = 0 /\ execution[Exec(x)] # "absent"
         /\ \A y \in Procs : Has(y, Exec(x)) => y = x
         /\ Story(pc[x], run[x], Exec(x)) /\ ~run[x].broken /\ run[x].length = "short"
<1>1. run[x] \in Run /\ Exec(x) \in Executions /\ run[x].exec = Exec(x)
  BY BusyRuns
<1>2. Has(x, Exec(x)) /\ OnePlace(Exec(x))
  BY <1>1 DEF Has, Orderly
<1>3. Story(pc[x], run[x], Exec(x))
  BY DEF Orderly
<1> QED BY <1>1, <1>2, <1>3 DEF OnePlace, Story

\* A process goes on with its execution, or returns from an audited one.
LEMMA Staying ==
  ASSUME TypeInv, Orderly, NEW x \in Procs, pc[x] # "idle", NEW e \in Executions, e = Exec(x),
         \A f \in Executions : f # e => SameStory(f), UNCHANGED queue, execution'[e] # "absent"
  PROVE  /\ \A point \in Pcs, r \in Run :
              Proceed(x, point, r) /\ point # "idle" /\ r.exec = e /\ Story(point, r, e)' => Orderly'
         /\ (Return(x) \/ Leave(x)) /\ Audited(e)' => Orderly'
<1>1. queue[e] = 0 /\ \A y \in Procs : Has(y, e) => y = x
  BY Placed
<1>2. ASSUME NEW point \in Pcs, NEW r \in Run, Proceed(x, point, r), point # "idle", r.exec = e,
             Story(point, r, e)'
      PROVE  Orderly'
  BY <1>1, <1>2, Moving
<1>3. ASSUME Leave(x), Audited(e)' PROVE Orderly'
  <2>1. IdleRun \in Run /\ "idle" \in Pcs /\ Proceed(x, "idle", IdleRun)
    BY <1>3, IdleRuns, PointsAreDistinct DEF Leave
  <2>2. Story("idle", IdleRun, e)'
    BY ActivePoints DEF Story, IdleRun
  <2> QED BY <1>1, <1>3, <2>1, <2>2, Moving
<1>4. ASSUME Return(x), Audited(e)' PROVE Orderly'
  <2> DEFINE r == [IdleRun EXCEPT !.exec = e]
  <2>1. r \in Run /\ r.exec = e /\ "finished" \in Pcs
    BY IdleRuns, PointsAreDistinct
  <2>2. ~r.broken /\ r.length = "short"
    BY DEF IdleRun
  <2> HIDE DEF r
  <2>3. Story("finished", r, e)'
    BY <1>4, <2>2, ActivePoints DEF Story
  <2>4. Leave(x) \/ Proceed(x, "finished", r)
    BY <1>4 DEF Return, r
  <2> QED BY <1>2, <1>3, <1>4, <2>1, <2>3, <2>4
<1> QED BY <1>2, <1>3, <1>4

\* The steps of the plan tell nothing new.
LEMMA WorkStory ==
  ASSUME TypeInv, Orderly, UNCHANGED faults, MessageLengths \subseteq {"short"}, NEW x \in Procs,
         \/ StartStep(x) \/ CompleteStep(x) \/ FailStep(x)
         \/ CreateJob(x) \/ BeginJob(x) \/ CompleteJob(x) \/ FailJob(x)
         \/ Operate(x) \/ Register(x) \/ Link(x) \/ Presign(x)
  PROVE  Orderly'
<1>0. /\ pc[x] \in ActivePc /\ pc[x] # "idle" /\ UNCHANGED <<execution, errors, trail, reports, queue>>
      /\ FailJob(x) => pc[x] = "fail_job"
  BY DEF StartStep, CompleteStep, FailStep, CreateJob, BeginJob, CompleteJob, FailJob, Operate,
         Register, Link, Presign, AtDb, TryPc, ActivePc, Quiet, tables
<1>1. PICK point \in ActivePc, r \in Run :
        /\ Proceed(x, point, r) /\ Continues(x, r)
        /\ point \in OpenPc \/ (pc[x] = "fail_job" /\ point = "fail_execution")
  <2>1. CASE StartStep(x) \/ CompleteStep(x) \/ FailStep(x)
    BY <2>1, StepMoves, OpenPoints
  <2>2. CASE CreateJob(x) \/ BeginJob(x) \/ CompleteJob(x) \/ FailJob(x)
    BY <2>2, JobMoves
  <2>3. CASE Operate(x) \/ Register(x) \/ Link(x) \/ Presign(x)
    BY <2>3, MediaMoves, OpenPoints
  <2> QED BY <2>1, <2>2, <2>3
<1>2. PICK e \in Executions : e = Exec(x)
  BY <1>0, Placed
<1>3. /\ Story(pc[x], run[x], e) /\ execution[e] # "absent"
      /\ ~r.broken /\ r.length = "short" /\ r.exec = e /\ r.seen = run[x].seen
  BY <1>0, <1>1, <1>2, Placed DEF Continues
<1>4. \A f : SameStory(f)
  BY <1>0 DEF SameStory
<1>5. point \in Pcs /\ point # "idle"
  BY ActivePoints
<1>6. Story(point, r, e)
  <2>1. point \notin {"dispatch", "log_failure", "report_failure", "log_completion",
                     "report_completion", "handover", "finished", "safety", "reject",
                     "reject_execution"}
    BY ActivePoints
  <2>2. point \in OpenPc => point \notin {"fail_job", "fail_execution"}
    BY DEF OpenPc
  <2>3. r.seen = execution[e] /\ (pc[x] = "fail_job" => errors[e] > 0)
    BY <1>0, <1>3 DEF Story
  <2> QED BY <1>1, <1>3, <2>1, <2>2, <2>3 DEF Story
<1>7. Story(point, r, e)'
  BY <1>4, <1>6, SameStories
<1> QED BY <1>0, <1>1, <1>2, <1>3, <1>4, <1>5, <1>7, Staying

\* What is appended is last.
LEMMA WrittenLast ==
  ASSUME NEW S, NEW table \in [Executions -> Seq(S)], NEW entry \in S, NEW x \in Procs,
         Exec(x) \in Executions
  PROVE  LET after == Write(table, x, entry)[Exec(x)]
         IN  after # <<>> /\ after[Len(after)] = entry
<1>1. Write(table, x, entry)[Exec(x)] = Append(table[Exec(x)], entry) /\ table[Exec(x)] \in Seq(S)
  BY DEF Write
<1>2. Len(Append(table[Exec(x)], entry)) = Len(table[Exec(x)]) + 1
      /\ Append(table[Exec(x)], entry)[Len(table[Exec(x)]) + 1] = entry
      /\ Append(table[Exec(x)], entry) # <<>>
  BY <1>1, AppendProperties
<1> QED BY <1>1, <1>2

LEMMA AuditWritten ==
  ASSUME TypeInv, NEW x \in Procs, Exec(x) \in Executions
  PROVE  /\ \A entry \in Record : LET after == Write(trail, x, entry)[Exec(x)]
                                IN  after # <<>> /\ after[Len(after)] = entry
         /\ \A entry \in Report : LET after == Write(reports, x, entry)[Exec(x)]
                                IN  after # <<>> /\ after[Len(after)] = entry
<1>1. trail \in [Executions -> Seq(Record)]
  BY DEF TypeInv, TypeOK
<1>2. reports \in [Executions -> Seq(Report)]
  BY DEF TypeInv, TypeOK
<1>3. ASSUME NEW entry \in Record
      PROVE  LET after == Write(trail, x, entry)[Exec(x)]
             IN  after # <<>> /\ after[Len(after)] = entry
  BY <1>1, WrittenLast
<1>4. ASSUME NEW entry \in Report
      PROVE  LET after == Write(reports, x, entry)[Exec(x)]
             IN  after # <<>> /\ after[Len(after)] = entry
  BY <1>2, WrittenLast
<1> QED BY <1>3, <1>4

\* Writing the status of an execution as its session has seen it.
LEMMA ExecutionStory ==
  ASSUME TypeInv, Orderly, UNCHANGED faults, NEW x \in Procs,
         Start(x) \/ FailExecution(x) \/ Complete(x)
  PROVE  Orderly'
<1>0. /\ pc[x] # "idle" /\ pc[x] \in {"start"} \cup ActivePc
      /\ UNCHANGED <<errors, trail, reports, queue>>
  BY DEF Start, FailExecution, Complete, AtDb, ActivePc, Quiet
<1>1. PICK e \in Executions : e = Exec(x)
  BY <1>0, Placed
<1>2. /\ run[x] \in Run /\ Story(pc[x], run[x], e) /\ ~run[x].broken /\ run[x].length = "short"
      /\ run[x].seen = execution[e] /\ execution \in [Executions -> ExecutionStatuses]
  BY <1>0, <1>1, Placed DEF Story, TypeInv, TypeOK
<1>3. PICK status \in {"RUNNING", "FAILED", "COMPLETED"}, point \in {"log_start", "log_failure", "log_completion"} :
        /\ SetExecution(x, status) /\ Proceed(x, point, SeeExecution(x, status))
        /\ \/ status = "RUNNING" /\ point = "log_start"
           \/ status = "FAILED" /\ point = "log_failure" /\ pc[x] = "fail_execution"
           \/ status = "COMPLETED" /\ point = "log_completion"
  BY NothingLost DEF Start, FailExecution, Complete, AtDb
<1>4. StoredExecution(x, status) = status
  BY <1>1, <1>2 DEF StoredExecution, Updated
<1>5. execution'[e] = status /\ \A f \in Executions : f # e => execution'[f] = execution[f]
  BY <1>1, <1>2, <1>3, <1>4 DEF SetExecution
<1>6. PICK r \in Run : /\ r = SeeExecution(x, status)
                      /\ r.exec = e /\ r.seen = status /\ ~r.broken /\ r.length = "short"
  <2>1. status \in Statuses
    BY DEF Statuses
  <2>2. SeeExecution(x, status) \in Run /\ SeeExecution(x, status).exec = e
    BY <1>0, <1>1, <2>1, SeenExecutions
  <2>3. /\ SeeExecution(x, status).seen = status /\ ~SeeExecution(x, status).broken
        /\ SeeExecution(x, status).length = "short"
    BY <1>2, <1>4 DEF SeeExecution, Run
  <2> QED BY <2>2, <2>3
<1>7. /\ point \in Pcs /\ point # "idle"
      /\ point \notin {"dispatch", "fail_job", "fail_execution", "report_failure",
                       "report_completion", "handover", "finished", "safety", "reject",
                       "reject_execution"}
  BY DEF Pcs, DbPc, HandlerPc
<1>8. status = "FAILED" => errors'[e] > 0
  BY <1>0, <1>2, <1>3 DEF Story
<1>9. Story(point, r, e)'
  <2>1. point = "log_failure" => execution'[e] = "FAILED" /\ errors'[e] > 0
    BY <1>3, <1>5, <1>8
  <2>2. point = "log_completion" => execution'[e] = "COMPLETED"
    BY <1>3, <1>5
  <2> QED BY <1>5, <1>6, <1>7, <2>1, <2>2 DEF Story
<1>10. \A f \in Executions : f # e => SameStory(f)
  BY <1>0, <1>5 DEF SameStory
<1>11. execution'[e] # "absent"
  BY <1>5
<1>12. Proceed(x, point, r)
  BY <1>3, <1>6
<1> QED BY <1>0, <1>1, <1>6, <1>7, <1>9, <1>10, <1>11, <1>12, Staying

\* Writing the audit.
LEMMA AuditStory ==
  ASSUME TypeInv, Orderly, UNCHANGED faults, NEW x \in Procs,
         \/ LogStart(x) \/ LogError(x) \/ LogFailure(x) \/ ReportFailure(x)
         \/ LogCompletion(x) \/ ReportCompletion(x) \/ Handover(x)
  PROVE  Orderly'
<1>0. pc[x] # "idle" /\ UNCHANGED <<execution, queue>>
  BY DEF LogStart, LogError, LogFailure, ReportFailure, LogCompletion, ReportCompletion, Handover,
         AtDb, Quiet, tables
<1>1. PICK e \in Executions : e = Exec(x)
  BY <1>0, Placed
<1>2. /\ run[x] \in Run /\ run[x].exec = e
      /\ Story(pc[x], run[x], e) /\ ~run[x].broken /\ run[x].length = "short"
      /\ execution[e] # "absent"
  BY <1>0, <1>1, Placed
<1>3. /\ errors \in [Executions -> Nat] /\ trail \in [Executions -> Seq(Record)]
      /\ reports \in [Executions -> Seq(Report)]
  BY DEF TypeInv, TypeOK
<1>4. ASSUME \A f \in Executions : f # e =>
               errors'[f] = errors[f] /\ trail'[f] = trail[f] /\ reports'[f] = reports[f]
      PROVE  /\ \A point \in Pcs, r \in Run :
                  Proceed(x, point, r) /\ point # "idle" /\ r.exec = e /\ Story(point, r, e)' => Orderly'
             /\ (Return(x) \/ Leave(x)) /\ Audited(e)' => Orderly'
  <2>1. \A f \in Executions : f # e => SameStory(f)
    BY <1>0, <1>4 DEF SameStory
  <2>2. execution'[e] # "absent"
    BY <1>0, <1>2
  <2> QED BY <1>0, <1>1, <2>1, <2>2, Staying
<1>5. CASE LogStart(x)
  <2>1. PICK r \in Run : /\ r = AtStep(run[x], 1) /\ r.exec = e /\ r.seen = run[x].seen
                        /\ ~r.broken /\ r.length = "short"
    <3>1. AtStep(run[x], 1) \in Run
      BY <1>2, AssignedRuns
    <3>2. /\ AtStep(run[x], 1).exec = run[x].exec /\ AtStep(run[x], 1).seen = run[x].seen
          /\ AtStep(run[x], 1).broken = run[x].broken /\ AtStep(run[x], 1).length = run[x].length
      BY <1>2 DEF AtStep, Run
    <3> QED BY <1>2, <3>1, <3>2
  <2>2. Proceed(x, "start_step", r) /\ pc[x] = "log_start" /\ UNCHANGED <<errors, reports>>
        /\ trail' = Write(trail, x, [from |-> run[x].was, to |-> run[x].seen])
    BY <1>5, <2>1, NothingLost DEF LogStart, AtDb
  <2>3. "start_step" \in Pcs /\ "log_start" \in ActivePc
    BY OpenPoints, ActivePoints DEF TryPc, ActivePc
  <2>4. r.seen = execution'[e]
    BY <1>0, <1>2, <2>1, <2>2, <2>3 DEF Story
  <2>5. Story("start_step", r, e)'
    BY <2>1, <2>4 DEF Story
  <2>6. \A f \in Executions : f # e => trail'[f] = trail[f]
    BY <1>1, <1>3, <2>2 DEF Write
  <2> QED BY <1>4, <2>1, <2>2, <2>3, <2>5, <2>6
<1>6. CASE LogError(x)
  <2>1. /\ errors' = [errors EXCEPT ![Exec(x)] = @ + 1] /\ Proceed(x, AfterError(x), run[x])
        /\ UNCHANGED <<trail, reports>> /\ pc[x] = "log_error"
    BY <1>2, <1>6, NothingLost DEF LogError, AtDb
  <2>2. errors'[e] > 0 /\ \A f \in Executions : f # e => errors'[f] = errors[f]
    BY <1>1, <1>3, <2>1
  <2>3. PICK point \in {"fail_execution", "fail_job"} : point = AfterError(x)
    BY DEF AfterError
  <2>4. PICK r \in Run : r = run[x]
    BY <1>2
  <2>5. r.seen = execution'[e] /\ ~r.broken /\ r.length = "short" /\ r.exec = e
    BY <1>0, <1>2, <2>1, <2>4 DEF Story, ActivePc
  <2>6. point \in Pcs /\ point # "idle" /\ Story(point, r, e)'
    BY <2>2, <2>5 DEF Pcs, DbPc, HandlerPc, Story
  <2> QED BY <1>4, <2>1, <2>2, <2>3, <2>4, <2>5, <2>6
<1>7. CASE LogFailure(x)
  <2>1. /\ trail' = Write(trail, x, [from |-> run[x].seen, to |-> "FAILED"]) /\ pc[x] = "log_failure"
        /\ Proceed(x, "report_failure", run[x]) /\ UNCHANGED <<errors, reports>>
    BY <1>2, <1>7, NothingLost DEF LogFailure, AtDb
  <2>2. PICK entry \in Record : entry = [from |-> run[x].seen, to |-> "FAILED"]
    BY <1>2 DEF Record, Run, ExecutionStatuses, Statuses
  <2>3. LastRecord(e, "FAILED")' /\ \A f \in Executions : f # e => trail'[f] = trail[f]
    <3>1. LastRecord(e, "FAILED")'
      <4>1. LET after == Write(trail, x, entry)[e]
            IN  after # <<>> /\ after[Len(after)] = entry
        BY <1>1, <2>2, AuditWritten
      <4> QED BY <2>1, <2>2, <4>1 DEF LastRecord
    <3> QED BY <1>1, <1>3, <2>1, <3>1 DEF Write
  <2>4. execution'[e] = "FAILED" /\ errors'[e] > 0
    BY <1>0, <1>2, <2>1 DEF Story
  <2>5. PICK r \in Run : r = run[x]
    BY <1>2
  <2>6. "report_failure" \in Pcs /\ Story("report_failure", r, e)'
    BY <1>2, <2>3, <2>4, <2>5, ActivePoints DEF Story, Pcs, DbPc, HandlerPc
  <2> QED BY <1>2, <1>4, <2>1, <2>3, <2>5, <2>6
<1>8. CASE LogCompletion(x)
  <2>1. /\ trail' = Write(trail, x, [from |-> run[x].seen, to |-> "COMPLETED"])
        /\ pc[x] = "log_completion"
        /\ Proceed(x, "report_completion", run[x]) /\ UNCHANGED <<errors, reports>>
    BY <1>8, NothingLost DEF LogCompletion, AtDb
  <2>2. PICK entry \in Record : entry = [from |-> run[x].seen, to |-> "COMPLETED"]
    BY <1>2 DEF Record, Run, ExecutionStatuses, Statuses
  <2>3. LastRecord(e, "COMPLETED")' /\ \A f \in Executions : f # e => trail'[f] = trail[f]
    <3>1. LastRecord(e, "COMPLETED")'
      <4>1. LET after == Write(trail, x, entry)[e]
            IN  after # <<>> /\ after[Len(after)] = entry
        BY <1>1, <2>2, AuditWritten
      <4> QED BY <2>1, <2>2, <4>1 DEF LastRecord
    <3> QED BY <1>1, <1>3, <2>1, <3>1 DEF Write
  <2>4. execution'[e] = "COMPLETED"
    BY <1>0, <1>2, <2>1 DEF Story
  <2>5. PICK r \in Run : r = run[x]
    BY <1>2
  <2>6. "report_completion" \in Pcs /\ Story("report_completion", r, e)'
    BY <1>2, <2>3, <2>4, <2>5, ActivePoints DEF Story, Pcs, DbPc
  <2> QED BY <1>2, <1>4, <2>1, <2>3, <2>5, <2>6
<1>9. CASE ReportFailure(x)
  <2>1. /\ WriteReport(x, 1) /\ Return(x) /\ UNCHANGED <<errors, trail>> /\ pc[x] = "report_failure"
    BY <1>9, NothingLost DEF ReportFailure, AtDb
  <2>2. PICK entry \in Report : entry = [success |-> run[x].success, failure |-> 1]
    BY <1>2 DEF Report, Run
  <2>3. LastReport(e, 1)' /\ \A f \in Executions : f # e => reports'[f] = reports[f]
    <3>1. LastReport(e, 1)'
      <4>1. LET after == Write(reports, x, entry)[e]
            IN  after # <<>> /\ after[Len(after)] = entry
        BY <1>1, <2>2, AuditWritten
      <4> QED BY <2>1, <2>2, <4>1 DEF LastReport, WriteReport
    <3> QED BY <1>1, <1>3, <2>1, <3>1 DEF Write, WriteReport
  <2>4. execution'[e] = "FAILED" /\ errors'[e] > 0 /\ LastRecord(e, "FAILED")'
    BY <1>0, <1>2, <2>1 DEF Story, LastRecord
  <2>5. Audited(e)'
    BY <2>3, <2>4 DEF Audited
  <2> QED BY <1>4, <2>1, <2>3, <2>5
<1>10. CASE ReportCompletion(x)
  <2>1. /\ WriteReport(x, 0) /\ Proceed(x, "handover", run[x]) /\ UNCHANGED <<errors, trail>>
        /\ pc[x] = "report_completion"
    BY <1>10, NothingLost DEF ReportCompletion, AtDb
  <2>2. PICK entry \in Report : entry = [success |-> run[x].success, failure |-> 0]
    BY <1>2 DEF Report, Run
  <2>3. LastReport(e, 0)' /\ \A f \in Executions : f # e => reports'[f] = reports[f]
    <3>1. LastReport(e, 0)'
      <4>1. LET after == Write(reports, x, entry)[e]
            IN  after # <<>> /\ after[Len(after)] = entry
        BY <1>1, <2>2, AuditWritten
      <4> QED BY <2>1, <2>2, <4>1 DEF LastReport, WriteReport
    <3> QED BY <1>1, <1>3, <2>1, <3>1 DEF Write, WriteReport
  <2>4. execution'[e] = "COMPLETED" /\ LastRecord(e, "COMPLETED")'
    BY <1>0, <1>2, <2>1 DEF Story, LastRecord
  <2>5. PICK r \in Run : r = run[x]
    BY <1>2
  <2>6. "handover" \in Pcs /\ Story("handover", r, e)'
    BY <1>2, <2>3, <2>4, <2>5, ActivePoints DEF Story, Pcs
  <2> QED BY <1>2, <1>4, <2>1, <2>3, <2>5, <2>6
<1>11. CASE Handover(x)
  <2>1. Return(x) /\ UNCHANGED <<errors, trail, reports>> /\ pc[x] = "handover"
    BY <1>11 DEF Handover, tables
  <2>2. Audited(e)
    BY <1>2, <2>1 DEF Story, Audited
  <2>3. Audited(e)'
    BY <1>0, <2>1, <2>2 DEF Audited, LastRecord, LastReport
  <2> QED BY <1>4, <2>1, <2>3
<1> QED BY <1>5, <1>6, <1>7, <1>8, <1>9, <1>10, <1>11

\* An execution changes hands.
LEMMA BrokerStory ==
  ASSUME TypeInv, Orderly, Valid, NEW x \in Procs,
         Dispatch(x) \/ Load(x) \/ Ack(x) \/ WorkerCrash(x)
  PROVE  Orderly'
<1>0. pc[x] # "idle" /\ UNCHANGED <<execution, errors, trail, reports>>
  BY DEF Dispatch, Load, Ack, WorkerCrash, AtDb, tables
<1>1. PICK e \in Executions : e = Exec(x)
  BY <1>0, Placed
<1>2. /\ Story(pc[x], run[x], e) /\ execution[e] # "absent" /\ queue[e] = 0
      /\ \A y \in Procs : Has(y, e) => y = x
      /\ execution \in [Executions -> ExecutionStatuses] /\ queue \in [Executions -> Nat]
  BY <1>0, <1>1, Placed DEF TypeInv, TypeOK
<1>3. \A f : SameStory(f)
  BY <1>0 DEF SameStory
<1>4. Audited(e)' <=> Audited(e)
  BY <1>3, SameStories
<1>5. execution'[e] # "absent"
  BY <1>0, <1>2
<1>6. CASE Ack(x)
  <2>1. Leave(x) /\ UNCHANGED queue /\ pc[x] = "finished"
    BY <1>6 DEF Ack
  <2>2. Audited(e)'
    BY <1>2, <1>4, <2>1 DEF Story
  <2> QED BY <1>0, <1>1, <1>3, <1>5, <2>1, <2>2, Staying
<1>7. CASE Load(x)
  <2>1. Proceed(x, "start", FreshRun(e, execution[e])) /\ UNCHANGED queue
    BY <1>1, <1>7 DEF Load
  <2>2. execution[e] \in ExecutionStatuses
    BY <1>2
  <2>3. FreshRun(e, execution[e]) \in Run
    BY <2>2, FreshRuns
  <2>4. PICK r \in Run : r = FreshRun(e, execution[e])
    BY <2>3
  <2>5. r.exec = e /\ r.seen = execution'[e] /\ ~r.broken /\ r.length = "short"
    BY <1>0, <2>4 DEF FreshRun, IdleRun
  <2>6. "start" \in Pcs /\ Story("start", r, e)'
    BY <2>5, ActivePoints DEF Story, Pcs, DbPc
  <2> QED BY <1>0, <1>1, <1>3, <1>5, <2>1, <2>4, <2>5, <2>6, Staying
<1>8. CASE Dispatch(x) \/ WorkerCrash(x)
  <2>1. /\ Leave(x) /\ (SendTask(e) \/ UNCHANGED queue) /\ (Dispatch(x) => pc[x] = "dispatch")
        /\ WorkerCrash(x) => SendTask(e)
    BY <1>1, <1>8 DEF Dispatch, WorkerCrash
  <2>2. SendTask(e) => queue'[e] = 1
    BY <1>2 DEF SendTask
  <2>3. queue'[e] \in {0, 1} /\ \A f \in Executions : f # e => queue'[f] = queue[f]
    BY <1>2, <2>1 DEF SendTask
  <2>4. queue'[e] = 1 \/ Audited(e)'
    <3>1. CASE WorkerCrash(x)
      BY <2>1, <2>2, <3>1
    <3>2. CASE Dispatch(x)
      <4>1. execution[e] = "PENDING"
        BY <1>2, <2>1, <3>2 DEF Story
      <4> QED BY <1>4, <4>1 DEF Audited, Over
    <3> QED BY <1>8, <3>1, <3>2
  <2>5. PICK r \in Run : r = IdleRun
    BY IdleRuns
  <2>6. Proceed(x, "idle", r) /\ "idle" \in Pcs
    BY <2>1, <2>5, PointsAreDistinct DEF Leave
  <2>7. Story("idle", r, e)'
    BY <2>5, ActivePoints DEF Story, IdleRun
  <2> QED BY <1>1, <1>2, <1>3, <1>5, <2>3, <2>4, <2>6, <2>7, Moving
<1> QED BY <1>6, <1>7, <1>8

\* An execution is created, or taken from the queue.
LEMMA TakingStory ==
  ASSUME TypeInv, Orderly, NEW x \in Procs, NEW e \in Executions,
         RequestRun(x, e) \/ EnqueueWorkflow(x, e) \/ Deliver(x, e)
  PROVE  Orderly'
<1>0. /\ pc[x] = "idle" /\ UNCHANGED <<errors, trail, reports>>
      /\ execution \in [Executions -> ExecutionStatuses] /\ queue \in [Executions -> Nat]
      /\ OnePlace(e)
  BY DEF RequestRun, EnqueueWorkflow, Deliver, tables, TypeInv, TypeOK, Orderly
<1>1. PICK point \in {"start", "dispatch", "load"}, r \in Run :
        /\ Proceed(x, point, r) /\ r.exec = e /\ ~r.broken /\ r.length = "short"
        /\ point = "start" => r.seen = "PENDING"
  <2>1. "PENDING" \in ExecutionStatuses
    BY DEF ExecutionStatuses, Statuses
  <2>2. CASE RequestRun(x, e)
    <3>1. FreshRun(e, "PENDING") \in Run /\ FreshRun(e, "PENDING").exec = e
      BY <2>1, FreshRuns
    <3>2. /\ FreshRun(e, "PENDING").seen = "PENDING" /\ ~FreshRun(e, "PENDING").broken
          /\ FreshRun(e, "PENDING").length = "short"
      BY DEF FreshRun, IdleRun
    <3> QED BY <2>2, <3>1, <3>2 DEF RequestRun
  <2>3. CASE EnqueueWorkflow(x, e) \/ Deliver(x, e)
    <3> DEFINE q == [IdleRun EXCEPT !.exec = e]
    <3>1. q \in Run /\ q.exec = e /\ ~q.broken /\ q.length = "short"
      BY IdleRuns DEF IdleRun
    <3>2. Proceed(x, "dispatch", q) \/ Proceed(x, "load", q)
      BY <2>3 DEF EnqueueWorkflow, Deliver
    <3> HIDE DEF q
    <3> QED BY <3>1, <3>2
  <2> QED BY <2>2, <2>3
<1>2. /\ queue'[e] = 0 /\ execution'[e] # "absent"
      /\ point \in {"start", "dispatch"} => execution'[e] = "PENDING"
      /\ \A f \in Executions : f # e => execution'[f] = execution[f] /\ queue'[f] = queue[f]
      /\ \A y \in Procs : ~Has(y, e)
  <2>1. pc'[x] = point
    BY <1>1 DEF TypeInv, TypeOK, Proceed
  <2>2. CASE RequestRun(x, e) \/ EnqueueWorkflow(x, e)
    <3>1. execution[e] = "absent" /\ execution' = [execution EXCEPT ![e] = "PENDING"] /\ UNCHANGED queue
      BY <2>2 DEF RequestRun, EnqueueWorkflow
    <3> QED BY <1>0, <3>1 DEF OnePlace
  <2>3. CASE Deliver(x, e)
    <3>1. /\ queue[e] > 0 /\ queue' = [queue EXCEPT ![e] = @ - 1] /\ UNCHANGED execution
          /\ pc'[x] = "load"
      BY <2>3 DEF Deliver, tables, Proceed, TypeInv, TypeOK
    <3>2. queue[e] = 1 /\ \A y \in Procs : ~Has(y, e)
      BY <1>0, <3>1 DEF OnePlace
    <3>3. execution[e] # "absent"
      BY <1>0, <3>1 DEF OnePlace
    <3> QED BY <1>0, <2>1, <3>1, <3>2, <3>3
  <2> QED BY <2>2, <2>3
<1>3. point \in Pcs /\ point # "idle" /\ point \notin ActivePc
  BY ActivePoints DEF Pcs, DbPc
<1>4. Story(point, r, e)'
  BY <1>1, <1>2, <1>3 DEF Story
<1>5. \A f \in Executions : f # e => SameStory(f)
  BY <1>0, <1>2 DEF SameStory
<1>6. \A y \in Procs : Has(y, e) => y = x
  BY <1>2
<1> QED BY <1>0, <1>1, <1>2, <1>3, <1>4, <1>5, <1>6, Moving

-----------------------------------------------------------------------------
LEMMA InitOrderly == Init => OrderlyInv
<1> SUFFICES ASSUME Init PROVE Orderly
  BY DEF OrderlyInv
<1>1. \A x \in Procs : pc[x] = "idle" /\ run[x] = IdleRun
  BY DEF Init
<1>2. \A e \in Executions : execution[e] = "absent" /\ queue[e] = 0
  BY DEF Init
<1>3. \A e \in Executions : OnePlace(e) /\ Audited(e)
  BY <1>1, <1>2 DEF OnePlace, Has, Audited, Over
<1>4. \A x \in Procs : Story(pc[x], run[x], Exec(x))
  BY <1>1, ActivePoints DEF Story, IdleRun
<1> QED BY <1>3, <1>4 DEF Orderly

\* No message is doubled: the counters do not go down.
LEMMA NothingDoubles ==
  ASSUME TypeInv, TypeInv', [Next]_vars, NothingDoubled'
  PROVE  /\ NothingDoubled /\ UNCHANGED faults
         /\ \A x : ~DbFault(x) /\ ~ClientCrash(x) /\ ~Redeliver(x) /\ ~EnqueueExecution(x)
<1>1. /\ faults \in Nat /\ clientCrashes \in Nat /\ extraMessages \in Nat
      /\ faults' \in Nat /\ clientCrashes' \in Nat /\ extraMessages' \in Nat
  BY BoundsAreNats DEF TypeInv, TypeOK
<1>2. faults' = 0 /\ clientCrashes' = 0 /\ extraMessages' = 0
  <2>1. faults' + clientCrashes' + extraMessages' = 0
    BY DEF NothingDoubled
  <2> QED BY <1>1, <2>1, ZeroSum
<1>3. \A n \in Nat : n + 1 # 0
  OBVIOUS
<1>4. faults = 0 /\ clientCrashes = 0 /\ extraMessages = 0
  BY <1>1, <1>2, <1>3, NextSpends
<1> QED BY <1>1, <1>2, <1>3, <1>4
        DEF NothingDoubled, DbFault, ClientCrash, Redeliver, EnqueueExecution

LEMMA NextOrderly ==
  ASSUME MessageLengths \subseteq {"short"}
  PROVE  TypeInv /\ TypeInv' /\ OrderlyInv /\ [Next]_vars => OrderlyInv'
<1> SUFFICES ASSUME TypeInv, TypeInv', OrderlyInv, [Next]_vars, Valid', NothingDoubled'
             PROVE  Orderly'
  BY DEF OrderlyInv
<1>0. /\ UNCHANGED faults
      /\ \A x : ~DbFault(x) /\ ~ClientCrash(x) /\ ~Redeliver(x) /\ ~EnqueueExecution(x)
  BY NothingDoubles
<1>1. Orderly /\ Valid
  <2>1. UNCHANGED plan
    BY NextSpends
  <2>2. Valid
    BY <2>1 DEF Valid, Exists
  <2> QED BY <2>2, NothingDoubles DEF OrderlyInv
<1>2. \A x \in Procs : Story(pc[x], run[x], Exec(x))
  BY <1>1 DEF Orderly
<1>3. CASE UNCHANGED vars
  BY <1>1, <1>3 DEF vars, tables, Orderly, OnePlace, Has, Audited, Story, LastRecord, LastReport,
                    Exec
<1>4. ASSUME NEW x \in Procs, RunStep(x) \/ Handover(x) PROVE Orderly'
  <2>1. CASE Start(x) \/ FailExecution(x) \/ Complete(x)
    BY <1>0, <1>1, <2>1, ExecutionStory
  <2>2. CASE \/ LogStart(x) \/ LogError(x) \/ LogFailure(x) \/ ReportFailure(x)
             \/ LogCompletion(x) \/ ReportCompletion(x) \/ Handover(x)
    BY <1>0, <1>1, <2>2, AuditStory
  <2>3. CASE \/ StartStep(x) \/ CompleteStep(x) \/ FailStep(x)
             \/ CreateJob(x) \/ BeginJob(x) \/ CompleteJob(x) \/ FailJob(x)
             \/ Operate(x) \/ Register(x) \/ Link(x) \/ Presign(x)
    BY <1>0, <1>1, <2>3, WorkStory
  <2>4. CASE PendingRollback(x)
    BY <1>2, <2>4 DEF PendingRollback, Story
  <2> QED BY <1>4, <2>1, <2>2, <2>3, <2>4 DEF RunStep, StepOfPlan, Handler
<1>5. ASSUME NEW w \in Workers, TaskStep(w) PROVE Orderly'
  <2>0. w \in Procs
    BY DEF Procs
  <2>1. CASE Reject(w) \/ RejectExecution(w) \/ Safety(w)
    BY <1>2, <2>0, <2>1 DEF Reject, RejectExecution, Safety, AtDb, Story
  <2>2. CASE Load(w) \/ Ack(w)
    BY <1>1, <2>0, <2>2, BrokerStory
  <2>3. CASE \E e \in Executions : Deliver(w, e)
    BY <1>1, <2>0, <2>3, TakingStory
  <2> QED BY <1>5, <2>1, <2>2, <2>3 DEF TaskStep
<1>6. CASE Request
  <2>1. PICK c \in Clients, e \in Executions : RequestRun(c, e) \/ EnqueueWorkflow(c, e)
    BY <1>0, <1>6 DEF Request
  <2>2. c \in Procs
    BY DEF Procs
  <2> QED BY <1>1, <2>1, <2>2, TakingStory
<1>7. ASSUME NEW c \in Clients, Dispatch(c) PROVE Orderly'
  <2>1. c \in Procs
    BY DEF Procs
  <2> QED BY <1>1, <1>7, <2>1, BrokerStory
<1>8. CASE Fault
  <2>1. PICK w \in Workers : WorkerCrash(w)
    BY <1>0, <1>8 DEF Fault
  <2>2. w \in Procs
    BY DEF Procs
  <2> QED BY <1>1, <2>1, <2>2, BrokerStory
<1> QED BY <1>3, <1>4, <1>5, <1>6, <1>7, <1>8 DEF Next, RunNext

(* While no message is doubled, an execution is in the queue once, or with one  *)
(* process, or with nobody and then audited; what its session has seen is what  *)
(* is stored, and its records say what the point of its process promises.      *)
THEOREM OrderlyInvariant ==
  ASSUME MessageLengths \subseteq {"short"} PROVE Spec => []OrderlyInv
<1>1. Init => OrderlyInv
  BY InitOrderly
<1>2. TypeInv /\ TypeInv' /\ OrderlyInv /\ [Next]_vars => OrderlyInv'
  BY NextOrderly
<1> QED BY <1>1, <1>2, TypeInvariant, PTL DEF Spec

(* However many workers are lost, an execution whose message was dealt with and *)
(* which is over has its closing record and its metrics, about the status it    *)
(* has, and an error if it failed.  The constant excludes messages of more than *)
(* 500 characters, which the history column refuses.                           *)
THEOREM AuditIsComplete ==
  ASSUME MessageLengths \subseteq {"short"} PROVE Spec => []AuditCatchesUp
<1>1. OrderlyInv => AuditCatchesUp
  <2> SUFFICES ASSUME OrderlyInv, NEW e \in Executions, Valid, Calm, NothingDoubled,
                      queue[e] = 0, execution[e] \in Over
               PROVE  /\ trail[e] # <<>> /\ reports[e] # <<>>
                      /\ trail[e][Len(trail[e])].to = execution[e]
                      /\ (reports[e][Len(reports[e])].failure = 1) <=> (execution[e] = "FAILED")
                      /\ execution[e] = "FAILED" => errors[e] > 0
    BY DEF AuditCatchesUp, NothingDoubled
  <2>1. Orderly
    BY DEF OrderlyInv
  <2>2. \A x \in Procs : ~Has(x, e)
    BY DEF Calm, Has
  <2>3. Audited(e)
    BY <2>1, <2>2 DEF Orderly
  <2> QED BY <2>3 DEF Audited, LastRecord, LastReport
<1> QED BY <1>1, OrderlyInvariant, PTL
=============================================================================
