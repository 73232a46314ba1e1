--------------------------- MODULE WorkflowRuntime ---------------------------
(***************************************************************************)
(* Execution of a workflow: WorkflowRuntime.run with the Celery task and    *)
(* the request handlers that call it.                                      *)
(*                                                                         *)
(* A run walks through the steps of its workflow, creates a job for every   *)
(* item of a step, branches on conditions and writes its audit trail as it  *)
(* goes.  Every repository call commits, so between two of them another     *)
(* run of the same workflow, or of the same execution, may take its turn,   *)
(* the process may be lost, or the call itself may fail.                    *)
(***************************************************************************)
EXTENDS Naturals, Sequences, FiniteSets

CONSTANTS
  Clients,              \* API request handlers
  Workers,              \* Celery worker processes
  Executions,           \* WorkflowExecution identifiers
  NoExecution,          \* the execution of an idle process
  Plans,                \* the workflows considered, each the sequence of its steps
  MessageLengths,       \* how long the text of an exception may be
  MaxItems,             \* bound: items of a loop
  MaxJobs,              \* bound: jobs of one execution
  MaxFaults,            \* bound: failing database calls
  MaxClientCrashes,     \* bound: API processes lost
  MaxWorkerCrashes,     \* bound: worker processes lost
  MaxExtraMessages,     \* bound: messages beyond the one of enqueue_workflow
  MaxMishaps            \* bound: the four together

Operations == {"text", "image", "video", "unsupported"}

\* A target of 0 is a next_step that is not set.
PlanStep == [operation : Operations, loop : BOOLEAN, condition : BOOLEAN,
             onTrue : Nat, onFalse : Nat]

ASSUME PlansAssumption == Plans \subseteq Seq(PlanStep)
ASSUME RunnersAssumption == Clients \cap Workers = {}
ASSUME NoExecutionAssumption == NoExecution \notin Executions
ASSUME LengthsAssumption == MessageLengths \subseteq {"short", "long", "huge"}
ASSUME BudgetsAssumption ==
  {MaxItems, MaxJobs, MaxFaults, MaxClientCrashes, MaxWorkerCrashes, MaxExtraMessages,
   MaxMishaps} \subseteq Nat

VARIABLES
  plan,                 \* the workflow: its steps in their order, never changed
  execution,            \* workflow_executions: the status of each
  steps,                \* workflow_steps: the status of each, shared by all runs
  jobs,                 \* jobs of each execution, in the order of creation
  products,             \* media each execution stored in the object storage
  artifacts,            \* workflow_artifacts: the product each of them links to
  errors,               \* workflow_execution_errors: how many
  trail,                \* workflow_execution_history: the records without a step
  reports,              \* workflow_execution_metrics: the counts of each report
  queue,                \* the broker: copies of an execution's message
  pc, run,              \* per process: control and the locals of run
  faults, clientCrashes, workerCrashes, extraMessages     \* what was spent

tables == <<execution, steps, jobs, products, artifacts, errors, trail, reports>>
spent  == <<faults, clientCrashes, workerCrashes, extraMessages>>
vars   == <<plan, tables, queue, pc, run, spent>>

-----------------------------------------------------------------------------
Procs == Clients \cup Workers

Statuses == {"PENDING", "RUNNING", "COMPLETED", "FAILED"}

Over == {"COMPLETED", "FAILED"}

ExecutionStatuses == Statuses \cup {"absent"}

\* The object a job uploaded, from the time it is registered also its Asset.
Product == [kind : {"image", "video"}, registered : BOOLEAN, job : Nat]

Job == [step : Nat, status : Statuses]

Record == [from : ExecutionStatuses, to : ExecutionStatuses]

Report == [success : Nat, failure : {0, 1}]

Lengths == {"short", "long", "huge"}

(* The locals of a process.  seen and seenSteps are the rows its session     *)
(* holds; mine are the jobs of this run, a history variable.                 *)
Run == [exec : Executions \cup {NoExecution}, seen : ExecutionStatuses,
        was : ExecutionStatuses, seenSteps : Seq(Statuses), step : Nat,
        left : Nat, job : Nat, product : Nat, mine : SUBSET Nat,
        success : Nat, length : Lengths, broken : BOOLEAN]

IdleRun == [exec |-> NoExecution, seen |-> "absent", was |-> "absent",
            seenSteps |-> <<>>, step |-> 0, left |-> 0, job |-> 0,
            product |-> 0, mine |-> {}, success |-> 0, length |-> "short",
            broken |-> FALSE]

\* Control points inside the try block of the loop over the steps.
TryPc == {"start_step", "create_job", "begin_job", "operate", "register", "link",
          "presign", "complete_job", "complete_step"}

HandlerPc == {"fail_step", "log_error", "fail_job", "fail_execution", "log_failure",
              "report_failure"}

\* Control points at which the next thing the process does is a database call.
DbPc == (TryPc \ {"operate", "presign"}) \cup HandlerPc \cup
        {"load", "reject", "reject_execution", "start", "log_start", "complete",
         "log_completion", "report_completion", "safety"}

\* The points of AutomaticPublishingCoordinator, which module AutomaticPublishing adds.
CoordinatorPc == {"create_publication", "claim", "send", "send_failed"}

\* "handover" is where AutomaticPublishingCoordinator.handle_completion is called.
Pcs == DbPc \cup CoordinatorPc \cup
       {"idle", "dispatch", "operate", "presign", "handover", "finished"}

-----------------------------------------------------------------------------
(* WorkflowValidator, as far as the control of a run depends on it: there     *)
(* are steps, and the targets of a conditional step exist.                    *)

Exists(target) == target \in DOMAIN plan

Valid ==
  /\ plan # <<>>
  /\ \A s \in DOMAIN plan : plan[s].condition =>
       \A target \in {plan[s].onTrue, plan[s].onFalse} : target = 0 \/ Exists(target)

-----------------------------------------------------------------------------
Init ==
  /\ plan \in Plans
  /\ execution = [e \in Executions |-> "absent"]
  /\ steps = [s \in DOMAIN plan |-> "PENDING"]
  /\ jobs = [e \in Executions |-> <<>>]
  /\ products = [e \in Executions |-> <<>>]
  /\ artifacts = [e \in Executions |-> <<>>]
  /\ errors = [e \in Executions |-> 0]
  /\ trail = [e \in Executions |-> <<>>]
  /\ reports = [e \in Executions |-> <<>>]
  /\ queue = [e \in Executions |-> 0]
  /\ pc = [x \in Procs |-> "idle"]
  /\ run = [x \in Procs |-> IdleRun]
  /\ faults = 0 /\ clientCrashes = 0 /\ workerCrashes = 0 /\ extraMessages = 0

-----------------------------------------------------------------------------
(* Control of a process.                                                   *)

Exec(x) == run[x].exec

Step(x) == plan[run[x].step]

Proceed(x, point, r) ==
  /\ pc' = [pc EXCEPT ![x] = point]
  /\ run' = [run EXCEPT ![x] = r]

Leave(x) == Proceed(x, "idle", IdleRun)

\* Where a returning call ends: a worker still owes the broker an acknowledgement.
Return(x) ==
  IF x \in Workers THEN Proceed(x, "finished", [IdleRun EXCEPT !.exec = Exec(x)])
                   ELSE Leave(x)

(* Where an exception goes: from the try block to its handler, from anywhere  *)
(* else out of run - to the error middleware, or to the task's own handler    *)
(* unless the task has not entered it yet or is already in it.                *)
Raise(x, r) ==
  IF pc[x] \in TryPc THEN Proceed(x, "fail_step", r)
  ELSE IF x \in Workers /\ pc[x] \notin {"load", "safety"} THEN Proceed(x, "safety", r)
  ELSE Return(x)

-----------------------------------------------------------------------------
(* Repository calls.  create and update commit and refresh: an error leaves   *)
(* either a session that awaits a rollback nobody issues, or, when only the   *)
(* refresh found no connection, a usable one and the effect in place.         *)

Answered == UNCHANGED faults

\* One more mishap is within the bounds.
Affordable(count, bound) ==
  /\ count < bound
  /\ faults + clientCrashes + workerCrashes + extraMessages < MaxMishaps

LoseAnswer(x, r) ==
  /\ Affordable(faults, MaxFaults)
  /\ faults' = faults + 1
  /\ \E broken \in BOOLEAN, length \in MessageLengths :
       Raise(x, [r EXCEPT !.broken = broken, !.length = length])

AtDb(x, point) == pc[x] = point /\ ~run[x].broken

(* update writes the columns whose value differs from the one the session     *)
(* holds; what is stored afterwards is also what the session holds then.      *)
Updated(seen, stored, value) == IF seen = value THEN stored ELSE value

StoredExecution(x, status) == Updated(run[x].seen, execution[Exec(x)], status)

StoredStep(x, status) ==
  LET s == run[x].step IN Updated(run[x].seenSteps[s], steps[s], status)

SetExecution(x, status) ==
  execution' = [execution EXCEPT ![Exec(x)] = StoredExecution(x, status)]

SetStep(x, status) == steps' = [steps EXCEPT ![run[x].step] = StoredStep(x, status)]

SeeExecution(x, status) == [run[x] EXCEPT !.seen = StoredExecution(x, status),
                                          !.was = run[x].seen]

SeeStep(x, status) ==
  [run[x] EXCEPT !.seenSteps = [@ EXCEPT ![run[x].step] = StoredStep(x, status)]]

SetJob(x, status) == jobs' = [jobs EXCEPT ![Exec(x)][run[x].job].status = status]

Write(table, x, entry) == [table EXCEPT ![Exec(x)] = Append(@, entry)]

Quiet == UNCHANGED <<plan, queue, clientCrashes, workerCrashes, extraMessages>>

-----------------------------------------------------------------------------
(* Starting a run.                                                         *)

FreshRun(e, status) == [IdleRun EXCEPT !.exec = e, !.seen = status, !.seenSteps = steps]

\* POST /workflows/{id}/run: an invalid workflow is answered without an execution.
RequestRun(c, e) ==
  /\ pc[c] = "idle" /\ Valid
  /\ execution[e] = "absent"
  /\ execution' = [execution EXCEPT ![e] = "PENDING"]
  /\ Proceed(c, "start", FreshRun(e, "PENDING"))
  /\ UNCHANGED <<plan, steps, jobs, products, artifacts, errors, trail, reports, queue, spent>>

\* enqueue_workflow commits the execution before it sends the task.
EnqueueWorkflow(c, e) ==
  /\ pc[c] = "idle"
  /\ execution[e] = "absent"
  /\ execution' = [execution EXCEPT ![e] = "PENDING"]
  /\ Proceed(c, "dispatch", [IdleRun EXCEPT !.exec = e])
  /\ UNCHANGED <<plan, steps, jobs, products, artifacts, errors, trail, reports, queue, spent>>

SendTask(e) == queue' = [queue EXCEPT ![e] = @ + 1]

\* send_task, which may raise, and the task id that no property is about.
Dispatch(c) ==
  /\ pc[c] = "dispatch"
  /\ SendTask(Exec(c)) \/ UNCHANGED queue
  /\ Leave(c)
  /\ UNCHANGED <<plan, tables, spent>>

\* enqueue_execution sends whatever the status of the execution is.
EnqueueExecution(e) ==
  /\ execution[e] # "absent"
  /\ Affordable(extraMessages, MaxExtraMessages)
  /\ extraMessages' = extraMessages + 1
  /\ SendTask(e)
  /\ UNCHANGED <<plan, tables, pc, run, faults, clientCrashes, workerCrashes>>

Deliver(w, e) ==
  /\ pc[w] = "idle"
  /\ queue[e] > 0
  /\ queue' = [queue EXCEPT ![e] = @ - 1]
  /\ Proceed(w, "load", [IdleRun EXCEPT !.exec = e])
  /\ UNCHANGED <<plan, tables, spent>>

\* Mutant: the task leaves an execution alone that is RUNNING already.
LoadSkippingRunning(w) ==
  /\ AtDb(w, "load")
  /\ IF execution[Exec(w)] = "RUNNING" THEN Return(w)
     ELSE Proceed(w, IF Valid THEN "start" ELSE "reject",
                     FreshRun(Exec(w), execution[Exec(w)]))
  /\ UNCHANGED <<plan, tables, queue, spent>>

\* The task reads the execution and the workflow, run reads and validates the steps.
Load(w) ==
  /\ AtDb(w, "load")
  /\ Proceed(w, IF Valid THEN "start" ELSE "reject",
                FreshRun(Exec(w), execution[Exec(w)]))
  /\ UNCHANGED <<plan, tables, queue, spent>>

Reject(w) ==
  /\ AtDb(w, "reject")
  /\ errors' = [errors EXCEPT ![Exec(w)] = @ + 1]
  /\ \/ Answered /\ Proceed(w, "reject_execution", run[w])
     \/ LoseAnswer(w, run[w])
  /\ Quiet /\ UNCHANGED <<execution, steps, jobs, products, artifacts, trail, reports>>

RejectExecution(w) ==
  /\ AtDb(w, "reject_execution")
  /\ SetExecution(w, "FAILED")
  /\ \/ Answered /\ Return(w)
     \/ LoseAnswer(w, SeeExecution(w, "FAILED"))
  /\ Quiet /\ UNCHANGED <<steps, jobs, products, artifacts, errors, trail, reports>>

Start(x) ==
  /\ AtDb(x, "start")
  /\ SetExecution(x, "RUNNING")
  /\ \/ Answered /\ Proceed(x, "log_start", SeeExecution(x, "RUNNING"))
     \/ LoseAnswer(x, SeeExecution(x, "RUNNING"))
  /\ Quiet /\ UNCHANGED <<steps, jobs, products, artifacts, errors, trail, reports>>

\* job = None is what the handler finds until the step has created one.
AtStep(r, s) == [r EXCEPT !.step = s, !.job = 0, !.product = 0]

LogStart(x) ==
  /\ AtDb(x, "log_start")
  /\ trail' = Write(trail, x, [from |-> run[x].was, to |-> run[x].seen])
  /\ \/ Answered /\ Proceed(x, "start_step", AtStep(run[x], 1))
     \/ LoseAnswer(x, run[x])
  /\ Quiet /\ UNCHANGED <<execution, steps, jobs, products, artifacts, errors, reports>>

-----------------------------------------------------------------------------
(* One step of the workflow.                                               *)

NextItem(r) == IF r.left = 0 THEN "complete_step" ELSE "create_job"

Items(s) == IF plan[s].loop THEN 0..MaxItems ELSE {1}

\* An exception raised by anything but the database: the session is as it was.
Fail(x) == \E length \in MessageLengths : Raise(x, [run[x] EXCEPT !.length = length])

\* The step is RUNNING and so says its history; then the loop source is resolved.
StartStep(x) ==
  /\ AtDb(x, "start_step")
  /\ SetStep(x, "RUNNING")
  /\ \/ /\ Answered
        /\ \/ \E n \in Items(run[x].step) :
                LET r == [SeeStep(x, "RUNNING") EXCEPT !.left = n]
                IN Proceed(x, NextItem(r), r)
           \/ /\ Step(x).loop
              /\ \E length \in MessageLengths :
                   Raise(x, [SeeStep(x, "RUNNING") EXCEPT !.length = length])
     \/ LoseAnswer(x, SeeStep(x, "RUNNING"))
  /\ Quiet /\ UNCHANGED <<execution, jobs, products, artifacts, errors, trail, reports>>

\* A job whose creation is not answered stays behind: the local is not assigned.
CreateJob(x) ==
  LET n == Len(jobs[Exec(x)]) + 1 IN
  /\ AtDb(x, "create_job")
  /\ n <= MaxJobs
  /\ jobs' = Write(jobs, x, [step |-> run[x].step, status |-> "PENDING"])
  /\ \/ /\ Answered
        /\ Proceed(x, "begin_job", [run[x] EXCEPT !.job = n, !.product = 0,
                                                  !.mine = @ \cup {n}])
     \/ LoseAnswer(x, [run[x] EXCEPT !.mine = @ \cup {n}])
  /\ Quiet /\ UNCHANGED <<execution, steps, products, artifacts, errors, trail, reports>>

BeginJob(x) ==
  /\ AtDb(x, "begin_job")
  /\ SetJob(x, "RUNNING")
  /\ \/ Answered /\ Proceed(x, "operate", run[x])
     \/ LoseAnswer(x, run[x])
  /\ Quiet /\ UNCHANGED <<execution, steps, products, artifacts, errors, trail, reports>>

\* Mutant: an operation that fails is logged and the run goes on.
OperateIgnoringFailure(x) ==
  /\ pc[x] = "operate"
  /\ LET r == [run[x] EXCEPT !.left = @ - 1] IN Proceed(x, NextItem(r), r)
  /\ UNCHANGED <<plan, tables, queue, spent>>

(* The operation up to its first commit: prompts are resolved, the provider    *)
(* or the renderer works, media are uploaded.  Any of it may fail.            *)
Operate(x) ==
  /\ pc[x] = "operate"
  /\ \/ /\ Step(x).operation = "text"
        /\ Proceed(x, "complete_job", run[x])
        /\ UNCHANGED products
     \/ /\ Step(x).operation \in {"image", "video"}
        /\ products' = Write(products, x, [kind |-> Step(x).operation, registered |-> FALSE,
                                           job |-> run[x].job])
        /\ Proceed(x, "register", [run[x] EXCEPT !.product = Len(products[Exec(x)]) + 1])
     \/ Fail(x) /\ UNCHANGED products
  /\ UNCHANGED <<plan, execution, steps, jobs, artifacts, errors, trail, reports, queue, spent>>

Register(x) ==
  /\ AtDb(x, "register")
  /\ products' = [products EXCEPT ![Exec(x)][run[x].product].registered = TRUE]
  /\ \/ Answered /\ Proceed(x, "link", run[x])
     \/ LoseAnswer(x, run[x])
  /\ Quiet /\ UNCHANGED <<execution, steps, jobs, artifacts, errors, trail, reports>>

Link(x) ==
  /\ AtDb(x, "link")
  /\ artifacts' = Write(artifacts, x, run[x].product)
  /\ \/ Answered /\ Proceed(x, "presign", run[x])
     \/ LoseAnswer(x, run[x])
  /\ Quiet /\ UNCHANGED <<execution, steps, jobs, products, errors, trail, reports>>

\* The download reference; only after it the context learns of the medium.
Presign(x) ==
  /\ pc[x] = "presign"
  /\ Proceed(x, "complete_job", run[x]) \/ Fail(x)
  /\ UNCHANGED <<plan, tables, queue, spent>>

CompleteJob(x) ==
  /\ AtDb(x, "complete_job")
  /\ SetJob(x, "COMPLETED")
  /\ \/ /\ Answered
        /\ LET r == [run[x] EXCEPT !.success = @ + 1, !.left = @ - 1]
           IN Proceed(x, NextItem(r), r)
     \/ LoseAnswer(x, run[x])
  /\ Quiet /\ UNCHANGED <<execution, steps, products, artifacts, errors, trail, reports>>

\* The step after step s when its condition gave the outcome; 0 at the end.
Target(s, outcome) == IF outcome THEN plan[s].onTrue ELSE plan[s].onFalse

\* Mutant: the sequential fallback runs off the list.
NextStepsOffByOne(s) ==
  IF plan[s].condition
  THEN {IF Target(s, outcome) = 0 THEN s + 1 ELSE Target(s, outcome) : outcome \in BOOLEAN}
  ELSE {s + 1}

NextSteps(s) ==
  LET following == IF Exists(s + 1) THEN s + 1 ELSE 0
      chosen(outcome) == IF Target(s, outcome) = 0 THEN following ELSE Target(s, outcome)
  IN IF plan[s].condition THEN {chosen(TRUE), chosen(FALSE)} ELSE {following}

\* The step is COMPLETED and so says its history; then its condition is evaluated.
CompleteStep(x) ==
  LET r == SeeStep(x, "COMPLETED") IN
  /\ AtDb(x, "complete_step")
  /\ SetStep(x, "COMPLETED")
  /\ \/ /\ Answered
        /\ \/ \E next \in NextSteps(run[x].step) :
                IF next = 0 THEN Proceed(x, "complete", r)
                            ELSE Proceed(x, "start_step", AtStep(r, next))
           \/ /\ Step(x).condition
              /\ \E length \in MessageLengths : Raise(x, [r EXCEPT !.length = length])
     \/ LoseAnswer(x, r)
  /\ Quiet /\ UNCHANGED <<execution, jobs, products, artifacts, errors, trail, reports>>

-----------------------------------------------------------------------------
(* The exception handler of a step.                                        *)

FailStep(x) ==
  /\ AtDb(x, "fail_step")
  /\ SetStep(x, "FAILED")
  /\ \/ Answered /\ Proceed(x, "log_error", SeeStep(x, "FAILED"))
     \/ LoseAnswer(x, SeeStep(x, "FAILED"))
  /\ Quiet /\ UNCHANGED <<execution, jobs, products, artifacts, errors, trail, reports>>

\* Mutant: the job is left to whoever reads it next.
AfterErrorWithoutJob(x) == "fail_execution"

AfterError(x) == IF run[x].job = 0 THEN "fail_execution" ELSE "fail_job"

\* WorkflowExecutionErrorCreate refuses a message of more than 1000 characters.
LogError(x) ==
  /\ AtDb(x, "log_error")
  /\ \/ /\ run[x].length = "huge"
        /\ Answered /\ Raise(x, run[x])
        /\ UNCHANGED errors
     \/ /\ run[x].length # "huge"
        /\ errors' = [errors EXCEPT ![Exec(x)] = @ + 1]
        /\ \/ Answered /\ Proceed(x, AfterError(x), run[x])
           \/ LoseAnswer(x, run[x])
  /\ Quiet /\ UNCHANGED <<execution, steps, jobs, products, artifacts, trail, reports>>

\* Whatever the job's status is by now.
FailJob(x) ==
  /\ AtDb(x, "fail_job")
  /\ SetJob(x, "FAILED")
  /\ \/ Answered /\ Proceed(x, "fail_execution", run[x])
     \/ LoseAnswer(x, run[x])
  /\ Quiet /\ UNCHANGED <<execution, steps, products, artifacts, errors, trail, reports>>

\* Mutant: the run returns before the failure is in the history.
FailExecutionSilently(x) ==
  /\ AtDb(x, "fail_execution")
  /\ SetExecution(x, "FAILED")
  /\ Answered /\ Proceed(x, "report_failure", SeeExecution(x, "FAILED"))
  /\ Quiet /\ UNCHANGED <<steps, jobs, products, artifacts, errors, trail, reports>>

FailExecution(x) ==
  /\ AtDb(x, "fail_execution")
  /\ SetExecution(x, "FAILED")
  /\ \/ Answered /\ Proceed(x, "log_failure", SeeExecution(x, "FAILED"))
     \/ LoseAnswer(x, SeeExecution(x, "FAILED"))
  /\ Quiet /\ UNCHANGED <<steps, jobs, products, artifacts, errors, trail, reports>>

(* The message column holds 500 characters: a longer one is refused by the     *)
(* database, in the middle of a transaction.                                  *)
LogFailure(x) ==
  /\ AtDb(x, "log_failure")
  /\ \/ /\ run[x].length # "short"
        /\ Answered /\ Raise(x, [run[x] EXCEPT !.broken = TRUE])
        /\ UNCHANGED trail
     \/ /\ run[x].length = "short"
        /\ trail' = Write(trail, x, [from |-> run[x].seen, to |-> "FAILED"])
        /\ \/ Answered /\ Proceed(x, "report_failure", run[x])
           \/ LoseAnswer(x, run[x])
  /\ Quiet /\ UNCHANGED <<execution, steps, jobs, products, artifacts, errors, reports>>

\* The four metrics, of which the counts are kept.
WriteReport(x, failure) ==
  reports' = Write(reports, x, [success |-> run[x].success, failure |-> failure])

ReportFailure(x) ==
  /\ AtDb(x, "report_failure")
  /\ WriteReport(x, 1)
  /\ \/ Answered /\ Return(x)
     \/ LoseAnswer(x, run[x])
  /\ Quiet /\ UNCHANGED <<execution, steps, jobs, products, artifacts, errors, trail>>

-----------------------------------------------------------------------------
(* The end of a run, and of its task.                                      *)

Complete(x) ==
  /\ AtDb(x, "complete")
  /\ SetExecution(x, "COMPLETED")
  /\ \/ Answered /\ Proceed(x, "log_completion", SeeExecution(x, "COMPLETED"))
     \/ LoseAnswer(x, SeeExecution(x, "COMPLETED"))
  /\ Quiet /\ UNCHANGED <<steps, jobs, products, artifacts, errors, trail, reports>>

LogCompletion(x) ==
  /\ AtDb(x, "log_completion")
  /\ trail' = Write(trail, x, [from |-> run[x].seen, to |-> "COMPLETED"])
  /\ \/ Answered /\ Proceed(x, "report_completion", run[x])
     \/ LoseAnswer(x, run[x])
  /\ Quiet /\ UNCHANGED <<execution, steps, jobs, products, artifacts, errors, reports>>

ReportCompletion(x) ==
  /\ AtDb(x, "report_completion")
  /\ WriteReport(x, 0)
  /\ \/ Answered /\ Proceed(x, "handover", run[x])
     \/ LoseAnswer(x, run[x])
  /\ Quiet /\ UNCHANGED <<execution, steps, jobs, products, artifacts, errors, trail>>

\* handle_completion of a workflow without auto_publish.
Handover(x) ==
  /\ pc[x] = "handover"
  /\ Return(x)
  /\ UNCHANGED <<plan, tables, queue, spent>>

\* The task's "final safety update", whatever the execution's status is by now.
Safety(w) ==
  /\ AtDb(w, "safety")
  /\ SetExecution(w, "FAILED")
  /\ \/ Answered /\ Return(w)
     \/ LoseAnswer(w, run[w])
  /\ Quiet /\ UNCHANGED <<steps, jobs, products, artifacts, errors, trail, reports>>

\* task_acks_late: the message is given up when the task ended, well or badly.
Ack(w) ==
  /\ pc[w] = "finished"
  /\ Leave(w)
  /\ UNCHANGED <<plan, tables, queue, spent>>

-----------------------------------------------------------------------------
(* What may go wrong.                                                       *)

\* A database call fails before it took effect, inside the session's transaction.
DbFault(x) ==
  /\ Affordable(faults, MaxFaults)
  /\ pc[x] \in DbPc /\ ~run[x].broken
  /\ faults' = faults + 1
  /\ \E length \in MessageLengths :
       Raise(x, [run[x] EXCEPT !.broken = TRUE, !.length = length])
  /\ Quiet /\ UNCHANGED tables

\* Every call on a session that awaits a rollback raises again.
PendingRollback(x) ==
  /\ pc[x] \in DbPc /\ run[x].broken
  /\ Raise(x, run[x])
  /\ UNCHANGED <<plan, tables, queue, spent>>

ClientCrash(c) ==
  /\ pc[c] # "idle"
  /\ Affordable(clientCrashes, MaxClientCrashes)
  /\ clientCrashes' = clientCrashes + 1
  /\ Leave(c)
  /\ UNCHANGED <<plan, tables, queue, faults, workerCrashes, extraMessages>>

\* Mutant: the message was acknowledged before the task ran.
WorkerCrashAckedEarly(w) ==
  /\ pc[w] # "idle"
  /\ Affordable(workerCrashes, MaxWorkerCrashes)
  /\ workerCrashes' = workerCrashes + 1
  /\ Leave(w)
  /\ UNCHANGED <<plan, tables, queue, faults, clientCrashes, extraMessages>>

\* task_reject_on_worker_lost: the message of a lost worker is queued again.
WorkerCrash(w) ==
  /\ pc[w] # "idle"
  /\ Affordable(workerCrashes, MaxWorkerCrashes)
  /\ workerCrashes' = workerCrashes + 1
  /\ SendTask(Exec(w))
  /\ Leave(w)
  /\ UNCHANGED <<plan, tables, faults, clientCrashes, extraMessages>>

\* Redis restores a message unacknowledged for longer than the visibility timeout.
Redeliver(w) ==
  /\ pc[w] # "idle"
  /\ Affordable(extraMessages, MaxExtraMessages)
  /\ extraMessages' = extraMessages + 1
  /\ SendTask(Exec(w))
  /\ UNCHANGED <<plan, tables, pc, run, faults, clientCrashes, workerCrashes>>

-----------------------------------------------------------------------------
StepOfPlan(x) ==
  \/ StartStep(x) \/ CreateJob(x) \/ BeginJob(x) \/ Operate(x) \/ Register(x)
  \/ Link(x) \/ Presign(x) \/ CompleteJob(x) \/ CompleteStep(x)

Handler(x) ==
  \/ FailStep(x) \/ LogError(x) \/ FailJob(x) \/ FailExecution(x)
  \/ LogFailure(x) \/ ReportFailure(x)

\* WorkflowRuntime.run, up to the point where its caller has the result.
RunStep(x) ==
  \/ Start(x) \/ LogStart(x) \/ StepOfPlan(x) \/ Handler(x)
  \/ Complete(x) \/ LogCompletion(x) \/ ReportCompletion(x) \/ PendingRollback(x)

TaskStep(w) ==
  \/ \E e \in Executions : Deliver(w, e)
  \/ Load(w) \/ Reject(w) \/ RejectExecution(w) \/ Safety(w) \/ Ack(w)

Request ==
  \/ \E c \in Clients, e \in Executions : RequestRun(c, e) \/ EnqueueWorkflow(c, e)
  \/ \E e \in Executions : EnqueueExecution(e)

Fault ==
  \/ \E x \in Procs : DbFault(x)
  \/ \E c \in Clients : ClientCrash(c)
  \/ \E w \in Workers : WorkerCrash(w) \/ Redeliver(w)

\* Everything but what follows a completed run.
RunNext ==
  \/ Request
  \/ \E c \in Clients : Dispatch(c)
  \/ \E w \in Workers : TaskStep(w)
  \/ \E x \in Procs : RunStep(x)
  \/ Fault

Next == RunNext \/ \E x \in Procs : Handover(x)

Spec == Init /\ [][Next]_vars

(* Handlers and workers that run keep running; nobody owes the system a        *)
(* request, a crash or a second message.                                      *)
Fairness ==
  /\ \A c \in Clients : WF_vars(Dispatch(c))
  /\ \A w \in Workers : WF_vars(TaskStep(w))
  /\ \A x \in Procs : WF_vars(RunStep(x) \/ Handover(x))

FairSpec == Spec /\ Fairness

-----------------------------------------------------------------------------
(* Properties.                                                             *)

\* Every variable stays in the range the columns and the control points give it.
TypeOK ==
  /\ plan \in Plans
  /\ execution \in [Executions -> ExecutionStatuses]
  /\ steps \in Seq(Statuses) /\ Len(steps) = Len(plan)
  /\ jobs \in [Executions -> Seq(Job)]
  /\ products \in [Executions -> Seq(Product)]
  /\ artifacts \in [Executions -> Seq(Nat)]
  /\ errors \in [Executions -> Nat]
  /\ trail \in [Executions -> Seq(Record)]
  /\ reports \in [Executions -> Seq(Report)]
  /\ queue \in [Executions -> Nat]
  /\ pc \in [Procs -> Pcs]
  /\ run \in [Procs -> Run]
  /\ \A x \in Procs : pc[x] # "idle" => Exec(x) \in Executions
  /\ \A x \in Procs : pc[x] \in TryPc => run[x].step \in DOMAIN plan
  /\ faults \in 0..MaxFaults
  /\ clientCrashes \in 0..MaxClientCrashes
  /\ workerCrashes \in 0..MaxWorkerCrashes
  /\ extraMessages \in 0..MaxExtraMessages

(* A run that announces success did all of its work: every job it created,     *)
(* through loops and branches, is COMPLETED, and success_count says so.       *)
CompletionMeansAllWork ==
  \A x \in Procs : pc[x] \in {"log_completion", "report_completion", "handover"} =>
    /\ \A j \in run[x].mine : jobs[Exec(x)][j].status = "COMPLETED"
    /\ Cardinality(run[x].mine) = run[x].success

Calm == \A x \in Procs : pc[x] = "idle"

(* Whatever runs overlap, on rows their sessions have seen too early, nothing   *)
(* is left PENDING or RUNNING once everybody is done, no process was lost and   *)
(* no database call failed.                                                    *)
NothingLeftRunning ==
  Calm /\ faults + clientCrashes + workerCrashes = 0 =>
    /\ \A s \in DOMAIN steps : steps[s] # "RUNNING"
    /\ \A e \in Executions :
         /\ execution[e] # "RUNNING"
         /\ \A j \in DOMAIN jobs[e] : jobs[e][j].status \in Over

(* A lost worker may cut the audit short, but the message comes back: once it   *)
(* is dealt with, an execution that is over, and was not started again while    *)
(* it ran, has its closing history record and its metrics, and a failed one     *)
(* its error.                                                                 *)
AuditCatchesUp ==
  \A e \in Executions :
    /\ Valid /\ Calm /\ faults + clientCrashes + extraMessages = 0
    /\ queue[e] = 0 /\ execution[e] \in Over
    =>
      /\ trail[e] # <<>> /\ reports[e] # <<>>
      /\ trail[e][Len(trail[e])].to = execution[e]
      /\ (reports[e][Len(reports[e])].failure = 1) <=> (execution[e] = "FAILED")
      /\ execution[e] = "FAILED" => errors[e] > 0

(* RUNTIME_MVP.md: "On any step failure, the active Job and WorkflowExecution   *)
(* become failed, a WorkflowExecutionError and failure History are recorded,    *)
(* terminal Metrics are emitted" - unless the worker is lost or the execution   *)
(* is started again meanwhile.                                                 *)
StepFailureIsRecorded ==
  \A x \in Procs, e \in Executions :
    pc[x] = "fail_step" /\ Exec(x) = e ~>
      \/ workerCrashes + extraMessages > 0
      \/ /\ execution[e] = "FAILED" /\ errors[e] > 0
         /\ \A j \in DOMAIN jobs[e] : jobs[e][j].status \in Over
         /\ \E n \in DOMAIN trail[e] : trail[e][n].to = "FAILED"
         /\ \E n \in DOMAIN reports[e] : reports[e][n].failure = 1

(* A message taken to a worker is dealt with, whatever the plan's branches.     *)
EnqueuedIsExecuted ==
  \A e \in Executions : queue[e] > 0 ~> execution[e] \in Over
=============================================================================
