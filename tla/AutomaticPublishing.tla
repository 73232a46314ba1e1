------------------------- MODULE AutomaticPublishing -------------------------
(***************************************************************************)
(* A workflow that opted in to automatic publishing: what                  *)
(* AutomaticPublishingCoordinator.handle_completion does between the run   *)
(* that reports success and the acknowledgement of its message.            *)
(*                                                                         *)
(* The coordinator works on the session of the run.  Its publications are   *)
(* queued through PublishingQueueService.enqueue; what happens to them then *)
(* is module Publishing, of which only the moves of the status remain here. *)
(***************************************************************************)
EXTENDS WorkflowRuntime

VARIABLES
  publications,         \* publications of each execution, in the order of creation
  target,               \* per process: the product, then the publication it is about
  handed                \* history: the executions a coordinator was called for; nothing reads it

autoVars == <<vars, publications, target, handed>>

PublicationStatuses == {"PENDING", "QUEUED", "PUBLISHING", "PUBLISHED", "FAILED"}

\* tasks counts the publication's messages the broker ever accepted.
Publication == [asset : Nat, status : PublicationStatuses, tasks : Nat]

\* Every point of the coordinator but the dispatch is a database call.
CoordinatorDbPc == {"handover", "create_publication", "claim", "send_failed"}

AutoInit ==
  /\ Init
  /\ publications = [e \in Executions |-> <<>>]
  /\ target = [x \in Procs |-> 0]
  /\ handed = {}

-----------------------------------------------------------------------------
Forward(x, point, n) ==
  /\ Proceed(x, point, run[x])
  /\ target' = [target EXCEPT ![x] = n]

\* The task, or the request, ends with the result of the run.
Finish(x) == Return(x) /\ target' = [target EXCEPT ![x] = 0]

\* Mutant: an error of the coordinator reaches the task, which fails the execution.
ContainNothing(x) == Forward(x, "safety", 0)

\* "except Exception": an error of the coordinator ends the task like a success.
Contain(x) == Finish(x)

\* The answer of a call that took effect is lost.
ContainLostAnswer(x) ==
  /\ Affordable(faults, MaxFaults)
  /\ faults' = faults + 1
  /\ Contain(x)

Tables == UNCHANGED <<plan, tables, queue, clientCrashes, workerCrashes, extraMessages, handed>>

Videos(e) == {n \in DOMAIN artifacts[e] : products[e][artifacts[e][n]].kind = "video"}

\* Mutant: the oldest video instead of the newest.
FirstVideo(e) == artifacts[e][CHOOSE n \in Videos(e) : \A k \in Videos(e) : k >= n]

FinalVideo(e) == artifacts[e][CHOOSE n \in Videos(e) : \A k \in Videos(e) : k <= n]

(* get_by_id answers with the instance the session already holds: the status   *)
(* required to be COMPLETED is the one the run wrote, not the stored one.     *)
SelectVideo(x) ==
  /\ pc[x] = "handover"
  /\ IF run[x].seen = "COMPLETED" /\ Videos(Exec(x)) # {}
     THEN Forward(x, "create_publication", FinalVideo(Exec(x)))
     ELSE Finish(x)
  /\ Answered /\ Tables /\ UNCHANGED publications

Holding(e, asset) ==
  {n \in DOMAIN publications[e] : publications[e][n].asset = asset}

\* Mutant: a status the enum does not have.
InsertDraft(e, asset) ==
  publications' = [publications EXCEPT ![e] =
    Append(@, [asset |-> asset, status |-> "DRAFT", tasks |-> 0])]

Insert(e, asset) ==
  publications' = [publications EXCEPT ![e] =
    Append(@, [asset |-> asset, status |-> "PENDING", tasks |-> 0])]

Enqueueable(n, x) == publications[Exec(x)][n].status = "PENDING"

(* create_automatic: the asset and the provider may be refused; the unique     *)
(* constraint on execution, provider and asset decides who inserts, and the    *)
(* others read the record they collided with.                                 *)
CreatePublication(x) ==
  LET e == Exec(x) IN
  /\ pc[x] = "create_publication"
  /\ \/ Contain(x) /\ Answered /\ UNCHANGED publications
     \/ /\ Holding(e, target[x]) = {}
        /\ Insert(e, target[x])
        /\ \/ Forward(x, "claim", Len(publications[e]) + 1) /\ Answered
           \/ ContainLostAnswer(x)
     \/ /\ \E n \in Holding(e, target[x]) :
             IF Enqueueable(n, x) THEN Forward(x, "claim", n) ELSE Finish(x)
        /\ Answered /\ UNCHANGED publications
  /\ Tables

-----------------------------------------------------------------------------
(* PublishingQueueService.enqueue.                                         *)

Mine(x) == publications[Exec(x)][target[x]]

Move(x, from, to) ==
  publications' = IF Mine(x).status = from
                  THEN [publications EXCEPT ![Exec(x)][target[x]].status = to]
                  ELSE publications

\* Mutant: the queue's own compare-and-set ignores that it did not match.
ClaimUnchecked(x) ==
  /\ pc[x] = "claim"
  /\ Move(x, "PENDING", "QUEUED")
  /\ Forward(x, "send", target[x]) /\ Answered
  /\ Tables

Claim(x) ==
  /\ pc[x] = "claim"
  /\ Move(x, "PENDING", "QUEUED")
  /\ \/ /\ Answered
        /\ IF Mine(x).status = "PENDING" THEN Forward(x, "send", target[x]) ELSE Contain(x)
     \/ ContainLostAnswer(x)
  /\ Tables

Accept(x) == publications' = [publications EXCEPT ![Exec(x)][target[x]].tasks = @ + 1]

\* The broker accepts, refuses, or accepts while the caller sees an error.
Send(x) ==
  /\ pc[x] = "send"
  /\ \/ Accept(x) /\ Finish(x)
     \/ Accept(x) /\ Forward(x, "send_failed", target[x])
     \/ UNCHANGED publications /\ Forward(x, "send_failed", target[x])
  /\ Answered /\ Tables

SendFailed(x) ==
  /\ pc[x] = "send_failed"
  /\ Move(x, "QUEUED", "FAILED")
  /\ \/ Answered /\ Contain(x)
     \/ ContainLostAnswer(x)
  /\ Tables

\* A database call of the coordinator fails before it took effect.
CoordinatorFault(x) ==
  /\ Affordable(faults, MaxFaults)
  /\ pc[x] \in CoordinatorDbPc
  /\ faults' = faults + 1
  /\ Contain(x)
  /\ Tables /\ UNCHANGED publications

\* The publishing worker: the claim, and its outcome.
PublicationMoves(e, n) ==
  /\ publications[e][n].tasks > 0
  /\ \E from, to \in PublicationStatuses :
       /\ <<from, to>> \in {<<"QUEUED", "PUBLISHING">>, <<"PUBLISHING", "PUBLISHED">>,
                            <<"PUBLISHING", "FAILED">>, <<"QUEUED", "FAILED">>}
       /\ publications[e][n].status = from
       /\ publications' = [publications EXCEPT ![e][n].status = to]
  /\ UNCHANGED <<vars, target, handed>>

-----------------------------------------------------------------------------
CoordinatorStep(x) ==
  \/ SelectVideo(x) \/ CreatePublication(x) \/ Claim(x) \/ Send(x) \/ SendFailed(x)

(* A crash, or a new task, leaves no local behind.  The step that announces the *)
(* success of a run hands its execution over.                                 *)
RuntimeStep ==
  /\ RunNext
  /\ target' = [x \in Procs |-> IF pc'[x] = "idle" THEN 0 ELSE target[x]]
  /\ handed' = handed \cup {Exec(x)' : x \in {y \in Procs : pc'[y] = "handover"}}
  /\ UNCHANGED publications

AutoNext ==
  \/ RuntimeStep
  \/ \E x \in Procs : CoordinatorStep(x) \/ CoordinatorFault(x)
  \/ \E e \in Executions : \E n \in DOMAIN publications[e] : PublicationMoves(e, n)

AutoSpec == AutoInit /\ [][AutoNext]_autoVars

-----------------------------------------------------------------------------
(* Properties.                                                             *)

\* The publications are well typed, and a coordinator has something to work on.
AutoTypeOK ==
  /\ publications \in [Executions -> Seq(Publication)]
  /\ target \in [Procs -> Nat]
  /\ handed \subseteq Executions
  /\ \A x \in Procs :
       pc[x] \in {"claim", "send", "send_failed"} =>
         target[x] \in DOMAIN publications[Exec(x)]

\* Nobody was lost and no execution was started again.
RanOnce == workerCrashes + extraMessages = 0

(* "WorkflowArtifacts are the final-output source of truth": without a second   *)
(* run, whatever is published is the newest video of its execution, rendered    *)
(* by a job that completed.                                                    *)
PublishedVideoIsFinal ==
  RanOnce => \A e \in Executions : \A n \in DOMAIN publications[e] :
    LET asset == publications[e][n].asset IN
    /\ products[e][asset].registered
    /\ \A k \in DOMAIN artifacts[e] :
         products[e][artifacts[e][k]].kind = "video" => artifacts[e][k] <= asset
    /\ jobs[e][products[e][asset].job].status = "COMPLETED"

(* "Queue and provider failures remain within the Publication lifecycle and     *)
(* never change a completed Workflow back to failed": once a run has announced  *)
(* success and the coordinator was called, its execution is COMPLETED for good, *)
(* whatever fails in the coordinator and in the task around it - also where no  *)
(* publication comes of it.                                                    *)
PublishingKeepsCompleted ==
  RanOnce => \A e \in handed : execution[e] = "COMPLETED"

(* The coordinator "creates one execution-linked Publication".                 *)
OnePublicationPerExecution == \A e \in Executions : Len(publications[e]) <= 1

(* Two coordinators that meet on one record, the first still between its        *)
(* insert and its claim: the publication is recorded once for its video, and    *)
(* the broker accepts one task for it.                                         *)
DispatchedOnce ==
  \A e \in Executions : \A m, n \in DOMAIN publications[e] :
    /\ publications[e][n].tasks <= 1
    /\ publications[e][m].asset = publications[e][n].asset => m = n
=============================================================================
