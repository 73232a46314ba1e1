------------------------ MODULE PublicationLifecycle ------------------------
(***************************************************************************)
(* What one publication promises its user, whatever processes, sessions    *)
(* and broker deliveries stand behind it: a row that moves along           *)
(*                                                                         *)
(*   PENDING -> QUEUED -> PUBLISHING -> PUBLISHED                           *)
(*                                                                         *)
(* (PENDING -> PUBLISHING for the synchronous endpoint, FAILED out of       *)
(* QUEUED and PUBLISHING), and an external platform that receives the       *)
(* video at most once, only after the row was claimed.                      *)
(***************************************************************************)
EXTENDS Naturals

CONSTANT Pubs           \* publication identifiers

VARIABLES
  status,               \* the status column; "absent" before the insert
  claimed,              \* somebody won the right to call the provider
  uploads               \* videos the platform received for the publication

lifecycleVars == <<status, claimed, uploads>>

Statuses == {"absent", "PENDING", "QUEUED", "PUBLISHING", "PUBLISHED", "FAILED"}

LInit ==
  /\ status = [p \in Pubs |-> "absent"]
  /\ claimed = [p \in Pubs |-> FALSE]
  /\ uploads = [p \in Pubs |-> 0]

LMove(p, from, to) ==
  /\ status[p] = from
  /\ status' = [status EXCEPT ![p] = to]
  /\ UNCHANGED uploads

LCreate(p) == LMove(p, "absent", "PENDING") /\ UNCHANGED claimed

LQueue(p) == LMove(p, "PENDING", "QUEUED") /\ UNCHANGED claimed

LClaim(p) ==
  /\ LMove(p, "PENDING", "PUBLISHING") \/ LMove(p, "QUEUED", "PUBLISHING")
  /\ claimed' = [claimed EXCEPT ![p] = TRUE]

\* The row may already have been failed by somebody else: only the claim counts.
LUpload(p) ==
  /\ claimed[p]
  /\ uploads[p] = 0
  /\ uploads' = [uploads EXCEPT ![p] = 1]
  /\ UNCHANGED <<status, claimed>>

LPublish(p) ==
  /\ uploads[p] = 1
  /\ LMove(p, "PUBLISHING", "PUBLISHED")
  /\ UNCHANGED claimed

LFail(p) ==
  /\ LMove(p, "QUEUED", "FAILED") \/ LMove(p, "PUBLISHING", "FAILED")
  /\ UNCHANGED claimed

LNext ==
  \E p \in Pubs : \/ LCreate(p) \/ LQueue(p) \/ LClaim(p)
                  \/ LUpload(p) \/ LPublish(p) \/ LFail(p)

LSpec == LInit /\ [][LNext]_lifecycleVars
=============================================================================
