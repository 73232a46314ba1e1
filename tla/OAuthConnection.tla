--------------------------- MODULE OAuthConnection ---------------------------
(***************************************************************************)
(* The operator's YouTube connection: authorize, the OAuth callback, the    *)
(* disconnect endpoint, and the credential a publishing worker would find.  *)
(*                                                                         *)
(* Connections, credentials and OAuth states are three tables; a handler    *)
(* changes them one commit at a time, and nothing but the row lock of the   *)
(* state's consumption keeps two handlers apart.  A request that fails or   *)
(* is lost between two commits leaves what it has written.                 *)
(***************************************************************************)
EXTENDS Naturals, FiniteSets

CONSTANTS
  Connections,          \* connection identifiers, each with its OAuth state
  NoConnection,         \* the connection of an idle handler
  Handlers,             \* API request handlers
  MaxAborts,            \* bound: requests that end between two commits
  MaxDisconnects        \* bound: requests of the disconnect endpoint

ASSUME NoConnectionAssumption == NoConnection \notin Connections
ASSUME ConnectionsAssumption == IsFiniteSet(Connections)
ASSUME BoundsAssumption == {MaxAborts, MaxDisconnects} \subseteq Nat

VARIABLES
  status,               \* publishing_connections.status; "absent" before the insert
  connectedAt,          \* publishing_connections.connected_at, as a rank; 0 is null
  credential,           \* whether publishing_credentials has a row
  oauthState,           \* publishing_oauth_states, one per connection
  exchanges,            \* authorization codes Google was sent, per connection
  pc, cur, previous,    \* per handler: control, connection, list still to disconnect
  aborts, disconnects   \* what was spent

records == <<status, connectedAt, credential, oauthState, exchanges>>
handlerVars == <<pc, cur, previous>>
vars == <<records, handlerVars, aborts, disconnects>>

Statuses == {"absent", "PENDING", "CONNECTED", "DISCONNECTED", "FAILED"}

OAuthStates == {"none", "issued", "expired", "consumed"}

Pcs == {"idle", "issue_state", "exchange", "mark_failed", "store", "connect",
        "list_previous", "delete_previous", "disconnect_previous",
        "delete_own", "disconnect_own"}

Init ==
  /\ status = [c \in Connections |-> "absent"]
  /\ connectedAt = [c \in Connections |-> 0]
  /\ credential = [c \in Connections |-> FALSE]
  /\ oauthState = [c \in Connections |-> "none"]
  /\ exchanges = [c \in Connections |-> 0]
  /\ pc = [h \in Handlers |-> "idle"]
  /\ cur = [h \in Handlers |-> NoConnection]
  /\ previous = [h \in Handlers |-> {}]
  /\ aborts = 0 /\ disconnects = 0

-----------------------------------------------------------------------------
Handle(h, c, point) ==
  /\ pc[h] = "idle"
  /\ pc' = [pc EXCEPT ![h] = point]
  /\ cur' = [cur EXCEPT ![h] = c]
  /\ UNCHANGED previous

GoTo(h, point, rest) ==
  /\ pc' = [pc EXCEPT ![h] = point]
  /\ previous' = [previous EXCEPT ![h] = rest]
  /\ UNCHANGED cur

Answer(h) ==
  /\ pc' = [pc EXCEPT ![h] = "idle"]
  /\ cur' = [cur EXCEPT ![h] = NoConnection]
  /\ previous' = [previous EXCEPT ![h] = {}]

Budgets == UNCHANGED <<aborts, disconnects>>

Put(c, s) == status' = [status EXCEPT ![c] = s]

\* Mutant: the deletion is not committed.
DeleteUncommitted(c) == UNCHANGED credential

Delete(c) == credential' = [credential EXCEPT ![c] = FALSE]

-----------------------------------------------------------------------------
(* authorize: the connection, then its state.                              *)

Authorize(h, c) ==
  /\ status[c] = "absent"
  /\ Handle(h, c, "issue_state")
  /\ Put(c, "PENDING")
  /\ Budgets /\ UNCHANGED <<connectedAt, credential, oauthState, exchanges>>

IssueState(h) ==
  /\ pc[h] = "issue_state"
  /\ oauthState' = [oauthState EXCEPT ![cur[h]] = "issued"]
  /\ Answer(h)
  /\ Budgets /\ UNCHANGED <<status, connectedAt, credential, exchanges>>

Expire(c) ==
  /\ oauthState[c] = "issued"
  /\ oauthState' = [oauthState EXCEPT ![c] = "expired"]
  /\ Budgets /\ UNCHANGED <<status, connectedAt, credential, exchanges, handlerVars>>

-----------------------------------------------------------------------------
(* callback.                                                               *)

\* Mutant: the consumption does not look at consumed_at.
ConsumableAgain(c) == oauthState[c] \in {"issued", "consumed"}

Consumable(c) == oauthState[c] = "issued"

(* consume reads and stamps the state under a row lock; a state it refuses     *)
(* changes nothing.  A callback without a code goes straight to mark_failed.  *)
Consume(h, c) ==
  /\ Consumable(c)
  /\ \E point \in {"exchange", "mark_failed"} : Handle(h, c, point)
  /\ oauthState' = [oauthState EXCEPT ![c] = "consumed"]
  /\ Budgets /\ UNCHANGED <<status, connectedAt, credential, exchanges>>

(* The code is exchanged and the token encrypted, or the failure is recorded.  *)
(* A missing configuration is an error none of callback's clauses catches.    *)
Exchange(h) ==
  /\ pc[h] = "exchange"
  /\ \/ /\ exchanges' = [exchanges EXCEPT ![cur[h]] = @ + 1]
        /\ \E point \in {"store", "mark_failed"} : GoTo(h, point, {})
     \/ Answer(h) /\ UNCHANGED exchanges
  /\ Budgets /\ UNCHANGED <<status, connectedAt, credential, oauthState>>

MarkFailed(h) ==
  /\ pc[h] = "mark_failed"
  /\ Put(cur[h], "FAILED")
  /\ Answer(h)
  /\ Budgets /\ UNCHANGED <<connectedAt, credential, oauthState, exchanges>>

Store(h) ==
  /\ pc[h] = "store"
  /\ credential' = [credential EXCEPT ![cur[h]] = TRUE]
  /\ GoTo(h, "connect", {})
  /\ Budgets /\ UNCHANGED <<status, connectedAt, oauthState, exchanges>>

\* A connection connects at most once, so its rank is its own.
NextRank == Cardinality({c \in Connections : connectedAt[c] > 0}) + 1

\* The update does not ask what the status is by now.
Connect(h) ==
  /\ pc[h] = "connect"
  /\ Put(cur[h], "CONNECTED")
  /\ connectedAt' = [connectedAt EXCEPT ![cur[h]] = NextRank]
  /\ GoTo(h, "list_previous", {})
  /\ Budgets /\ UNCHANGED <<credential, oauthState, exchanges>>

Active == {c \in Connections : status[c] = "CONNECTED"}

NextPrevious(h, rest) ==
  IF rest = {} THEN Answer(h) ELSE GoTo(h, "delete_previous", rest)

\* Mutant: the older connections are left as they are.
NoOthers(h) == {}

\* Mutant: the new connection is not told from the older ones.
OthersAndItself(h) == Active

Others(h) == Active \ {cur[h]}

ListPrevious(h) ==
  /\ pc[h] = "list_previous"
  /\ NextPrevious(h, Others(h))
  /\ Budgets /\ UNCHANGED records

\* list_active is ordered by connected_at.
Oldest(set) == CHOOSE c \in set : \A d \in set : connectedAt[c] <= connectedAt[d]

DeletePrevious(h) ==
  /\ pc[h] = "delete_previous"
  /\ Delete(Oldest(previous[h]))
  /\ GoTo(h, "disconnect_previous", previous[h])
  /\ Budgets /\ UNCHANGED <<status, connectedAt, oauthState, exchanges>>

DisconnectPrevious(h) ==
  LET c == Oldest(previous[h]) IN
  /\ pc[h] = "disconnect_previous"
  /\ Put(c, "DISCONNECTED")
  /\ NextPrevious(h, previous[h] \ {c})
  /\ Budgets /\ UNCHANGED <<connectedAt, credential, oauthState, exchanges>>

-----------------------------------------------------------------------------
(* disconnect: idempotent for a DISCONNECTED connection, whatever else it is.  *)

Disconnect(h, c) ==
  /\ status[c] \notin {"absent", "DISCONNECTED"}
  /\ disconnects < MaxDisconnects
  /\ disconnects' = disconnects + 1
  /\ Handle(h, c, "delete_own")
  /\ UNCHANGED <<records, aborts>>

DeleteOwn(h) ==
  /\ pc[h] = "delete_own"
  /\ Delete(cur[h])
  /\ GoTo(h, "disconnect_own", {})
  /\ Budgets /\ UNCHANGED <<status, connectedAt, oauthState, exchanges>>

DisconnectOwn(h) ==
  /\ pc[h] = "disconnect_own"
  /\ Put(cur[h], "DISCONNECTED")
  /\ Answer(h)
  /\ Budgets /\ UNCHANGED <<connectedAt, credential, oauthState, exchanges>>

\* The process is lost, or a database call fails: the request ends where it is.
Abort(h) ==
  /\ pc[h] # "idle"
  /\ aborts < MaxAborts
  /\ aborts' = aborts + 1
  /\ Answer(h)
  /\ UNCHANGED <<records, disconnects>>

-----------------------------------------------------------------------------
(* YouTubeCredentialResolver.resolve: the credential of the most recently       *)
(* connected account, else the one of the environment.                         *)

Newest(set) == CHOOSE c \in set : \A d \in set : connectedAt[c] >= connectedAt[d]

Resolved == IF Active = {} THEN "environment"
            ELSE IF credential[Newest(Active)] THEN "token" ELSE "error"

-----------------------------------------------------------------------------
HandlerStep(h) ==
  \/ IssueState(h) \/ Exchange(h) \/ MarkFailed(h) \/ Store(h) \/ Connect(h)
  \/ ListPrevious(h) \/ DeletePrevious(h) \/ DisconnectPrevious(h)
  \/ DeleteOwn(h) \/ DisconnectOwn(h)

Next ==
  \/ \E h \in Handlers, c \in Connections :
       Authorize(h, c) \/ Consume(h, c) \/ Disconnect(h, c)
  \/ \E h \in Handlers : HandlerStep(h) \/ Abort(h)
  \/ \E c \in Connections : Expire(c)

Spec == Init /\ [][Next]_vars

-----------------------------------------------------------------------------
(* Properties.                                                             *)

\* Every variable stays in its range, and a busy handler has its connection.
TypeOK ==
  /\ status \in [Connections -> Statuses]
  /\ connectedAt \in [Connections -> Nat]
  /\ credential \in [Connections -> BOOLEAN]
  /\ oauthState \in [Connections -> OAuthStates]
  /\ exchanges \in [Connections -> Nat]
  /\ pc \in [Handlers -> Pcs]
  /\ cur \in [Handlers -> Connections \cup {NoConnection}]
  /\ previous \in [Handlers -> SUBSET Connections]
  /\ \A h \in Handlers : pc[h] # "idle" => cur[h] \in Connections
  /\ \A h \in Handlers :
       pc[h] \in {"delete_previous", "disconnect_previous"} => previous[h] # {}
  /\ aborts \in 0..MaxAborts
  /\ disconnects \in 0..MaxDisconnects

CallbackPc == {"exchange", "mark_failed", "store", "connect"}

(* "consumed atomically once": whatever callbacks, disconnects and failures      *)
(* overlap, Google is sent at most one code for a connection, and only the one    *)
(* callback that consumed the state works towards connecting it.                *)
StateIsUsedOnce ==
  \A c \in Connections :
    /\ exchanges[c] <= 1
    /\ \A g, h \in Handlers :
         cur[g] = c /\ cur[h] = c /\ pc[g] \in CallbackPc /\ pc[h] \in CallbackPc => g = h

Calm == \A h \in Handlers : pc[h] = "idle"

(* "exactly one most-recent CONNECTED YouTube connection", as far as the code    *)
(* goes: when overlapping requests are done, none broken off, at most one is     *)
(* left.                                                                      *)
AtMostOneConnected == Calm /\ aborts = 0 => Cardinality(Active) <= 1

(* No overlap of callbacks separates a connection from its credential: CONNECTED *)
(* has one, DISCONNECTED has none - unless a request broke off or disconnected.  *)
CredentialFollowsStatus ==
  Calm /\ aborts + disconnects = 0 =>
    \A c \in Connections : credential[c] <=> status[c] = "CONNECTED"

\* No callback disconnects others although another connection is the newest.
NoneOvertaken ==
  \A h \in Handlers :
    pc[h] # "idle" /\ connectedAt[cur[h]] > 0 => cur[h] = Newest(Active)

(* Changing the account is seamless for the publishing worker, wherever the      *)
(* callbacks break off: while nobody disconnects and no callback is overtaken,   *)
(* a stored token that can be resolved gives way to nothing but another one.    *)
SwitchIsSeamless ==
  [][Resolved = "token" /\ disconnects = 0 /\ NoneOvertaken => Resolved' = "token"]_vars

(* "Only the most recently connected operator-level YouTube connection is        *)
(* active": when callbacks are done the newest connection is the active one.    *)
NewestIsActive ==
  LET everConnected == {c \in Connections : connectedAt[c] > 0} IN
  Calm /\ everConnected # {} => status[Newest(everConnected)] = "CONNECTED"
=============================================================================
