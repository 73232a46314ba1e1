------------------------ MODULE OAuthConnectionProofs ------------------------
(***************************************************************************)
(* Proofs about OAuthConnection for any set of connections and handlers and *)
(* any number of failing requests: the types, that an OAuth state is used    *)
(* once, that callbacks leave one connection, that a connection has its       *)
(* credential, and that a new connection replaces an old one seamlessly.      *)
(***************************************************************************)
EXTENDS OAuthConnection, FiniteSetTheorems, TLAPS

USE NoConnectionAssumption, BoundsAssumption

-----------------------------------------------------------------------------
LEMMA RankType == NextRank \in Nat
<1>1. IsFiniteSet({c \in Connections : connectedAt[c] > 0})
  BY ConnectionsAssumption, FS_Subset
<1>2. Cardinality({c \in Connections : connectedAt[c] > 0}) \in Nat
  BY <1>1, FS_CardinalityType
<1> QED BY <1>2 DEF NextRank

\* The handlers of a request, whatever its tables: they stay well typed.
LEMMA ControlTypes ==
  ASSUME TypeOK, NEW h \in Handlers
  PROVE  /\ Answer(h) =>
              /\ pc' \in [Handlers -> Pcs]
              /\ cur' \in [Handlers -> Connections \cup {NoConnection}]
              /\ previous' \in [Handlers -> SUBSET Connections]
              /\ \A g \in Handlers : pc'[g] # "idle" => cur'[g] \in Connections
              /\ \A g \in Handlers :
                   pc'[g] \in {"delete_previous", "disconnect_previous"} => previous'[g] # {}
         /\ \A point \in Pcs, rest \in SUBSET Connections :
              /\ pc[h] # "idle"
              /\ point \in {"delete_previous", "disconnect_previous"} => rest # {}
              /\ GoTo(h, point, rest)
              => /\ pc' \in [Handlers -> Pcs]
                 /\ cur' \in [Handlers -> Connections \cup {NoConnection}]
                 /\ previous' \in [Handlers -> SUBSET Connections]
                 /\ \A g \in Handlers : pc'[g] # "idle" => cur'[g] \in Connections
                 /\ \A g \in Handlers :
                      pc'[g] \in {"delete_previous", "disconnect_previous"}
                        => previous'[g] # {}
         /\ \A point \in Pcs, c \in Connections :
              point \notin {"delete_previous", "disconnect_previous"} /\ Handle(h, c, point)
              => /\ pc' \in [Handlers -> Pcs]
                 /\ cur' \in [Handlers -> Connections \cup {NoConnection}]
                 /\ previous' \in [Handlers -> SUBSET Connections]
                 /\ \A g \in Handlers : pc'[g] # "idle" => cur'[g] \in Connections
                 /\ \A g \in Handlers :
                      pc'[g] \in {"delete_previous", "disconnect_previous"}
                        => previous'[g] # {}
  BY DEF TypeOK, Answer, GoTo, Handle, Pcs

(* The types are inductive on their own.                                      *)
THEOREM TypeInvariant == Spec => []TypeOK
<1>1. Init => TypeOK
  BY DEF Init, TypeOK, Statuses, OAuthStates, Pcs
<1>2. TypeOK /\ [Next]_vars => TypeOK'
  <2> SUFFICES ASSUME TypeOK, [Next]_vars PROVE TypeOK'
    OBVIOUS
  <2> USE DEF Budgets, Put, Delete, Statuses, OAuthStates
  <2>1. ASSUME NEW h \in Handlers, NEW c \in Connections, Authorize(h, c) PROVE TypeOK'
    <3>1. "issue_state" \in Pcs
      BY DEF Pcs
    <3> QED BY <2>1, <3>1, ControlTypes DEF Authorize, TypeOK
  <2>2. ASSUME NEW h \in Handlers, NEW c \in Connections, Consume(h, c) PROVE TypeOK'
    <3>1. {"exchange", "mark_failed"} \subseteq Pcs
      BY DEF Pcs
    <3> QED BY <2>2, <3>1, ControlTypes DEF Consume, TypeOK
  <2>3. ASSUME NEW h \in Handlers, NEW c \in Connections, Disconnect(h, c) PROVE TypeOK'
    <3>1. "delete_own" \in Pcs
      BY DEF Pcs
    <3> QED BY <2>3, <3>1, ControlTypes DEF Disconnect, TypeOK, records
  <2>4. ASSUME NEW c \in Connections, Expire(c) PROVE TypeOK'
    BY <2>4 DEF Expire, TypeOK, handlerVars
  <2>5. ASSUME NEW h \in Handlers, IssueState(h) PROVE TypeOK'
    BY <2>5, ControlTypes DEF IssueState, TypeOK
  <2>6. ASSUME NEW h \in Handlers, Exchange(h) PROVE TypeOK'
    <3>1. {"store", "mark_failed"} \subseteq Pcs
      BY DEF Pcs
    <3>2. pc[h] # "idle"
      BY <2>6 DEF Exchange
    <3> QED BY <2>6, <3>1, <3>2, ControlTypes DEF Exchange, TypeOK
  <2>7. ASSUME NEW h \in Handlers, MarkFailed(h) PROVE TypeOK'
    BY <2>7, ControlTypes DEF MarkFailed, TypeOK
  <2>8. ASSUME NEW h \in Handlers, Store(h) PROVE TypeOK'
    <3>1. "connect" \in Pcs /\ pc[h] # "idle"
      BY <2>8 DEF Store, Pcs
    <3> QED BY <2>8, <3>1, ControlTypes DEF Store, TypeOK
  <2>9. ASSUME NEW h \in Handlers, Connect(h) PROVE TypeOK'
    <3>1. "list_previous" \in Pcs /\ pc[h] # "idle"
      BY <2>9 DEF Connect, Pcs
    <3> QED BY <2>9, <3>1, ControlTypes, RankType DEF Connect, TypeOK
  <2>10. ASSUME NEW h \in Handlers, ListPrevious(h) PROVE TypeOK'
    <3>1. "delete_previous" \in Pcs /\ pc[h] # "idle" /\ Others(h) \in SUBSET Connections
      BY <2>10 DEF ListPrevious, Pcs, Others, Active
    <3> QED BY <2>10, <3>1, ControlTypes DEF ListPrevious, NextPrevious, TypeOK, records
  <2>11. ASSUME NEW h \in Handlers, DeletePrevious(h) PROVE TypeOK'
    <3>1. "disconnect_previous" \in Pcs /\ pc[h] # "idle"
      BY <2>11 DEF DeletePrevious, Pcs
    <3>2. previous[h] \in SUBSET Connections /\ previous[h] # {}
      BY <2>11 DEF DeletePrevious, TypeOK
    <3> QED BY <2>11, <3>1, <3>2, ControlTypes DEF DeletePrevious, TypeOK
  <2>12. ASSUME NEW h \in Handlers, DisconnectPrevious(h) PROVE TypeOK'
    <3> DEFINE rest == previous[h] \ {Oldest(previous[h])}
    <3>1. "delete_previous" \in Pcs /\ pc[h] # "idle"
      BY <2>12 DEF DisconnectPrevious, Pcs
    <3>2. rest \in SUBSET Connections
      BY DEF TypeOK
    <3>3. NextPrevious(h, rest)
      BY <2>12 DEF DisconnectPrevious
    <3> HIDE DEF rest
    <3>4. /\ pc' \in [Handlers -> Pcs]
          /\ cur' \in [Handlers -> Connections \cup {NoConnection}]
          /\ previous' \in [Handlers -> SUBSET Connections]
          /\ \A g \in Handlers : pc'[g] # "idle" => cur'[g] \in Connections
          /\ \A g \in Handlers :
               pc'[g] \in {"delete_previous", "disconnect_previous"} => previous'[g] # {}
      BY <3>1, <3>2, <3>3, ControlTypes DEF NextPrevious
    <3> QED BY <2>12, <3>4 DEF DisconnectPrevious, TypeOK
  <2>13. ASSUME NEW h \in Handlers, DeleteOwn(h) PROVE TypeOK'
    <3>1. "disconnect_own" \in Pcs /\ pc[h] # "idle"
      BY <2>13 DEF DeleteOwn, Pcs
    <3> QED BY <2>13, <3>1, ControlTypes DEF DeleteOwn, TypeOK
  <2>14. ASSUME NEW h \in Handlers, DisconnectOwn(h) PROVE TypeOK'
    BY <2>14, ControlTypes DEF DisconnectOwn, TypeOK
  <2>15. ASSUME NEW h \in Handlers, Abort(h) PROVE TypeOK'
    BY <2>15, ControlTypes DEF Abort, TypeOK, records
  <2>16. CASE UNCHANGED vars
    BY <2>16 DEF vars, records, handlerVars, TypeOK
  <2> QED
    BY <2>1, <2>2, <2>3, <2>4, <2>5, <2>6, <2>7, <2>8, <2>9, <2>10, <2>11, <2>12, <2>13,
       <2>14, <2>15, <2>16 DEF Next, HandlerStep
<1> QED BY <1>1, <1>2, PTL DEF Spec

-----------------------------------------------------------------------------
(* Why a state is used once: until it is consumed nobody works on its           *)
(* connection, and the code goes out in the step that leaves "exchange".       *)

CallbackOf(h, c) == pc[h] \in CallbackPc /\ cur[h] = c

UnusedUntilConsumed ==
  \A c \in Connections : oauthState[c] # "consumed" =>
    exchanges[c] = 0 /\ \A h \in Handlers : ~CallbackOf(h, c)

ExchangeIsNext == \A h \in Handlers : pc[h] = "exchange" => exchanges[cur[h]] = 0

(* A state is issued once, by the one handler that inserted its connection.      *)
IssuedOnce ==
  /\ \A c \in Connections : status[c] = "absent" =>
       /\ oauthState[c] = "none"
       /\ \A h \in Handlers : cur[h] # c
  /\ \A h \in Handlers : pc[h] = "issue_state" => oauthState[cur[h]] = "none"
  /\ \A g, h \in Handlers :
       pc[g] = "issue_state" /\ pc[h] = "issue_state" /\ cur[g] = cur[h] => g = h

StateInv == UnusedUntilConsumed /\ ExchangeIsNext /\ StateIsUsedOnce /\ IssuedOnce

(* A handler that is in a callback and no longer wants to exchange, or leaves    *)
(* the callback, while states and codes stay as they are.                      *)
Withdraws(h) ==
  /\ UNCHANGED <<oauthState, exchanges>>
  /\ \A c \in Connections : status'[c] = "absent" => status[c] = "absent"
  /\ \A g \in Handlers : g # h => pc'[g] = pc[g] /\ cur'[g] = cur[g]
  /\ pc'[h] \notin {"exchange", "issue_state"}
  /\ cur'[h] = cur[h] \/ status[cur'[h]] # "absent" \/ cur'[h] = NoConnection
  /\ pc'[h] \in CallbackPc => pc[h] \in CallbackPc /\ cur'[h] = cur[h]

LEMMA WithdrawalKeeps ==
  ASSUME TypeOK, StateInv, NEW h \in Handlers, Withdraws(h)
  PROVE  StateInv'
  BY DEF Withdraws, TypeOK, StateInv, UnusedUntilConsumed, ExchangeIsNext, StateIsUsedOnce, IssuedOnce,
         CallbackOf, CallbackPc

\* Every step of a handler but the consumption and the exchange is such a withdrawal.
LEMMA OtherStepsWithdraw ==
  ASSUME TypeOK, NEW h \in Handlers
  PROVE  /\ \A c \in Connections : Disconnect(h, c) => Withdraws(h)
         /\ MarkFailed(h) => Withdraws(h)
         /\ Store(h) => Withdraws(h)
         /\ Connect(h) => Withdraws(h)
         /\ ListPrevious(h) => Withdraws(h)
         /\ DeletePrevious(h) => Withdraws(h)
         /\ DisconnectPrevious(h) => Withdraws(h)
         /\ DeleteOwn(h) => Withdraws(h)
         /\ DisconnectOwn(h) => Withdraws(h)
         /\ Abort(h) => Withdraws(h)
<1> USE DEF TypeOK, Withdraws, CallbackPc, Handle, GoTo, Answer, Put, records
<1>2. \A c \in Connections : Disconnect(h, c) => Withdraws(h)
  BY DEF Disconnect
<1>3. MarkFailed(h) => Withdraws(h)
  BY DEF MarkFailed
<1>4. Store(h) => Withdraws(h)
  BY DEF Store
<1>5. Connect(h) => Withdraws(h)
  BY DEF Connect
<1>6. ListPrevious(h) => Withdraws(h)
  BY DEF ListPrevious, NextPrevious
<1>7. DeletePrevious(h) => Withdraws(h)
  BY DEF DeletePrevious
<1>8. DisconnectPrevious(h) => Withdraws(h)
  BY DEF DisconnectPrevious, NextPrevious
<1>9. DeleteOwn(h) => Withdraws(h)
  BY DEF DeleteOwn
<1>10. DisconnectOwn(h) => Withdraws(h)
  BY DEF DisconnectOwn
<1>11. Abort(h) => Withdraws(h)
  BY DEF Abort
<1> QED BY <1>2, <1>3, <1>4, <1>5, <1>6, <1>7, <1>8, <1>9, <1>10, <1>11

THEOREM StateInvariant == Spec => []StateInv
<1>1. Init => StateInv
  BY DEF Init, StateInv, UnusedUntilConsumed, ExchangeIsNext, StateIsUsedOnce, IssuedOnce, CallbackOf,
         CallbackPc
<1>2. TypeOK /\ StateInv /\ [Next]_vars => StateInv'
  <2> SUFFICES ASSUME TypeOK, StateInv, [Next]_vars PROVE StateInv'
    OBVIOUS
  <2> USE DEF StateInv, UnusedUntilConsumed, ExchangeIsNext, StateIsUsedOnce, IssuedOnce,
              CallbackOf, CallbackPc
  <2>1. ASSUME NEW h \in Handlers, NEW c \in Connections, Consume(h, c) PROVE StateInv'
    BY <2>1 DEF Consume, Consumable, Handle, TypeOK
  <2>2. ASSUME NEW h \in Handlers, Exchange(h) PROVE StateInv'
    <3>1. /\ cur[h] \in Connections /\ CallbackOf(h, cur[h]) /\ pc[h] = "exchange"
          /\ oauthState[cur[h]] = "consumed" /\ exchanges[cur[h]] = 0
          /\ status[cur[h]] # "absent"
      BY <2>2 DEF Exchange, TypeOK
    <3>2. /\ UNCHANGED <<oauthState, status>>
          /\ \A c \in Connections : c # cur[h] => exchanges'[c] = exchanges[c]
          /\ exchanges'[cur[h]] \in {0, 1}
          /\ \A g \in Handlers : g # h => pc'[g] = pc[g] /\ cur'[g] = cur[g]
      BY <2>2, <3>1 DEF Exchange, GoTo, Answer, TypeOK
    <3>3. /\ pc'[h] \in {"store", "mark_failed", "idle"}
          /\ pc'[h] # "idle" => cur'[h] = cur[h]
          /\ cur'[h] \in {cur[h], NoConnection}
      BY <2>2 DEF Exchange, GoTo, Answer, TypeOK
    <3>4. UnusedUntilConsumed'
      BY <3>1, <3>2, <3>3
    <3>5. ExchangeIsNext'
      BY <3>1, <3>2, <3>3 DEF TypeOK
    <3>6. StateIsUsedOnce'
      BY <3>1, <3>2, <3>3 DEF TypeOK
    <3>7. IssuedOnce'
      BY <3>1, <3>2, <3>3 DEF TypeOK
    <3> QED BY <3>4, <3>5, <3>6, <3>7
  <2>3. ASSUME NEW h \in Handlers, IssueState(h) PROVE StateInv'
    BY <2>3 DEF IssueState, Answer, TypeOK
  <2>4. ASSUME NEW c \in Connections, Expire(c) PROVE StateInv'
    BY <2>4 DEF Expire, handlerVars, TypeOK
  <2>5. ASSUME NEW h \in Handlers, NEW c \in Connections, Disconnect(h, c) PROVE StateInv'
    BY <2>5, OtherStepsWithdraw, WithdrawalKeeps
  <2>8. ASSUME NEW h \in Handlers, NEW c \in Connections, Authorize(h, c) PROVE StateInv'
    BY <2>8 DEF Authorize, Handle, Put, TypeOK
  <2>6. ASSUME NEW h \in Handlers,
               \/ MarkFailed(h) \/ Store(h) \/ Connect(h) \/ ListPrevious(h)
               \/ DeletePrevious(h) \/ DisconnectPrevious(h) \/ DeleteOwn(h)
               \/ DisconnectOwn(h) \/ Abort(h)
        PROVE  StateInv'
    BY <2>6, OtherStepsWithdraw, WithdrawalKeeps
  <2>7. CASE UNCHANGED vars
    BY <2>7 DEF vars, records, handlerVars
  <2> QED BY <2>1, <2>2, <2>3, <2>4, <2>5, <2>6, <2>7, <2>8 DEF Next, HandlerStep
<1> QED BY <1>1, <1>2, TypeInvariant, PTL DEF Spec

(* A connection's state is used once: one code is sent, by one callback.       *)
THEOREM StateUsedOnce == Spec => []StateIsUsedOnce
<1>1. StateInv => StateIsUsedOnce
  BY DEF StateInv
<1> QED BY <1>1, StateInvariant, PTL

-----------------------------------------------------------------------------
(* The order in which connections connected.  Each connects once, so its rank  *)
(* is its own and above those before it; sets of connected ones have an oldest *)
(* and a newest, which the CHOOSE of the code's two orderings finds.          *)

Connected == {c \in Connections : connectedAt[c] > 0}

FreshCallbacks ==
  /\ \A h \in Handlers : pc[h] \in CallbackPc => connectedAt[cur[h]] = 0
  /\ \A c \in Connections : oauthState[c] # "consumed" => connectedAt[c] = 0

Ranks ==
  /\ \A c \in Connections : connectedAt[c] <= Cardinality(Connected)
  /\ \A c, d \in Connected : connectedAt[c] = connectedAt[d] => c = d
  /\ \A set \in SUBSET Connected : set # {} =>
       /\ \E c \in set : \A d \in set : connectedAt[c] <= connectedAt[d]
       /\ \E c \in set : \A d \in set : connectedAt[c] >= connectedAt[d]

\* Where a callback has connected and turns to the older connections.
PreviousPc == {"list_previous", "delete_previous", "disconnect_previous"}

OlderOnes ==
  /\ Active \subseteq Connected
  /\ \A h \in Handlers : previous[h] \subseteq Connected
  /\ \A h \in Handlers : pc[h] \in PreviousPc => cur[h] \in Connected \ previous[h]

ConnectedInv == FreshCallbacks /\ Ranks /\ OlderOnes

LEMMA RanksKept ==
  ASSUME Ranks, UNCHANGED connectedAt
  PROVE  Ranks' /\ Connected' = Connected
<1>1. Connected' = Connected
  BY DEF Connected
<1> QED BY <1>1 DEF Ranks

LEMMA ConnectRanks ==
  ASSUME TypeOK, ConnectedInv, NEW h \in Handlers, Connect(h)
  PROVE  /\ Ranks' /\ Connected' = Connected \cup {cur[h]} /\ cur[h] \notin Connected
         /\ cur[h] \in Connections /\ connectedAt' = [connectedAt EXCEPT ![cur[h]] = NextRank]
         /\ NextRank > 0 /\ NextRank \in Nat
         /\ \A c \in Connected : connectedAt[c] < NextRank
<1>1. /\ cur[h] \in Connections /\ connectedAt[cur[h]] = 0
      /\ connectedAt' = [connectedAt EXCEPT ![cur[h]] = NextRank]
      /\ connectedAt \in [Connections -> Nat]
  BY DEF Connect, TypeOK, ConnectedInv, FreshCallbacks, CallbackPc
<1>2. IsFiniteSet(Connected)
  BY ConnectionsAssumption, FS_Subset DEF Connected
<1>3. /\ NextRank = Cardinality(Connected) + 1 /\ Cardinality(Connected) \in Nat
      /\ NextRank \in Nat /\ NextRank > 0
  BY <1>2, FS_CardinalityType DEF NextRank, Connected
<1>4. /\ \A c \in Connections : connectedAt'[c] = IF c = cur[h] THEN NextRank ELSE connectedAt[c]
      /\ \A c \in Connections : connectedAt[c] \in Nat /\ connectedAt[c] < NextRank
  BY <1>1, <1>3 DEF ConnectedInv, Ranks
<1> HIDE DEF NextRank
<1>5. Connected' = Connected \cup {cur[h]} /\ cur[h] \notin Connected
  BY <1>1, <1>3, <1>4 DEF Connected
<1>6. Cardinality(Connected)' = NextRank
  <2>1. Cardinality(Connected \cup {cur[h]}) = Cardinality(Connected) + 1
    BY <1>2, <1>5, FS_AddElement
  <2> QED BY <1>3, <1>5, <2>1
<1>7. \A c \in Connections : connectedAt'[c] <= Cardinality(Connected)'
  BY <1>3, <1>4, <1>6
<1>8. Connected \subseteq Connections
  BY DEF Connected
<1>9. \A c, d \in Connected' : connectedAt'[c] = connectedAt'[d] => c = d
  BY <1>1, <1>3, <1>4, <1>5, <1>8 DEF ConnectedInv, Ranks
<1>10. ASSUME NEW set \in SUBSET Connected', set # {}
       PROVE  /\ \E c \in set : \A d \in set : connectedAt'[c] <= connectedAt'[d]
              /\ \E c \in set : \A d \in set : connectedAt'[c] >= connectedAt'[d]
  <2> DEFINE older == set \ {cur[h]}
  <2>1. older \in SUBSET Connected /\ \A d \in set : d = cur[h] \/ d \in older
    BY <1>5, <1>10
  <2>2. CASE older = {}
    BY <1>1, <1>3, <1>4, <1>10, <2>1, <2>2
  <2>3. CASE older # {}
    <3>1. PICK c \in older : \A d \in older : connectedAt[c] <= connectedAt[d]
      BY <2>1, <2>3 DEF ConnectedInv, Ranks
    <3>2. PICK e \in older : \A d \in older : connectedAt[e] >= connectedAt[d]
      BY <2>1, <2>3 DEF ConnectedInv, Ranks
    <3>3. \A d \in older : d \in Connections /\ connectedAt'[d] = connectedAt[d]
                          /\ connectedAt[d] \in Nat /\ connectedAt[d] < NextRank
      BY <1>4, <1>5, <1>8, <2>1
    <3>4. \E k \in set : \A d \in set : connectedAt'[k] <= connectedAt'[d]
      <4>1. \A d \in set : connectedAt'[c] <= connectedAt'[d]
        BY <1>1, <1>3, <1>4, <2>1, <3>1, <3>3
      <4> QED BY <4>1
    <3>5. \E k \in set : \A d \in set : connectedAt'[k] >= connectedAt'[d]
      <4>1. CASE cur[h] \in set
        BY <1>1, <1>3, <1>4, <2>1, <3>3, <4>1
      <4>2. CASE cur[h] \notin set
        <5>1. set = older
          BY <4>2
        <5> QED BY <3>2, <3>3, <5>1
      <4> QED BY <4>1, <4>2
    <3> QED BY <3>4, <3>5
  <2> QED BY <2>2, <2>3
<1>11. Ranks'
  BY <1>7, <1>9, <1>10 DEF Ranks
<1> QED BY <1>1, <1>3, <1>4, <1>5, <1>8, <1>11

\* What the two orderings find.
LEMMA ChosenRanks ==
  ASSUME TypeOK, ConnectedInv, NEW set \in SUBSET Connected, set # {}
  PROVE  /\ Oldest(set) \in set /\ Newest(set) \in set
         /\ \A d \in set : connectedAt[Newest(set)] >= connectedAt[d]
         /\ \A c \in set : (\A d \in set : connectedAt[c] >= connectedAt[d]) => Newest(set) = c
<1>1. /\ \E c \in set : \A d \in set : connectedAt[c] <= connectedAt[d]
      /\ \E c \in set : \A d \in set : connectedAt[c] >= connectedAt[d]
  BY DEF ConnectedInv, Ranks
<1>2. Oldest(set) \in set
  BY <1>1 DEF Oldest
<1>3. Newest(set) \in set /\ \A d \in set : connectedAt[Newest(set)] >= connectedAt[d]
  BY <1>1 DEF Newest
<1>4. ASSUME NEW c \in set, \A d \in set : connectedAt[c] >= connectedAt[d]
      PROVE  Newest(set) = c
  <2>1. connectedAt[c] \in Nat /\ connectedAt[Newest(set)] \in Nat
    BY <1>3 DEF TypeOK, Connected
  <2>2. connectedAt[c] = connectedAt[Newest(set)]
    BY <1>3, <1>4, <2>1
  <2> QED BY <1>3, <2>2 DEF ConnectedInv, Ranks
<1> QED BY <1>2, <1>3, <1>4

\* The steps that neither connect nor disconnect an older connection.
PlainStep(h) ==
  \/ IssueState(h) \/ Exchange(h) \/ MarkFailed(h) \/ Store(h) \/ DeletePrevious(h)
  \/ DeleteOwn(h) \/ DisconnectOwn(h) \/ Abort(h)

LEMMA PlainConnected ==
  ASSUME TypeOK, StateInv, ConnectedInv, NEW h \in Handlers, PlainStep(h)
  PROVE  ConnectedInv'
<1>1. UNCHANGED connectedAt
  BY DEF PlainStep, IssueState, Exchange, MarkFailed, Store, DeletePrevious, DeleteOwn,
         DisconnectOwn, Abort, records
<1>2. Ranks' /\ Connected' = Connected
  BY <1>1, RanksKept DEF ConnectedInv
<1>3. \A c \in Connections : /\ oauthState'[c] # "consumed" => oauthState[c] # "consumed"
                             /\ status'[c] = "CONNECTED" => status[c] = "CONNECTED"
  <2> USE DEF TypeOK, Put
  <2>1. CASE IssueState(h)
    BY <2>1 DEF IssueState, StateInv, IssuedOnce
  <2>2. CASE Exchange(h) \/ MarkFailed(h) \/ Store(h) \/ DeletePrevious(h)
    BY <2>2 DEF Exchange, MarkFailed, Store, DeletePrevious
  <2>3. CASE DeleteOwn(h) \/ DisconnectOwn(h) \/ Abort(h)
    BY <2>3 DEF DeleteOwn, DisconnectOwn, Abort, records
  <2> QED BY <2>1, <2>2, <2>3 DEF PlainStep
<1>4. /\ \A g \in Handlers : g # h => /\ pc'[g] = pc[g] /\ cur'[g] = cur[g]
                                     /\ previous'[g] = previous[g]
      /\ pc'[h] = "idle" \/ cur'[h] = cur[h]
      /\ previous'[h] \in {{}, previous[h]}
      /\ pc'[h] \in CallbackPc => pc[h] \in CallbackPc
      /\ pc'[h] \in PreviousPc => pc[h] \in PreviousPc
  <2> USE DEF TypeOK, CallbackPc, PreviousPc, Answer, GoTo
  <2>1. CASE IssueState(h) \/ Exchange(h) \/ MarkFailed(h)
    BY <2>1 DEF IssueState, Exchange, MarkFailed
  <2>2. CASE Store(h) \/ DeletePrevious(h) \/ DeleteOwn(h)
    BY <2>2 DEF Store, DeletePrevious, DeleteOwn
  <2>3. CASE DisconnectOwn(h) \/ Abort(h)
    BY <2>3 DEF DisconnectOwn, Abort
  <2> QED BY <2>1, <2>2, <2>3 DEF PlainStep
<1>5. FreshCallbacks'
  <2>1. "idle" \notin CallbackPc
    BY DEF CallbackPc
  <2> QED BY <1>1, <1>3, <1>4, <2>1 DEF ConnectedInv, FreshCallbacks
<1>6. OlderOnes'
  <2>1. "idle" \notin PreviousPc
    BY DEF PreviousPc
  <2> QED BY <1>2, <1>3, <1>4, <2>1 DEF ConnectedInv, OlderOnes, Active
<1> QED BY <1>2, <1>5, <1>6 DEF ConnectedInv

LEMMA RequestsConnected ==
  ASSUME TypeOK, StateInv, ConnectedInv, NEW h \in Handlers, NEW c \in Connections,
         Authorize(h, c) \/ Consume(h, c) \/ Disconnect(h, c)
  PROVE  ConnectedInv'
<1>1. UNCHANGED connectedAt
  BY DEF Authorize, Consume, Disconnect, records
<1>2. Ranks' /\ Connected' = Connected
  BY <1>1, RanksKept DEF ConnectedInv
<1> USE DEF TypeOK, CallbackPc, PreviousPc, Handle, Put
<1>3. CASE Authorize(h, c)
  BY <1>1, <1>2, <1>3 DEF Authorize, ConnectedInv, FreshCallbacks, OlderOnes, Active
<1>4. CASE Consume(h, c)
  BY <1>1, <1>2, <1>4 DEF Consume, Consumable, ConnectedInv, FreshCallbacks, OlderOnes, Active
<1>5. CASE Disconnect(h, c)
  BY <1>1, <1>2, <1>5 DEF Disconnect, records, ConnectedInv, FreshCallbacks, OlderOnes, Active
<1> QED BY <1>3, <1>4, <1>5

LEMMA PreviousConnected ==
  ASSUME TypeOK, StateInv, ConnectedInv, NEW h \in Handlers,
         Connect(h) \/ ListPrevious(h) \/ DisconnectPrevious(h)
  PROVE  ConnectedInv'
<1> USE DEF TypeOK, CallbackPc, PreviousPc, GoTo, Answer
<1>1. CASE Connect(h)
  <2>1. /\ Ranks' /\ Connected' = Connected \cup {cur[h]} /\ cur[h] \notin Connected
        /\ cur[h] \in Connections /\ connectedAt' = [connectedAt EXCEPT ![cur[h]] = NextRank]
    BY <1>1, ConnectRanks
  <2>2. /\ pc[h] = "connect" /\ pc' = [pc EXCEPT ![h] = "list_previous"] /\ UNCHANGED cur
        /\ previous' = [previous EXCEPT ![h] = {}] /\ UNCHANGED oauthState
        /\ status' = [status EXCEPT ![cur[h]] = "CONNECTED"]
    BY <1>1 DEF Connect, Put
  <2> HIDE DEF NextRank
  <2>3. FreshCallbacks'
    <3>1. ASSUME NEW g \in Handlers, pc'[g] \in CallbackPc PROVE connectedAt'[cur'[g]] = 0
      <4>1. g # h /\ pc[g] \in CallbackPc
        BY <2>2, <3>1
      <4>2. cur[g] # cur[h] /\ connectedAt[cur[g]] = 0
        BY <2>1, <2>2, <4>1 DEF StateInv, StateIsUsedOnce, ConnectedInv, FreshCallbacks
      <4> QED BY <2>1, <2>2, <4>2
    <3>2. oauthState[cur[h]] = "consumed"
      BY <2>1, <2>2 DEF StateInv, UnusedUntilConsumed, CallbackOf
    <3> QED BY <2>1, <2>2, <3>1, <3>2 DEF ConnectedInv, FreshCallbacks
  <2>4. OlderOnes'
    BY <2>1, <2>2 DEF ConnectedInv, OlderOnes, Active
  <2> QED BY <2>1, <2>3, <2>4 DEF ConnectedInv
<1>2. CASE ListPrevious(h)
  <2>1. /\ UNCHANGED <<status, connectedAt, oauthState>> /\ pc[h] = "list_previous"
        /\ NextPrevious(h, Others(h))
    BY <1>2 DEF ListPrevious, records
  <2>2. Ranks' /\ Connected' = Connected /\ Active' = Active
    BY <2>1, RanksKept DEF ConnectedInv, Active
  <2>3. Others(h) \subseteq Connected /\ cur[h] \in Connected \ Others(h)
    BY <2>1 DEF ConnectedInv, OlderOnes, Others
  <2>4. FreshCallbacks'
    BY <2>1 DEF ConnectedInv, FreshCallbacks, NextPrevious
  <2>5. OlderOnes'
    BY <2>1, <2>2, <2>3 DEF ConnectedInv, OlderOnes, NextPrevious
  <2> QED BY <2>2, <2>4, <2>5 DEF ConnectedInv
<1>3. CASE DisconnectPrevious(h)
  <2> DEFINE c == Oldest(previous[h])
  <2>1. /\ UNCHANGED <<connectedAt, oauthState>> /\ pc[h] = "disconnect_previous"
        /\ NextPrevious(h, previous[h] \ {c})
        /\ status' = [status EXCEPT ![c] = "DISCONNECTED"]
    BY <1>3 DEF DisconnectPrevious, Put
  <2> HIDE DEF c
  <2>2. Ranks' /\ Connected' = Connected /\ Active' \subseteq Active
    BY <2>1, RanksKept DEF ConnectedInv, Active
  <2>4. FreshCallbacks'
    BY <2>1 DEF ConnectedInv, FreshCallbacks, NextPrevious
  <2>5. OlderOnes'
    BY <2>1, <2>2 DEF ConnectedInv, OlderOnes, NextPrevious
  <2> QED BY <2>2, <2>4, <2>5 DEF ConnectedInv
<1> QED BY <1>1, <1>2, <1>3

LEMMA NextConnected == TypeOK /\ StateInv /\ ConnectedInv /\ [Next]_vars => ConnectedInv'
<1> SUFFICES ASSUME TypeOK, StateInv, ConnectedInv, [Next]_vars PROVE ConnectedInv'
  OBVIOUS
<1>1. CASE UNCHANGED vars
  <2>1. Ranks' /\ Connected' = Connected
    BY <1>1, RanksKept DEF ConnectedInv, vars, records
  <2> QED BY <1>1, <2>1 DEF vars, records, handlerVars, ConnectedInv, FreshCallbacks, OlderOnes,
                            Active
<1>2. ASSUME NEW c \in Connections, Expire(c) PROVE ConnectedInv'
  <2>1. Ranks' /\ Connected' = Connected
    BY <1>2, RanksKept DEF ConnectedInv, Expire
  <2> QED BY <1>2, <2>1 DEF Expire, handlerVars, ConnectedInv, FreshCallbacks, OlderOnes, Active,
                            TypeOK
<1> QED BY <1>1, <1>2, PlainConnected, RequestsConnected, PreviousConnected
        DEF Next, HandlerStep, PlainStep

(* Every connection connects once, after all before it; nobody who looks for   *)
(* older connections takes its own, or one that never was, for one of them.    *)
THEOREM ConnectedInvariant == Spec => []ConnectedInv
<1>1. Init => ConnectedInv
  <2> SUFFICES ASSUME Init PROVE ConnectedInv
    OBVIOUS
  <2>1. Connected = {} /\ Active = {}
    BY DEF Init, Connected, Active
  <2>2. Cardinality({}) = 0
    BY FS_EmptySet
  <2>3. Ranks
    BY <2>1, <2>2 DEF Init, Ranks
  <2> QED BY <2>1, <2>3 DEF Init, ConnectedInv, FreshCallbacks, OlderOnes, CallbackPc, PreviousPc
<1> QED BY <1>1, NextConnected, TypeInvariant, StateInvariant, PTL DEF Spec

-----------------------------------------------------------------------------
(* At most one connection is left.                                           *)

\* Handler h has connected c, and will disconnect d.
Clears(h, c, d) ==
  /\ cur[h] = c
  /\ \/ pc[h] = "list_previous"
     \/ pc[h] \in {"delete_previous", "disconnect_previous"} /\ d \in previous[h]

(* Of two connections that are CONNECTED somebody is about to disconnect one.   *)
PairsInv ==
  aborts = 0 =>
    \A c, d \in Active : c # d => \E h \in Handlers : Clears(h, c, d) \/ Clears(h, d, c)

\* A step of a handler that clears nothing, or still clears what it did.
LEMMA PairsKept ==
  ASSUME TypeOK, PairsInv, NEW h \in Handlers, Active' \subseteq Active,
         aborts' = 0 => aborts = 0,
         \A g \in Handlers : g # h =>
           pc'[g] = pc[g] /\ cur'[g] = cur[g] /\ previous'[g] = previous[g],
         aborts' = 0 => \A c, d \in Active' : c # d /\ Clears(h, c, d) => Clears(h, c, d)'
  PROVE  PairsInv'
<1> SUFFICES ASSUME aborts' = 0, NEW c \in Active', NEW d \in Active', c # d
             PROVE  \E g \in Handlers : Clears(g, c, d)' \/ Clears(g, d, c)'
  BY DEF PairsInv
<1>1. PICK g \in Handlers : Clears(g, c, d) \/ Clears(g, d, c)
  BY DEF PairsInv
<1>2. CASE g = h
  BY <1>1, <1>2
<1>3. CASE g # h
  BY <1>1, <1>3 DEF Clears
<1> QED BY <1>2, <1>3

LEMMA PlainPairs ==
  ASSUME TypeOK, StateInv, ConnectedInv, PairsInv, NEW h \in Handlers, PlainStep(h)
  PROVE  PairsInv'
<1>1. Active' \subseteq Active /\ (aborts' = 0 => aborts = 0)
  <2> USE DEF TypeOK, Put, Active, Budgets
  <2>1. CASE IssueState(h) \/ Exchange(h) \/ MarkFailed(h) \/ Store(h)
    BY <2>1 DEF IssueState, Exchange, MarkFailed, Store
  <2>2. CASE DeletePrevious(h) \/ DeleteOwn(h) \/ DisconnectOwn(h)
    BY <2>2 DEF DeletePrevious, DeleteOwn, DisconnectOwn
  <2>3. CASE Abort(h)
    BY <2>3 DEF Abort, records
  <2> QED BY <2>1, <2>2, <2>3 DEF PlainStep
<1>2. /\ \A g \in Handlers : g # h => /\ pc'[g] = pc[g] /\ cur'[g] = cur[g]
                                     /\ previous'[g] = previous[g]
      /\ aborts' = 0 => \A c, d : Clears(h, c, d) => Clears(h, c, d)'
  <2> USE DEF TypeOK, Answer, GoTo, Clears
  <2>1. CASE IssueState(h) \/ Exchange(h) \/ MarkFailed(h)
    BY <2>1 DEF IssueState, Exchange, MarkFailed
  <2>2. CASE Store(h) \/ DeletePrevious(h) \/ DeleteOwn(h)
    BY <2>2 DEF Store, DeletePrevious, DeleteOwn
  <2>3. CASE DisconnectOwn(h)
    BY <2>3 DEF DisconnectOwn
  <2>4. CASE Abort(h)
    BY <2>4 DEF Abort
  <2> QED BY <2>1, <2>2, <2>3, <2>4 DEF PlainStep
<1> QED BY <1>1, <1>2, PairsKept

LEMMA RequestPairs ==
  ASSUME TypeOK, PairsInv, NEW h \in Handlers, NEW c \in Connections,
         Authorize(h, c) \/ Consume(h, c) \/ Disconnect(h, c)
  PROVE  PairsInv'
<1>1. Active' \subseteq Active /\ UNCHANGED aborts
  BY DEF Authorize, Consume, Disconnect, records, TypeOK, Put, Active, Budgets
<1>2. /\ \A g \in Handlers : g # h => /\ pc'[g] = pc[g] /\ cur'[g] = cur[g]
                                     /\ previous'[g] = previous[g]
      /\ pc[h] = "idle"
  BY DEF Authorize, Consume, Disconnect, Handle, TypeOK
<1>3. \A a, b : ~Clears(h, a, b)
  BY <1>2 DEF Clears
<1> QED BY <1>1, <1>2, <1>3, PairsKept

LEMMA PreviousPairs ==
  ASSUME TypeOK, ConnectedInv, PairsInv, NEW h \in Handlers,
         Connect(h) \/ ListPrevious(h) \/ DisconnectPrevious(h)
  PROVE  PairsInv'
<1> USE DEF TypeOK, GoTo, Answer, Budgets
<1>1. CASE Connect(h)
  <2>1. /\ pc[h] = "connect" /\ pc' = [pc EXCEPT ![h] = "list_previous"] /\ UNCHANGED cur
        /\ previous' = [previous EXCEPT ![h] = {}] /\ UNCHANGED aborts
        /\ status' = [status EXCEPT ![cur[h]] = "CONNECTED"]
    BY <1>1 DEF Connect, Put
  <2>2. Active' \subseteq Active \cup {cur[h]}
    BY <2>1 DEF Active
  <2> SUFFICES ASSUME aborts' = 0, NEW c \in Active', NEW d \in Active', c # d
               PROVE  \E g \in Handlers : Clears(g, c, d)' \/ Clears(g, d, c)'
    BY DEF PairsInv
  <2>3. CASE cur[h] \in {c, d}
    BY <2>1, <2>3 DEF Clears
  <2>4. CASE cur[h] \notin {c, d}
    <3>1. PICK g \in Handlers : Clears(g, c, d) \/ Clears(g, d, c)
      BY <2>1, <2>2, <2>4 DEF PairsInv
    <3>2. g # h
      BY <2>1, <3>1 DEF Clears
    <3> QED BY <2>1, <3>1, <3>2 DEF Clears
  <2> QED BY <2>3, <2>4
<1>2. CASE ListPrevious(h)
  <2>1. /\ UNCHANGED <<status, aborts>> /\ pc[h] = "list_previous" /\ Active' = Active
        /\ NextPrevious(h, Others(h))
    BY <1>2 DEF ListPrevious, records, Active
  <2>2. \A g \in Handlers : g # h =>
          pc'[g] = pc[g] /\ cur'[g] = cur[g] /\ previous'[g] = previous[g]
    BY <2>1 DEF NextPrevious
  <2>3. ASSUME NEW c \in Active, NEW d \in Active, c # d, Clears(h, c, d) PROVE Clears(h, c, d)'
    BY <2>1, <2>3 DEF Clears, NextPrevious, Others
  <2> QED BY <2>1, <2>2, <2>3, PairsKept
<1>3. CASE DisconnectPrevious(h)
  <2> DEFINE old == Oldest(previous[h])
  <2>1. /\ UNCHANGED aborts /\ pc[h] = "disconnect_previous"
        /\ NextPrevious(h, previous[h] \ {old})
        /\ status' = [status EXCEPT ![old] = "DISCONNECTED"]
    BY <1>3 DEF DisconnectPrevious, Put
  <2> HIDE DEF old
  <2>2. Active' \subseteq Active \ {old}
    BY <2>1 DEF Active
  <2>3. \A g \in Handlers : g # h =>
          pc'[g] = pc[g] /\ cur'[g] = cur[g] /\ previous'[g] = previous[g]
    BY <2>1 DEF NextPrevious
  <2>4. ASSUME NEW c \in Active', NEW d \in Active', Clears(h, c, d) PROVE Clears(h, c, d)'
    BY <2>1, <2>2, <2>4 DEF Clears, NextPrevious
  <2> QED BY <2>1, <2>2, <2>3, <2>4, PairsKept
<1> QED BY <1>1, <1>2, <1>3

LEMMA NextPairs ==
  TypeOK /\ StateInv /\ ConnectedInv /\ PairsInv /\ [Next]_vars => PairsInv'
<1> SUFFICES ASSUME TypeOK, StateInv, ConnectedInv, PairsInv, [Next]_vars PROVE PairsInv'
  OBVIOUS
<1>1. ASSUME UNCHANGED <<status, pc, cur, previous, aborts>> PROVE PairsInv'
  BY <1>1 DEF PairsInv, Active, Clears
<1>2. CASE UNCHANGED vars \/ \E c \in Connections : Expire(c)
  BY <1>1, <1>2 DEF vars, records, handlerVars, Expire, Budgets
<1> QED BY <1>2, PlainPairs, RequestPairs, PreviousPairs DEF Next, HandlerStep, PlainStep

(* However callbacks and disconnects overlap, at most one connection is left:   *)
(* of two, the later one's callback still has the other one to disconnect, or   *)
(* both have each other.                                                      *)
THEOREM OneConnectionLeft == Spec => []AtMostOneConnected
<1>1. Init => PairsInv
  BY DEF Init, PairsInv, Active
<1>2. PairsInv => AtMostOneConnected
  <2> SUFFICES ASSUME PairsInv, Calm, aborts = 0 PROVE Cardinality(Active) <= 1
    BY DEF AtMostOneConnected
  <2>1. \A c, d \in Active : c = d
    BY DEF PairsInv, Clears, Calm
  <2>2. CASE Active = {}
    BY <2>2, FS_EmptySet
  <2>3. CASE Active # {}
    <3>1. PICK c \in Active : Active = {c}
      BY <2>1, <2>3
    <3> QED BY <3>1, FS_Singleton
  <2> QED BY <2>2, <2>3
<1> QED BY <1>1, <1>2, NextPairs, TypeInvariant, StateInvariant, ConnectedInvariant, PTL DEF Spec

-----------------------------------------------------------------------------
(* Credentials.  As long as nobody disconnects, callbacks alone write them: a   *)
(* callback that is about to connect has stored one, and one that is about to  *)
(* disconnect an older connection has deleted that one's.                     *)

TokenInv ==
  disconnects = 0 =>
    /\ \A h \in Handlers : pc[h] \notin {"delete_own", "disconnect_own"}
    /\ \A h \in Handlers : pc[h] = "connect" => credential[cur[h]]
    /\ \A h \in Handlers : pc[h] \in {"exchange", "mark_failed", "store"} => ~credential[cur[h]]
    /\ \A c \in Connections : oauthState[c] # "consumed" => ~credential[c]
    /\ \A h \in Handlers : pc[h] = "disconnect_previous" => ~credential[Oldest(previous[h])]

\* The oldest of a handler's list stays it, whatever connects meanwhile.
LEMMA OldestStays ==
  ASSUME NEW h \in Handlers, previous'[h] = previous[h],
         \A c \in previous[h] : connectedAt'[c] = connectedAt[c]
  PROVE  Oldest(previous[h])' = Oldest(previous[h])
  BY DEF Oldest

LEMMA OldestKnown ==
  ASSUME TypeOK, ConnectedInv, NEW h \in Handlers,
         pc[h] \in {"delete_previous", "disconnect_previous"}
  PROVE  Oldest(previous[h]) \in previous[h] /\ Oldest(previous[h]) \in Connected
  BY ChosenRanks DEF TypeOK, ConnectedInv, OlderOnes

\* A handler that neither stores nor deletes, and does not come to a promise.
LEMMA TokensKept ==
  ASSUME TypeOK, TokenInv, NEW h \in Handlers, UNCHANGED <<credential, connectedAt>>,
         disconnects' = 0 => disconnects = 0,
         \A c \in Connections : oauthState'[c] # "consumed" => oauthState[c] # "consumed",
         \A g \in Handlers : g # h =>
           pc'[g] = pc[g] /\ cur'[g] = cur[g] /\ previous'[g] = previous[g],
         disconnects' = 0 =>
           /\ pc'[h] \notin {"connect", "disconnect_previous", "delete_own", "disconnect_own"}
           /\ pc'[h] \in {"exchange", "mark_failed", "store"} => ~credential[cur'[h]]
  PROVE  TokenInv'
<1> SUFFICES ASSUME disconnects' = 0 PROVE TokenInv'
  BY DEF TokenInv
<1>1. \A g \in Handlers : g # h => Oldest(previous[g])' = Oldest(previous[g])
  BY OldestStays
<1>2. \A g \in Handlers : pc'[g] = "disconnect_previous" => ~credential'[Oldest(previous[g])']
  BY <1>1 DEF TokenInv
<1> QED BY <1>2 DEF TokenInv

LEMMA RequestTokens ==
  ASSUME TypeOK, TokenInv, NEW h \in Handlers, NEW c \in Connections,
         Authorize(h, c) \/ Consume(h, c) \/ Disconnect(h, c)
  PROVE  TokenInv'
<1> USE DEF TypeOK, Handle, Put, Budgets
<1>1. CASE Authorize(h, c)
  BY <1>1, TokensKept DEF Authorize
<1>2. CASE Consume(h, c)
  <2>1. disconnects = 0 => ~credential[c]
    BY <1>2 DEF Consume, Consumable, TokenInv
  <2> QED BY <1>2, <2>1, TokensKept DEF Consume
<1>3. CASE Disconnect(h, c)
  BY <1>3 DEF Disconnect, TokenInv
<1> QED BY <1>1, <1>2, <1>3

LEMMA QuietTokens ==
  ASSUME TypeOK, StateInv, TokenInv, NEW h \in Handlers,
         \/ IssueState(h) \/ Exchange(h) \/ MarkFailed(h) \/ ListPrevious(h)
         \/ DisconnectPrevious(h) \/ DisconnectOwn(h) \/ Abort(h)
  PROVE  TokenInv'
<1> USE DEF TypeOK, Answer, GoTo, Put, Budgets
<1>1. CASE IssueState(h)
  BY <1>1, TokensKept DEF IssueState, StateInv, IssuedOnce
<1>2. CASE Exchange(h)
  <2>1. disconnects = 0 => ~credential[cur[h]]
    BY <1>2 DEF Exchange, TokenInv
  <2> QED BY <1>2, <2>1, TokensKept DEF Exchange
<1>3. CASE MarkFailed(h) \/ DisconnectOwn(h)
  BY <1>3, TokensKept DEF MarkFailed, DisconnectOwn
<1>4. CASE ListPrevious(h)
  BY <1>4, TokensKept DEF ListPrevious, NextPrevious, records
<1>5. CASE DisconnectPrevious(h)
  BY <1>5, TokensKept DEF DisconnectPrevious, NextPrevious
<1>6. CASE Abort(h)
  BY <1>6, TokensKept DEF Abort, records
<1> QED BY <1>1, <1>2, <1>3, <1>4, <1>5, <1>6

LEMMA WritingTokens ==
  ASSUME TypeOK, StateInv, ConnectedInv, TokenInv, NEW h \in Handlers,
         Store(h) \/ Connect(h) \/ DeletePrevious(h) \/ DeleteOwn(h)
  PROVE  TokenInv'
<1> SUFFICES ASSUME disconnects' = 0 PROVE TokenInv'
  BY DEF TokenInv
<1> USE DEF TypeOK, GoTo, Budgets
<1>1. /\ disconnects = 0 /\ UNCHANGED <<oauthState, cur>> /\ pc[h] # "delete_own"
      /\ \A g \in Handlers : g # h => pc'[g] = pc[g] /\ previous'[g] = previous[g]
  BY DEF Store, Connect, DeletePrevious, DeleteOwn, TokenInv
<1>2. \A g \in Handlers : pc[g] = "connect" => cur[g] \notin Connected
  BY DEF ConnectedInv, FreshCallbacks, Connected, CallbackPc
<1>3. \A g \in Handlers : pc[g] = "disconnect_previous" => Oldest(previous[g]) \in Connected
  BY OldestKnown
<1>4. \A g \in Handlers : g # h /\ pc[g] \in CallbackPc /\ pc[h] \in CallbackPc => cur[g] # cur[h]
  BY DEF StateInv, StateIsUsedOnce, CallbackPc
<1>5. CASE Store(h)
  <2>1. /\ UNCHANGED connectedAt /\ pc[h] = "store" /\ pc' = [pc EXCEPT ![h] = "connect"]
        /\ credential' = [credential EXCEPT ![cur[h]] = TRUE] /\ cur[h] \in Connections
    BY <1>5 DEF Store
  <2>2. \A g \in Handlers : g # h => Oldest(previous[g])' = Oldest(previous[g])
    BY <1>1, <2>1, OldestStays
  <2>3. cur[h] \notin Connected /\ oauthState[cur[h]] = "consumed"
    BY <2>1 DEF ConnectedInv, FreshCallbacks, Connected, CallbackPc, StateInv,
                UnusedUntilConsumed, CallbackOf
  <2>4. \A g \in Handlers : pc'[g] = "disconnect_previous" => ~credential'[Oldest(previous[g])']
    BY <1>1, <1>3, <2>1, <2>2, <2>3 DEF TokenInv, Connected
  <2>5. \A g \in Handlers : pc'[g] \in {"exchange", "mark_failed", "store"}
          => ~credential'[cur'[g]]
    BY <1>1, <1>4, <2>1 DEF TokenInv, CallbackPc
  <2>6. \A g \in Handlers : pc'[g] = "connect" => credential'[cur'[g]]
    BY <1>1, <2>1 DEF TokenInv
  <2>7. \A c \in Connections : oauthState'[c] # "consumed" => ~credential'[c]
    BY <1>1, <2>1, <2>3 DEF TokenInv
  <2> QED BY <1>1, <2>1, <2>4, <2>5, <2>6, <2>7 DEF TokenInv
<1>6. CASE Connect(h)
  <2>1. /\ pc[h] = "connect" /\ pc' = [pc EXCEPT ![h] = "list_previous"] /\ UNCHANGED credential
    BY <1>6 DEF Connect
  <2>2. \A c \in Connected : connectedAt'[c] = connectedAt[c]
    <3>1. /\ cur[h] \notin Connected
          /\ connectedAt' = [connectedAt EXCEPT ![cur[h]] = NextRank]
      BY <1>6, ConnectRanks
    <3> HIDE DEF NextRank
    <3> QED BY <3>1 DEF Connected
  <2>3. \A g \in Handlers : g # h => Oldest(previous[g])' = Oldest(previous[g])
    BY <1>1, <2>2, OldestStays DEF ConnectedInv, OlderOnes
  <2>4. \A g \in Handlers : pc'[g] = "disconnect_previous" => ~credential'[Oldest(previous[g])']
    BY <1>1, <2>1, <2>3 DEF TokenInv
  <2> QED BY <1>1, <2>1, <2>4 DEF TokenInv
<1>7. CASE DeletePrevious(h)
  <2> DEFINE old == Oldest(previous[h])
  <2>1. /\ UNCHANGED connectedAt /\ pc[h] = "delete_previous"
        /\ pc' = [pc EXCEPT ![h] = "disconnect_previous"] /\ previous'[h] = previous[h]
        /\ credential' = [credential EXCEPT ![old] = FALSE]
    BY <1>7 DEF DeletePrevious, Delete
  <2>2. \A g \in Handlers : Oldest(previous[g])' = Oldest(previous[g])
    BY <1>1, <2>1, OldestStays
  <2>3. old \in Connected /\ old \in Connections
    BY <2>1, OldestKnown DEF Connected
  <2>4. \A g \in Handlers : pc'[g] = "disconnect_previous" => ~credential'[Oldest(previous[g])']
    <3>1. ~credential'[old]
      BY <2>1, <2>3
    <3>2. \A g \in Handlers : g # h /\ pc[g] = "disconnect_previous" =>
            Oldest(previous[g]) \in Connections /\ ~credential[Oldest(previous[g])]
      BY <1>1, <1>3 DEF TokenInv, Connected
    <3> HIDE DEF old
    <3>3. \A g \in Handlers : g # h /\ pc'[g] = "disconnect_previous" =>
            ~credential'[Oldest(previous[g])']
      BY <1>1, <2>1, <2>2, <3>2
    <3> QED BY <2>2, <3>1, <3>3 DEF old
  <2> HIDE DEF old
  <2>5. \A g \in Handlers : pc'[g] = "connect" => credential'[cur'[g]]
    BY <1>1, <1>2, <2>1, <2>3 DEF TokenInv
  <2> QED BY <1>1, <2>1, <2>4, <2>5 DEF TokenInv
<1>8. ~DeleteOwn(h)
  BY <1>1 DEF DeleteOwn
<1> QED BY <1>5, <1>6, <1>7, <1>8

LEMMA NextTokens ==
  TypeOK /\ StateInv /\ ConnectedInv /\ TokenInv /\ [Next]_vars => TokenInv'
<1> SUFFICES ASSUME TypeOK, StateInv, ConnectedInv, TokenInv, [Next]_vars PROVE TokenInv'
  OBVIOUS
<1>1. ASSUME UNCHANGED <<connectedAt, credential, handlerVars, disconnects>>,
             \A c \in Connections : oauthState'[c] # "consumed" => oauthState[c] # "consumed"
      PROVE  TokenInv'
  <2>1. \A g \in Handlers : Oldest(previous[g])' = Oldest(previous[g])
    BY <1>1 DEF handlerVars, Oldest
  <2> QED BY <1>1, <2>1 DEF TokenInv, handlerVars
<1>2. CASE UNCHANGED vars
  BY <1>1, <1>2 DEF vars, records
<1>3. ASSUME NEW c \in Connections, Expire(c) PROVE TokenInv'
  BY <1>1, <1>3 DEF Expire, Budgets, TypeOK
<1> QED BY <1>2, <1>3, RequestTokens, QuietTokens, WritingTokens DEF Next, HandlerStep

LEMMA TokenInvariant == Spec => []TokenInv
<1>1. Init => TokenInv
  BY DEF Init, TokenInv
<1> QED BY <1>1, NextTokens, TypeInvariant, StateInvariant, ConnectedInvariant, PTL DEF Spec

(* While nothing breaks off, status and credential only differ where a handler  *)
(* stands between the two commits.                                            *)
PairedInv ==
  aborts = 0 /\ disconnects = 0 =>
    \A c \in Connections :
      /\ status[c] = "CONNECTED" /\ ~credential[c] =>
           \E h \in Handlers : pc[h] = "disconnect_previous" /\ Oldest(previous[h]) = c
      /\ credential[c] /\ status[c] # "CONNECTED" =>
           \E h \in Handlers : pc[h] = "connect" /\ cur[h] = c

\* A step of h that unpairs nothing, and that h was not expected to take.
LEMMA PairedKept ==
  ASSUME TypeOK, PairedInv, NEW h \in Handlers, UNCHANGED connectedAt,
         aborts' = 0 /\ disconnects' = 0 => aborts = 0 /\ disconnects = 0,
         \A g \in Handlers : g # h =>
           pc'[g] = pc[g] /\ cur'[g] = cur[g] /\ previous'[g] = previous[g],
         pc[h] \notin {"disconnect_previous", "connect"},
         aborts' = 0 /\ disconnects' = 0 =>
           \A c \in Connections :
             /\ status'[c] = "CONNECTED" /\ ~credential'[c] =>
                  status[c] = "CONNECTED" /\ ~credential[c]
             /\ credential'[c] /\ status'[c] # "CONNECTED" =>
                  credential[c] /\ status[c] # "CONNECTED"
  PROVE  PairedInv'
<1>1. \A g \in Handlers : g # h => Oldest(previous[g])' = Oldest(previous[g])
  BY OldestStays
<1>2. ASSUME aborts' = 0, disconnects' = 0, NEW c \in Connections,
             status'[c] = "CONNECTED", ~credential'[c]
      PROVE  \E g \in Handlers : pc'[g] = "disconnect_previous" /\ Oldest(previous[g])' = c
  <2>1. PICK g \in Handlers : pc[g] = "disconnect_previous" /\ Oldest(previous[g]) = c
    BY <1>2 DEF PairedInv
  <2> QED BY <1>1, <2>1
<1>3. ASSUME aborts' = 0, disconnects' = 0, NEW c \in Connections,
             credential'[c], status'[c] # "CONNECTED"
      PROVE  \E g \in Handlers : pc'[g] = "connect" /\ cur'[g] = c
  <2>1. PICK g \in Handlers : pc[g] = "connect" /\ cur[g] = c
    BY <1>3 DEF PairedInv
  <2> QED BY <2>1
<1> QED BY <1>2, <1>3 DEF PairedInv

LEMMA RequestPaired ==
  ASSUME TypeOK, PairedInv, NEW h \in Handlers, NEW c \in Connections,
         Authorize(h, c) \/ Consume(h, c) \/ Disconnect(h, c)
  PROVE  PairedInv'
<1> USE DEF TypeOK, Handle, Put, Budgets
<1>1. CASE Authorize(h, c)
  BY <1>1, PairedKept DEF Authorize
<1>2. CASE Consume(h, c)
  BY <1>2, PairedKept DEF Consume
<1>3. CASE Disconnect(h, c)
  BY <1>3 DEF Disconnect, PairedInv
<1> QED BY <1>1, <1>2, <1>3

LEMMA QuietPaired ==
  ASSUME TypeOK, TokenInv, PairedInv, NEW h \in Handlers,
         \/ IssueState(h) \/ Exchange(h) \/ MarkFailed(h) \/ ListPrevious(h)
         \/ DeleteOwn(h) \/ DisconnectOwn(h) \/ Abort(h)
  PROVE  PairedInv'
<1> USE DEF TypeOK, Answer, GoTo, Put, Budgets
<1>1. CASE IssueState(h) \/ Exchange(h)
  BY <1>1, PairedKept DEF IssueState, Exchange
<1>2. CASE MarkFailed(h)
  <2>1. disconnects = 0 => ~credential[cur[h]]
    BY <1>2 DEF MarkFailed, TokenInv
  <2> QED BY <1>2, <2>1, PairedKept DEF MarkFailed
<1>3. CASE ListPrevious(h)
  BY <1>3, PairedKept DEF ListPrevious, NextPrevious, records
<1>4. CASE DeleteOwn(h) \/ DisconnectOwn(h)
  BY <1>4 DEF DeleteOwn, DisconnectOwn, TokenInv, PairedInv
<1>5. CASE Abort(h)
  BY <1>5 DEF Abort, PairedInv
<1> QED BY <1>1, <1>2, <1>3, <1>4, <1>5

LEMMA WritingPaired ==
  ASSUME TypeOK, ConnectedInv, TokenInv, PairedInv, NEW h \in Handlers,
         Store(h) \/ Connect(h) \/ DeletePrevious(h) \/ DisconnectPrevious(h)
  PROVE  PairedInv'
<1> SUFFICES ASSUME aborts' = 0, disconnects' = 0, NEW c \in Connections
             PROVE  /\ status'[c] = "CONNECTED" /\ ~credential'[c] =>
                         \E g \in Handlers :
                           pc'[g] = "disconnect_previous" /\ Oldest(previous[g])' = c
                    /\ credential'[c] /\ status'[c] # "CONNECTED" =>
                         \E g \in Handlers : pc'[g] = "connect" /\ cur'[g] = c
  BY DEF PairedInv
<1> USE DEF TypeOK, GoTo, Answer, Budgets
<1>1. /\ aborts = 0 /\ disconnects = 0
      /\ \A g \in Handlers : g # h =>
           pc'[g] = pc[g] /\ cur'[g] = cur[g] /\ previous'[g] = previous[g]
  BY DEF Store, Connect, DeletePrevious, DisconnectPrevious, NextPrevious
<1>2. /\ status[c] = "CONNECTED" /\ ~credential[c] =>
           \E g \in Handlers : pc[g] = "disconnect_previous" /\ Oldest(previous[g]) = c
      /\ credential[c] /\ status[c] # "CONNECTED" =>
           \E g \in Handlers : pc[g] = "connect" /\ cur[g] = c
  BY <1>1 DEF PairedInv
<1>3. \A g \in Handlers : g # h => Oldest(previous[g])' = Oldest(previous[g])
  <2>1. \A a \in Connected : connectedAt'[a] = connectedAt[a]
    <3>1. CASE Connect(h)
      <4>1. /\ cur[h] \notin Connected
            /\ connectedAt' = [connectedAt EXCEPT ![cur[h]] = NextRank]
        BY <3>1, ConnectRanks
      <4> HIDE DEF NextRank
      <4> QED BY <4>1 DEF Connected
    <3>2. CASE Store(h) \/ DeletePrevious(h) \/ DisconnectPrevious(h)
      BY <3>2 DEF Store, DeletePrevious, DisconnectPrevious
    <3> QED BY <3>1, <3>2
  <2> QED BY <1>1, <2>1, OldestStays DEF ConnectedInv, OlderOnes
<1>4. CASE Store(h)
  <2>1. /\ UNCHANGED <<status, cur>> /\ pc[h] = "store" /\ pc' = [pc EXCEPT ![h] = "connect"]
        /\ credential' = [credential EXCEPT ![cur[h]] = TRUE]
    BY <1>4 DEF Store
  <2> QED BY <1>1, <1>2, <1>3, <2>1
<1>5. CASE Connect(h)
  <2>1. /\ UNCHANGED <<credential, cur>> /\ pc[h] = "connect"
        /\ status' = [status EXCEPT ![cur[h]] = "CONNECTED"]
    BY <1>5 DEF Connect, Put
  <2>2. credential[cur[h]]
    BY <1>1, <2>1 DEF TokenInv
  <2> QED BY <1>1, <1>2, <1>3, <2>1, <2>2
<1>6. CASE DeletePrevious(h)
  <2>1. /\ UNCHANGED status /\ pc[h] = "delete_previous" /\ previous'[h] = previous[h]
        /\ pc' = [pc EXCEPT ![h] = "disconnect_previous"] /\ UNCHANGED connectedAt
        /\ credential' = [credential EXCEPT ![Oldest(previous[h])] = FALSE]
    BY <1>6 DEF DeletePrevious, Delete
  <2>2. Oldest(previous[h])' = Oldest(previous[h])
    BY <2>1, OldestStays
  <2> QED BY <1>1, <1>2, <1>3, <2>1, <2>2
<1>7. CASE DisconnectPrevious(h)
  <2>1. /\ UNCHANGED credential /\ pc[h] = "disconnect_previous"
        /\ status' = [status EXCEPT ![Oldest(previous[h])] = "DISCONNECTED"]
    BY <1>7 DEF DisconnectPrevious, Put
  <2>2. ~credential[Oldest(previous[h])] /\ Oldest(previous[h]) \in Connections
    BY <1>1, <2>1, OldestKnown DEF TokenInv, Connected
  <2> QED BY <1>1, <1>2, <1>3, <2>1, <2>2
<1> QED BY <1>4, <1>5, <1>6, <1>7

LEMMA NextPaired ==
  TypeOK /\ ConnectedInv /\ TokenInv /\ PairedInv /\ [Next]_vars => PairedInv'
<1> SUFFICES ASSUME TypeOK, ConnectedInv, TokenInv, PairedInv, [Next]_vars PROVE PairedInv'
  OBVIOUS
<1>1. ASSUME UNCHANGED <<status, connectedAt, credential, handlerVars, aborts, disconnects>>
      PROVE  PairedInv'
  <2>1. \A g \in Handlers : Oldest(previous[g])' = Oldest(previous[g])
    BY <1>1 DEF handlerVars, Oldest
  <2> QED BY <1>1, <2>1 DEF PairedInv, handlerVars
<1>2. CASE UNCHANGED vars \/ \E c \in Connections : Expire(c)
  BY <1>1, <1>2 DEF vars, records, Expire, Budgets
<1> QED BY <1>2, RequestPaired, QuietPaired, WritingPaired DEF Next, HandlerStep

(* Once overlapping callbacks are done a connection has its credential exactly  *)
(* if it is CONNECTED: the one about to connect it stores it before, the one   *)
(* about to disconnect it deletes it before.                                  *)
THEOREM CredentialsFollow == Spec => []CredentialFollowsStatus
<1>1. Init => PairedInv
  BY DEF Init, PairedInv
<1>2. TypeOK /\ PairedInv => CredentialFollowsStatus
  <2> SUFFICES ASSUME TypeOK, PairedInv, Calm, aborts + disconnects = 0, NEW c \in Connections
               PROVE  credential[c] <=> status[c] = "CONNECTED"
    BY DEF CredentialFollowsStatus
  <2>1. aborts = 0 /\ disconnects = 0
    BY DEF TypeOK
  <2> QED BY <2>1 DEF PairedInv, Calm
<1> QED BY <1>1, <1>2, NextPaired, TypeInvariant, ConnectedInvariant, TokenInvariant, PTL DEF Spec

-----------------------------------------------------------------------------
(* The account the publishing worker finds.                                  *)

LEMMA StepIsSeamless ==
  ASSUME TypeOK, StateInv, ConnectedInv, TokenInv, Next,
         Resolved = "token", disconnects = 0, NoneOvertaken
  PROVE  Resolved' = "token"
<1> DEFINE n == Newest(Active)
<1>1. Active # {} /\ credential[n] /\ Active \in SUBSET Connected
  BY DEF Resolved, ConnectedInv, OlderOnes
<1>2. /\ n \in Active /\ n \in Connected /\ n \in Connections
      /\ \A d \in Active : connectedAt[n] >= connectedAt[d]
  BY <1>1, ChosenRanks DEF Connected
<1>3. \A h \in Handlers : pc[h] \in PreviousPc => n = cur[h] /\ n \notin previous[h]
  BY DEF NoneOvertaken, ConnectedInv, OlderOnes, PreviousPc, Connected
<1>4. ASSUME Active' = Active, UNCHANGED connectedAt, credential'[n] PROVE Resolved' = "token"
  <2>1. Newest(Active)' = n
    BY <1>4 DEF Newest
  <2> QED BY <1>1, <1>4, <2>1 DEF Resolved
<1> HIDE DEF n
<1> USE DEF TypeOK, Put
<1>5. ASSUME NEW h \in Handlers, NEW c \in Connections,
             Authorize(h, c) \/ Consume(h, c) \/ Disconnect(h, c)
      PROVE  Resolved' = "token"
  BY <1>1, <1>4, <1>5 DEF Authorize, Consume, Disconnect, records, Active
<1>11. ASSUME NEW c \in Connections, Expire(c) PROVE Resolved' = "token"
  BY <1>1, <1>4, <1>11 DEF Expire, records, Active
<1>6. ASSUME NEW h \in Handlers,
             IssueState(h) \/ Exchange(h) \/ ListPrevious(h) \/ Abort(h) \/ DisconnectOwn(h)
      PROVE  Resolved' = "token"
  <2>1. ~DisconnectOwn(h)
    BY DEF DisconnectOwn, TokenInv
  <2> QED BY <1>1, <1>4, <1>6, <2>1 DEF IssueState, Exchange, ListPrevious, Abort, records, Active
<1>7. ASSUME NEW h \in Handlers, MarkFailed(h) \/ Store(h) PROVE Resolved' = "token"
  <2>1. cur[h] \notin Active
    BY <1>7 DEF MarkFailed, Store, ConnectedInv, FreshCallbacks, OlderOnes, Connected, CallbackPc
  <2>2. CASE MarkFailed(h)
    BY <1>1, <1>4, <2>1, <2>2 DEF MarkFailed, Active
  <2>3. CASE Store(h)
    BY <1>1, <1>2, <1>4, <2>3 DEF Store, Active
  <2> QED BY <1>7, <2>2, <2>3
<1>8. ASSUME NEW h \in Handlers, DeletePrevious(h) \/ DeleteOwn(h) PROVE Resolved' = "token"
  <2>1. ~DeleteOwn(h)
    BY DEF DeleteOwn, TokenInv
  <2>2. CASE DeletePrevious(h)
    <3>1. /\ UNCHANGED <<status, connectedAt>> /\ pc[h] = "delete_previous"
          /\ credential' = [credential EXCEPT ![Oldest(previous[h])] = FALSE]
      BY <2>2 DEF DeletePrevious, Delete
    <3>2. Oldest(previous[h]) # n
      BY <1>3, <3>1, OldestKnown DEF PreviousPc
    <3> QED BY <1>1, <1>2, <1>4, <3>1, <3>2 DEF Active
  <2> QED BY <1>8, <2>1, <2>2
<1>9. ASSUME NEW h \in Handlers, DisconnectPrevious(h) PROVE Resolved' = "token"
  <2> DEFINE old == Oldest(previous[h])
  <2>1. /\ UNCHANGED <<connectedAt, credential>> /\ pc[h] = "disconnect_previous"
        /\ status' = [status EXCEPT ![old] = "DISCONNECTED"]
    BY <1>9 DEF DisconnectPrevious
  <2>2. old # n /\ old \in Connections
    BY <1>3, <2>1, OldestKnown DEF PreviousPc, Connected
  <2> HIDE DEF old
  <2>3. Active' = Active \ {old}
    BY <2>1, <2>2 DEF Active
  <2>4. Newest(Active \ {old}) = n
    <3>1. /\ Active \ {old} \in SUBSET Connected /\ n \in Active \ {old}
          /\ \A d \in Active \ {old} : connectedAt[n] >= connectedAt[d]
      BY <1>1, <1>2, <2>2
    <3> QED BY <3>1, ChosenRanks
  <2>5. Newest(Active)' = n
    BY <2>1, <2>3, <2>4 DEF Newest
  <2> QED BY <1>1, <1>2, <2>1, <2>2, <2>3, <2>5 DEF Resolved
<1>10. ASSUME NEW h \in Handlers, Connect(h) PROVE Resolved' = "token"
  <2>1. /\ cur[h] \in Connections /\ cur[h] \notin Connected
        /\ connectedAt' = [connectedAt EXCEPT ![cur[h]] = NextRank] /\ NextRank \in Nat
        /\ \A c \in Connected : connectedAt[c] < NextRank
    BY <1>10, ConnectRanks
  <2>2. /\ UNCHANGED credential /\ credential[cur[h]]
        /\ status' = [status EXCEPT ![cur[h]] = "CONNECTED"]
    BY <1>10 DEF Connect, TokenInv
  <2> HIDE DEF NextRank
  <2>3. Active' = Active \cup {cur[h]}
    BY <2>1, <2>2 DEF Active
  <2>4. /\ connectedAt'[cur[h]] = NextRank
        /\ \A d \in Active : connectedAt'[d] = connectedAt[d] /\ connectedAt[d] < NextRank
                             /\ connectedAt[d] \in Nat /\ d # cur[h]
    BY <1>1, <2>1 DEF Connected
  <2>5. \A d \in Active' : connectedAt'[cur[h]] >= connectedAt'[d]
    BY <2>1, <2>3, <2>4
  <2>6. Newest(Active)' = cur[h]
    <3>1. /\ Newest(Active)' \in Active'
          /\ \A d \in Active' : connectedAt'[Newest(Active)'] >= connectedAt'[d]
      BY <2>3, <2>5 DEF Newest
    <3>2. connectedAt'[Newest(Active)'] >= NextRank
      BY <2>3, <2>4, <3>1
    <3>3. Newest(Active)' \notin Active
      BY <2>1, <2>4, <3>2
    <3> QED BY <2>3, <3>1, <3>3
  <2> QED BY <2>2, <2>3, <2>6 DEF Resolved
<1> QED BY <1>5, <1>6, <1>7, <1>8, <1>9, <1>10, <1>11 DEF Next, HandlerStep

(* A token that can be resolved gives way to no error and not to the            *)
(* environment's: the newer connection has its credential before it is          *)
(* CONNECTED, and the callbacks that clear older ones leave it alone.          *)
THEOREM SwitchSeamless == Spec => SwitchIsSeamless
<1>1. TypeOK /\ StateInv /\ ConnectedInv /\ TokenInv /\ [Next]_vars =>
        [Resolved = "token" /\ disconnects = 0 /\ NoneOvertaken => Resolved' = "token"]_vars
  BY StepIsSeamless
<1> QED BY <1>1, TypeInvariant, StateInvariant, ConnectedInvariant, TokenInvariant, PTL
        DEF Spec, SwitchIsSeamless
=============================================================================
