----------------------------- MODULE RpcModule -----------------------------
(***************************************************************************)
(* Requests with callbacks between servers (RpcModule).                     *)
(*                                                                         *)
(* For each type of response a context holds two maps from query id to      *)
(* callback. RpcRequest stores the callback in the current map and sends.   *)
(* A response runs and erases the callback of its query id, whichever map   *)
(* holds it. A timer of the type runs all callbacks of the last map with    *)
(* ss_msg_timeout and then makes the current map the last one: a query is   *)
(* given up between one and two periods after it was issued.                *)
(*                                                                         *)
(* Everything here runs on the main loop. The sweep of a timer is several   *)
(* steps, because the callbacks it runs may call RpcRequest and grow the    *)
(* current map of the very context that is being swept; no other handler of *)
(* the main loop runs in between. The peer and the network are external: a  *)
(* request or a response may be lost or late, and a peer may answer more    *)
(* than once.                                                               *)
(***************************************************************************)
EXTENDS Naturals, FiniteSets

CONSTANTS MsgTypes,      \* message types of responses
          NoMsg,         \* not a message type
          MaxQuery,      \* bound: queries issued in one run of the server
          MaxReplies     \* bound: answers of the peer to one query

ASSUME MsgAssumption == NoMsg \notin MsgTypes
ASSUME RpcBounds == MaxQuery \in Nat /\ MaxReplies \in Nat

VARIABLES m_mapRpcContext,     \* types whose context, handler and timer exist
          mapCurrentCallback,  \* [type -> query ids], the younger generation
          mapLastCallback,     \* [type -> query ids], the older generation
          m_nQueryId,          \* the query id given out last
          sweepMsg,            \* the type whose timer handler is running
          sweepTodo,           \* callbacks that handler has still to run
          stopped,             \* RpcModule::OnStop has run
          msgOf,               \* response type of each query
          atPeer,              \* queries whose request reached the peer
          replies,             \* answers the peer has sent to each query
          arriving,            \* of those, the ones still to be handled
          answered,            \* times the callback ran with a response
          timedOut,            \* times the callback ran with a timeout
          age                  \* firings of its timer since a query was issued

rpcVars == <<m_mapRpcContext, mapCurrentCallback, mapLastCallback, m_nQueryId,
             sweepMsg, sweepTodo, stopped>>
peerVars == <<atPeer, replies, arriving>>
callVars == <<answered, timedOut>>
vars == <<rpcVars, peerVars, callVars, msgOf, age>>

QueryIds == 1..MaxQuery

Issued == 1..m_nQueryId

\* The callbacks RpcModule holds.
Held(m) == mapCurrentCallback[m] \cup mapLastCallback[m]

Bump(f, q) == [f EXCEPT ![q] = @ + 1]

Init ==
    /\ m_mapRpcContext = {}
    /\ mapCurrentCallback = [m \in MsgTypes |-> {}]
    /\ mapLastCallback = [m \in MsgTypes |-> {}]
    /\ m_nQueryId = 0
    /\ sweepMsg = NoMsg
    /\ sweepTodo = {}
    /\ stopped = FALSE
    /\ msgOf = [q \in QueryIds |-> NoMsg]
    /\ atPeer = {}
    /\ replies = [q \in QueryIds |-> 0]
    /\ arriving = [q \in QueryIds |-> 0]
    /\ answered = [q \in QueryIds |-> 0]
    /\ timedOut = [q \in QueryIds |-> 0]
    /\ age = [q \in QueryIds |-> 0]

\* The main loop is between two handlers.
MainIdle == ~stopped /\ sweepMsg = NoMsg
-----------------------------------------------------------------------------
(* RpcRequest                                                              *)

GenQueryId(q) ==
    /\ m_nQueryId < MaxQuery
    /\ q = m_nQueryId + 1
    /\ m_nQueryId' = q

\* Storing the callback in the older generation.
StoreInLast(m, q) ==
    /\ mapLastCallback' = [mapLastCallback EXCEPT ![m] = @ \cup {q}]
    /\ UNCHANGED mapCurrentCallback

StoreCallback(m, q) ==
    /\ mapCurrentCallback' = [mapCurrentCallback EXCEPT ![m] = @ \cup {q}]
    /\ UNCHANGED mapLastCallback

\* The request is sent, or it is lost: there is no such session, the write
\* buffer is full, the connection breaks. RpcRequest ignores SendPacket's result.
SendPacket(q) ==
    /\ atPeer' \in {atPeer, atPeer \cup {q}}
    /\ UNCHANGED <<replies, arriving>>

\* RpcRequest for a response of type m. The first one of a type creates its
\* context and registers its handler and its timer. A query issued by a callback
\* of a sweep of its own type counts the firing that it belongs to.
Request(m) ==
    \E q \in QueryIds :
        /\ GenQueryId(q)
        /\ m_mapRpcContext' = m_mapRpcContext \cup {m}
        /\ StoreCallback(m, q)
        /\ msgOf' = [msgOf EXCEPT ![q] = m]
        /\ age' = [age EXCEPT ![q] = IF sweepMsg = m THEN 1 ELSE 0]
        /\ SendPacket(q)

RpcRequest(m) ==
    /\ MainIdle
    /\ Request(m)
    /\ UNCHANGED <<sweepMsg, sweepTodo, stopped, callVars>>
-----------------------------------------------------------------------------
(* The handler of a response (RegisterNetHandle)                           *)

\* The handler calls what it finds without erasing it.
OnResponseKeeps(q) ==
    LET m == msgOf[q] IN
    /\ MainIdle
    /\ arriving[q] > 0
    /\ arriving' = [arriving EXCEPT ![q] = @ - 1]
    /\ answered' = IF q \in Held(m) THEN Bump(answered, q) ELSE answered
    /\ UNCHANGED <<rpcVars, atPeer, replies, timedOut, msgOf, age>>

\* A response to query q: its callback is moved out of the map that holds it,
\* the younger one first, and called; a response nobody waits for is dropped.
OnResponse(q) ==
    LET m == msgOf[q] IN
    /\ MainIdle
    /\ arriving[q] > 0
    /\ arriving' = [arriving EXCEPT ![q] = @ - 1]
    /\ \/ /\ q \in mapCurrentCallback[m]
          /\ mapCurrentCallback' = [mapCurrentCallback EXCEPT ![m] = @ \ {q}]
          /\ answered' = Bump(answered, q)
          /\ UNCHANGED mapLastCallback
       \/ /\ q \in mapLastCallback[m] \ mapCurrentCallback[m]
          /\ mapLastCallback' = [mapLastCallback EXCEPT ![m] = @ \ {q}]
          /\ answered' = Bump(answered, q)
          /\ UNCHANGED mapCurrentCallback
       \/ /\ q \notin Held(m)
          /\ UNCHANGED <<mapCurrentCallback, mapLastCallback, answered>>
    /\ UNCHANGED <<m_mapRpcContext, m_nQueryId, sweepMsg, sweepTodo, stopped,
                   atPeer, replies, timedOut, msgOf, age>>
-----------------------------------------------------------------------------
(* The timer of a type (RegisterTimeoutHandle)                             *)

\* The timer fires and starts to iterate over the older generation.
TimeoutBegin(m) ==
    /\ MainIdle
    /\ m \in m_mapRpcContext
    /\ sweepMsg' = m
    /\ sweepTodo' = mapLastCallback[m]
    /\ age' = [q \in QueryIds |-> IF q \in Held(m) THEN age[q] + 1 ELSE age[q]]
    /\ UNCHANGED <<m_mapRpcContext, mapCurrentCallback, mapLastCallback, m_nQueryId,
                   stopped, peerVars, callVars, msgOf>>

\* The next callback, in any order, is called with ss_msg_timeout. It may call
\* RpcRequest, for any type, before it returns.
TimeoutCall(q) ==
    /\ q \in sweepTodo
    /\ sweepTodo' = sweepTodo \ {q}
    /\ timedOut' = Bump(timedOut, q)
    /\ \/ UNCHANGED <<m_mapRpcContext, mapCurrentCallback, mapLastCallback,
                      m_nQueryId, peerVars, msgOf, age>>
       \/ \E m \in MsgTypes : Request(m)
    /\ UNCHANGED <<sweepMsg, stopped, answered>>

\* The swap before the clear: the younger generation is thrown away uncalled.
TimeoutEndSwapFirst ==
    /\ sweepMsg # NoMsg
    /\ sweepTodo = {}
    /\ mapLastCallback' = [mapLastCallback EXCEPT ![sweepMsg] = {}]
    /\ mapCurrentCallback' = [mapCurrentCallback EXCEPT ![sweepMsg] = mapLastCallback[sweepMsg]]
    /\ sweepMsg' = NoMsg
    /\ UNCHANGED <<m_mapRpcContext, m_nQueryId, sweepTodo, stopped, peerVars,
                   callVars, msgOf, age>>

\* The swap without the clear before it.
TimeoutEndNoClear ==
    /\ sweepMsg # NoMsg
    /\ sweepTodo = {}
    /\ mapLastCallback' = [mapLastCallback EXCEPT ![sweepMsg] = mapCurrentCallback[sweepMsg]]
    /\ mapCurrentCallback' = [mapCurrentCallback EXCEPT ![sweepMsg] = mapLastCallback[sweepMsg]]
    /\ sweepMsg' = NoMsg
    /\ UNCHANGED <<m_mapRpcContext, m_nQueryId, sweepTodo, stopped, peerVars,
                   callVars, msgOf, age>>

\* All are called: the last map is cleared and swapped with the current one,
\* and the timer is armed again.
TimeoutEnd ==
    /\ sweepMsg # NoMsg
    /\ sweepTodo = {}
    /\ mapLastCallback' = [mapLastCallback EXCEPT ![sweepMsg] = mapCurrentCallback[sweepMsg]]
    /\ mapCurrentCallback' = [mapCurrentCallback EXCEPT ![sweepMsg] = {}]
    /\ sweepMsg' = NoMsg
    /\ UNCHANGED <<m_mapRpcContext, m_nQueryId, sweepTodo, stopped, peerVars,
                   callVars, msgOf, age>>
-----------------------------------------------------------------------------
\* RpcModule::OnStop deletes the contexts, their callbacks unrun; the main loop
\* stops in the same handler, so no timer and no response finds them gone.
OnStop ==
    /\ MainIdle
    /\ stopped' = TRUE
    /\ m_mapRpcContext' = {}
    /\ mapCurrentCallback' = [m \in MsgTypes |-> {}]
    /\ mapLastCallback' = [m \in MsgTypes |-> {}]
    /\ UNCHANGED <<m_nQueryId, sweepMsg, sweepTodo, peerVars, callVars, msgOf, age>>

\* The peer answers a request it has received; the answer may take for ever.
PeerReply(q) ==
    /\ q \in atPeer
    /\ replies[q] < MaxReplies
    /\ replies' = Bump(replies, q)
    /\ arriving' = Bump(arriving, q)
    /\ UNCHANGED <<rpcVars, atPeer, callVars, msgOf, age>>

Terminated == stopped /\ UNCHANGED vars
-----------------------------------------------------------------------------
SweepStep == TimeoutEnd \/ \E q \in QueryIds : TimeoutCall(q)

Next ==
    \/ \E m \in MsgTypes : RpcRequest(m) \/ TimeoutBegin(m)
    \/ \E q \in QueryIds : OnResponse(q) \/ TimeoutCall(q) \/ PeerReply(q)
    \/ TimeoutEnd
    \/ OnStop
    \/ Terminated

Spec == Init /\ [][Next]_vars

(***************************************************************************)
(* ExecEvery arms a timer again after each firing and the main loop runs    *)
(* every handler that is ready, so timers fire for ever and a sweep ends.   *)
(* The peer and the network promise nothing. Between two handlers of the    *)
(* main loop anything may come first: a timer that is due again and again   *)
(* is run even if responses and requests keep the loop busy.                *)
(***************************************************************************)
Fairness ==
    /\ \A m \in MsgTypes : SF_vars(TimeoutBegin(m))
    /\ WF_vars(SweepStep)

FairSpec == Spec /\ Fairness
-----------------------------------------------------------------------------
(* Properties                                                              *)

\* Every variable has its type.
TypeOK ==
    /\ m_mapRpcContext \subseteq MsgTypes
    /\ mapCurrentCallback \in [MsgTypes -> SUBSET QueryIds]
    /\ mapLastCallback \in [MsgTypes -> SUBSET QueryIds]
    /\ m_nQueryId \in 0..MaxQuery
    /\ sweepMsg \in MsgTypes \cup {NoMsg}
    /\ sweepTodo \subseteq QueryIds
    /\ stopped \in BOOLEAN
    /\ msgOf \in [QueryIds -> MsgTypes \cup {NoMsg}]
    /\ atPeer \subseteq QueryIds
    /\ replies \in [QueryIds -> Nat]
    /\ arriving \in [QueryIds -> Nat]
    /\ answered \in [QueryIds -> Nat]
    /\ timedOut \in [QueryIds -> Nat]
    /\ age \in [QueryIds -> Nat]

\* RpcModule still owes query q a call of its callback.
Owed(q) ==
    /\ \E m \in MsgTypes : q \in Held(m)
    /\ ~ (sweepMsg # NoMsg /\ q \in mapLastCallback[sweepMsg] \ sweepTodo)

\* Until the server stops, every query that was issued is owed a call or has had
\* exactly one, with the response or with the timeout: never both, never twice
\* and never none, however a late answer, a second answer and the sweep of the
\* timer interleave.
CalledExactlyOnce ==
    ~stopped => \A q \in Issued :
                    answered[q] + timedOut[q] = IF Owed(q) THEN 0 ELSE 1

\* A query is given up only after it has lived through a whole period of its
\* timer (kRpcTimeoutMillSeconds), and it is given up at the firing after that:
\* a callback that is waiting has seen at most one firing, and one that timed
\* out has seen exactly two.
OnePeriodOfGrace ==
    /\ \A m \in MsgTypes : \A q \in Held(m) :
           age[q] <= IF sweepMsg = m THEN 2 ELSE 1
    /\ \A q \in QueryIds : timedOut[q] > 0 => age[q] = 2

\* The handler of a timer iterates over the last map while the callbacks it calls
\* run, and an insertion or an erasure would leave it with a dead iterator: until
\* it is through, whatever the callbacks request, the map stays as it is, all that
\* is still to be called stays in it, and the context is not deleted.
SweepGoesOn ==
    \A m \in MsgTypes : sweepMsg = m /\ sweepMsg' = m =>
        /\ mapLastCallback'[m] = mapLastCallback[m]
        /\ sweepTodo' \subseteq mapLastCallback'[m]
        /\ m \in m_mapRpcContext'

SweepUndisturbed == [][SweepGoesOn]_vars

Status(q) ==
    CASE q \notin Issued                      -> "none"
      [] q \in Issued /\ answered[q] = 0 /\ timedOut[q] = 0 -> "pending"
      [] q \in Issued /\ answered[q] = 1 /\ timedOut[q] = 0 -> "answered"
      [] q \in Issued /\ answered[q] = 0 /\ timedOut[q] = 1 -> "timedout"
      [] OTHER                                -> "calledTwice"

Promise == INSTANCE RpcPromise
               WITH status <- [q \in QueryIds |-> Status(q)], down <- stopped

\* The two generations of callbacks keep RpcModule's promise to its callers.
KeepsPromise == Promise!Spec

\* A query whose request or response is lost is answered in the end by the timer.
EveryQuerySettles == Promise!Live
=============================================================================
