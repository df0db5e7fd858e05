-------------------------- MODULE RpcModule_proofs --------------------------
(***************************************************************************)
(* RpcModule for any set of message types and any number of queries: every  *)
(* callback is called exactly once, and not before a whole period.          *)
(***************************************************************************)
EXTENDS RpcModule, TLAPS

\* A callback is held in the context of its query's type, in one generation.
HeldInv ==
    /\ \A m \in MsgTypes : \A q \in Held(m) : q \in Issued /\ msgOf[q] = m
    /\ \A m \in MsgTypes : mapCurrentCallback[m] \cap mapLastCallback[m] = {}

\* A sweep iterates over the older generation of its type; OnStop is not inside.
SweepInv ==
    /\ sweepMsg = NoMsg => sweepTodo = {}
    /\ sweepMsg # NoMsg => /\ sweepTodo \subseteq mapLastCallback[sweepMsg]
                           /\ sweepMsg \in m_mapRpcContext
                           /\ ~stopped

\* Only issued queries reach the peer, so a response names a query and its type.
PeerInv ==
    /\ \A q \in Issued : msgOf[q] \in MsgTypes
    /\ atPeer \subseteq Issued
    /\ \A q \in QueryIds : arriving[q] > 0 => q \in Issued

\* Calls of callbacks, counted.
CountInv ==
    /\ \A q \in QueryIds \ Issued : answered[q] = 0 /\ timedOut[q] = 0
    /\ ~stopped => \A q \in Issued :
         /\ Owed(q) => answered[q] = 0 /\ timedOut[q] = 0
         /\ ~Owed(q) => \/ answered[q] = 1 /\ timedOut[q] = 0
                        \/ answered[q] = 0 /\ timedOut[q] = 1

\* The generation of a callback tells how many firings its query has seen.
AgeInv ==
    /\ \A m \in MsgTypes : \A q \in mapCurrentCallback[m] :
           age[q] = IF sweepMsg = m THEN 1 ELSE 0
    /\ \A m \in MsgTypes : \A q \in mapLastCallback[m] :
           age[q] = IF sweepMsg = m THEN 2 ELSE 1
    /\ \A q \in QueryIds : timedOut[q] > 0 => age[q] = 2

IInv == TypeOK /\ HeldInv /\ SweepInv /\ PeerInv /\ CountInv /\ AgeInv

-----------------------------------------------------------------------------
\* The inductive invariant holds initially.
LEMMA InitIInv == Init => IInv
<1> SUFFICES ASSUME Init PROVE IInv
  OBVIOUS
<1> USE MsgAssumption, RpcBounds DEF Init, QueryIds, Issued, Held
<1>1. TypeOK
  <2>1. /\ replies \in [QueryIds -> Nat] /\ arriving \in [QueryIds -> Nat]
        /\ answered \in [QueryIds -> Nat] /\ timedOut \in [QueryIds -> Nat]
        /\ age \in [QueryIds -> Nat]
    OBVIOUS
  <2>2. /\ mapCurrentCallback \in [MsgTypes -> SUBSET QueryIds]
        /\ mapLastCallback \in [MsgTypes -> SUBSET QueryIds]
        /\ msgOf \in [QueryIds -> MsgTypes \cup {NoMsg}]
        /\ m_nQueryId \in 0..MaxQuery
    OBVIOUS
  <2> QED
    BY <2>1, <2>2 DEF TypeOK
<1>2. HeldInv /\ SweepInv /\ PeerInv
  BY DEF HeldInv, SweepInv, PeerInv
<1>3. CountInv /\ AgeInv
  BY DEF CountInv, AgeInv
<1> QED
  BY <1>1, <1>2, <1>3 DEF IInv

\* Query ids that were given out are within the bound.
LEMMA IssuedInQueryIds == IInv => Issued \subseteq QueryIds
  BY RpcBounds DEF IInv, TypeOK, Issued, QueryIds

\* Without RpcRequest no query id is given out.
LEMMA IssuedUnchanged == m_nQueryId' = m_nQueryId => Issued' = Issued
  BY DEF Issued

\* What RpcRequest does, whoever calls it: the next query id is new, and only
\* its entries change.
LEMMA RequestEffect ==
  ASSUME IInv, NEW m \in MsgTypes, Request(m)
  PROVE  LET q == m_nQueryId + 1 IN
         /\ q \in QueryIds /\ q \notin Issued /\ m_nQueryId' = q
         /\ m_nQueryId' \in 0..MaxQuery /\ Issued' = Issued \cup {q}
         /\ m_mapRpcContext' \subseteq MsgTypes
         /\ m_mapRpcContext \subseteq m_mapRpcContext'
         /\ mapCurrentCallback' \in [MsgTypes -> SUBSET QueryIds]
         /\ mapCurrentCallback'[m] = mapCurrentCallback[m] \cup {q}
         /\ \A n \in MsgTypes \ {m} : mapCurrentCallback'[n] = mapCurrentCallback[n]
         /\ mapLastCallback' = mapLastCallback
         /\ \A n \in MsgTypes : q \notin Held(n)
         /\ msgOf' \in [QueryIds -> MsgTypes \cup {NoMsg}]
         /\ msgOf'[q] = m /\ \A r \in QueryIds \ {q} : msgOf'[r] = msgOf[r]
         /\ age' \in [QueryIds -> Nat]
         /\ age'[q] = (IF sweepMsg = m THEN 1 ELSE 0)
         /\ \A r \in QueryIds \ {q} : age'[r] = age[r]
         /\ atPeer' \subseteq atPeer \cup {q}
         /\ UNCHANGED <<replies, arriving>>
<1>0. TypeOK /\ HeldInv
  BY DEF IInv
<1>1. PICK q \in QueryIds :
        /\ GenQueryId(q)
        /\ m_mapRpcContext' = m_mapRpcContext \cup {m}
        /\ StoreCallback(m, q)
        /\ msgOf' = [msgOf EXCEPT ![q] = m]
        /\ age' = [age EXCEPT ![q] = IF sweepMsg = m THEN 1 ELSE 0]
        /\ SendPacket(q)
  BY DEF Request
<1>2. /\ q = m_nQueryId + 1 /\ m_nQueryId' = q /\ q \notin Issued
      /\ m_nQueryId' \in 0..MaxQuery /\ Issued' = Issued \cup {q}
  <2>1. /\ m_nQueryId \in Nat /\ q = m_nQueryId + 1 /\ m_nQueryId' = q
        /\ m_nQueryId' \in 0..MaxQuery
    BY <1>0, <1>1, RpcBounds DEF GenQueryId, TypeOK, QueryIds
  <2>2. q \notin 1..m_nQueryId
    BY <2>1
  <2>3. 1..(m_nQueryId + 1) = (1..m_nQueryId) \cup {m_nQueryId + 1}
    BY <2>1
  <2> QED
    BY <2>1, <2>2, <2>3 DEF Issued
<1>3. \A n \in MsgTypes : q \notin Held(n)
  BY <1>0, <1>2 DEF HeldInv
<1>4. /\ mapCurrentCallback' \in [MsgTypes -> SUBSET QueryIds]
      /\ mapCurrentCallback'[m] = mapCurrentCallback[m] \cup {q}
      /\ \A n \in MsgTypes \ {m} : mapCurrentCallback'[n] = mapCurrentCallback[n]
      /\ mapLastCallback' = mapLastCallback
  BY <1>0, <1>1 DEF StoreCallback, TypeOK
<1>5. /\ msgOf' \in [QueryIds -> MsgTypes \cup {NoMsg}]
      /\ msgOf'[q] = m /\ \A r \in QueryIds \ {q} : msgOf'[r] = msgOf[r]
  BY <1>0, <1>1 DEF TypeOK
<1>6. /\ age' \in [QueryIds -> Nat]
      /\ age'[q] = (IF sweepMsg = m THEN 1 ELSE 0)
      /\ \A r \in QueryIds \ {q} : age'[r] = age[r]
  BY <1>0, <1>1 DEF TypeOK
<1>7. atPeer' \subseteq atPeer \cup {q} /\ UNCHANGED <<replies, arriving>>
  BY <1>1 DEF SendPacket
<1>8. m_mapRpcContext' \subseteq MsgTypes
  BY <1>0, <1>1 DEF TypeOK
<1> QED
  BY <1>1, <1>2, <1>3, <1>4, <1>5, <1>6, <1>7, <1>8

\* RpcRequest keeps it.
LEMMA RpcRequestIInv ==
  ASSUME IInv, NEW m \in MsgTypes, RpcRequest(m)
  PROVE  IInv'
<1> USE MsgAssumption DEF Held, Bump, MainIdle
<1>0. /\ TypeOK /\ HeldInv /\ SweepInv /\ PeerInv /\ CountInv /\ AgeInv
      /\ Issued \subseteq QueryIds
  BY IssuedInQueryIds DEF IInv
<1> USE <1>0
<1> DEFINE q == m_nQueryId + 1
<1>e. /\ Request(m)
      /\ UNCHANGED <<sweepMsg, sweepTodo, stopped, answered, timedOut>>
      /\ sweepMsg = NoMsg
  BY DEF RpcRequest, callVars
<1>f. /\ q \in QueryIds /\ q \notin Issued /\ m_nQueryId' = q
      /\ m_nQueryId' \in 0..MaxQuery /\ Issued' = Issued \cup {q}
      /\ m_mapRpcContext' \subseteq MsgTypes
      /\ m_mapRpcContext \subseteq m_mapRpcContext'
      /\ mapCurrentCallback' \in [MsgTypes -> SUBSET QueryIds]
      /\ mapCurrentCallback'[m] = mapCurrentCallback[m] \cup {q}
      /\ \A n \in MsgTypes \ {m} : mapCurrentCallback'[n] = mapCurrentCallback[n]
      /\ mapLastCallback' = mapLastCallback
      /\ \A n \in MsgTypes : q \notin mapCurrentCallback[n] /\ q \notin mapLastCallback[n]
      /\ msgOf' \in [QueryIds -> MsgTypes \cup {NoMsg}]
      /\ msgOf'[q] = m /\ \A r \in QueryIds \ {q} : msgOf'[r] = msgOf[r]
      /\ age' \in [QueryIds -> Nat] /\ age'[q] = 0
      /\ \A r \in QueryIds \ {q} : age'[r] = age[r]
      /\ atPeer' \subseteq atPeer \cup {q}
      /\ UNCHANGED <<replies, arriving>>
  BY <1>e, RequestEffect
<1> HIDE DEF q
<1>1. TypeOK'
  BY <1>e, <1>f DEF TypeOK
<1>2. HeldInv'
  BY <1>f DEF TypeOK, HeldInv
<1>3. SweepInv'
  BY <1>e, <1>f DEF TypeOK, SweepInv
<1>4. PeerInv'
  BY <1>f DEF TypeOK, PeerInv
<1>5. CountInv'
  BY <1>e, <1>f DEF TypeOK, HeldInv, SweepInv, PeerInv, CountInv, Owed
<1>6. AgeInv'
  BY <1>e, <1>f DEF TypeOK, HeldInv, CountInv, AgeInv
<1> QED
  BY <1>1, <1>2, <1>3, <1>4, <1>5, <1>6 DEF IInv

\* A response keeps it.
LEMMA OnResponseIInv ==
  ASSUME IInv, NEW q \in QueryIds, OnResponse(q)
  PROVE  IInv'
<1> USE MsgAssumption DEF Held, Bump, MainIdle
<1>0. /\ TypeOK /\ HeldInv /\ SweepInv /\ PeerInv /\ CountInv /\ AgeInv
      /\ Issued \subseteq QueryIds
  BY IssuedInQueryIds DEF IInv
<1>u. Issued' = Issued
  BY IssuedUnchanged DEF OnResponse
<1> USE <1>0, <1>u
<1>1. TypeOK'
  BY DEF TypeOK, OnResponse
<1>2. HeldInv'
  BY DEF TypeOK, HeldInv, OnResponse
<1>3. SweepInv'
  BY DEF TypeOK, HeldInv, SweepInv, OnResponse
<1>4. PeerInv'
  BY DEF TypeOK, PeerInv, OnResponse
<1>5. CountInv'
  BY DEF TypeOK, HeldInv, SweepInv, PeerInv, CountInv, Owed, OnResponse
<1>6. AgeInv'
  BY DEF TypeOK, HeldInv, SweepInv, PeerInv, CountInv, Owed, AgeInv, OnResponse
<1> QED
  BY <1>1, <1>2, <1>3, <1>4, <1>5, <1>6 DEF IInv

\* The firing of a timer keeps it.
LEMMA TimeoutBeginIInv ==
  ASSUME IInv, NEW m \in MsgTypes, TimeoutBegin(m)
  PROVE  IInv'
<1> USE MsgAssumption DEF Held, Bump, MainIdle
<1>0. /\ TypeOK /\ HeldInv /\ SweepInv /\ PeerInv /\ CountInv /\ AgeInv
      /\ Issued \subseteq QueryIds
  BY IssuedInQueryIds DEF IInv
<1>u. Issued' = Issued
  BY IssuedUnchanged DEF TimeoutBegin
<1> USE <1>0, <1>u
<1>1. TypeOK'
  BY DEF TypeOK, TimeoutBegin, peerVars, callVars
<1>2. HeldInv'
  BY DEF TypeOK, HeldInv, TimeoutBegin, peerVars, callVars
<1>3. SweepInv'
  BY DEF TypeOK, HeldInv, SweepInv, TimeoutBegin, peerVars, callVars
<1>4. PeerInv'
  BY DEF TypeOK, PeerInv, TimeoutBegin, peerVars, callVars
<1>5. CountInv'
  BY DEF TypeOK, HeldInv, SweepInv, PeerInv, CountInv, Owed, TimeoutBegin, peerVars, callVars
<1>6. AgeInv'
  BY DEF TypeOK, HeldInv, SweepInv, PeerInv, CountInv, Owed, AgeInv, TimeoutBegin, peerVars, callVars
<1> QED
  BY <1>1, <1>2, <1>3, <1>4, <1>5, <1>6 DEF IInv

\* A callback of a sweep keeps it.
LEMMA TimeoutCallIInv ==
  ASSUME IInv, NEW q \in QueryIds, TimeoutCall(q)
  PROVE  IInv'
<1> USE MsgAssumption DEF Held, Bump, MainIdle
<1>0. /\ TypeOK /\ HeldInv /\ SweepInv /\ PeerInv /\ CountInv /\ AgeInv
      /\ Issued \subseteq QueryIds
  BY IssuedInQueryIds DEF IInv
<1> USE <1>0
<1>a. /\ q \in mapLastCallback[sweepMsg] /\ sweepMsg \in MsgTypes /\ ~stopped
      /\ q \in Issued /\ msgOf[q] = sweepMsg /\ age[q] = 2
      /\ \A m \in MsgTypes : q \notin mapCurrentCallback[m]
      /\ Owed(q) /\ answered[q] = 0 /\ timedOut[q] = 0
  BY DEF TimeoutCall, SweepInv, HeldInv, AgeInv, TypeOK, CountInv, Owed
<1>b. /\ sweepTodo' = sweepTodo \ {q}
      /\ timedOut' \in [QueryIds -> Nat] /\ timedOut'[q] = 1
      /\ \A r \in QueryIds \ {q} : timedOut'[r] = timedOut[r]
      /\ UNCHANGED <<sweepMsg, stopped, answered>>
  BY <1>a DEF TimeoutCall, TypeOK
<1>c. CASE UNCHANGED <<m_mapRpcContext, mapCurrentCallback, mapLastCallback,
                       m_nQueryId, peerVars, msgOf, age>>
  <2>u. Issued' = Issued
    BY <1>c, IssuedUnchanged
  <2>1. TypeOK'
    BY <1>b, <1>c DEF TypeOK, peerVars
  <2>2. HeldInv' /\ SweepInv' /\ PeerInv'
    BY <1>a, <1>b, <1>c, <2>u DEF HeldInv, SweepInv, PeerInv, peerVars, TypeOK
  <2>3. CountInv'
    BY <1>a, <1>b, <1>c, <2>u DEF HeldInv, SweepInv, CountInv, Owed, TypeOK
  <2>4. AgeInv'
    BY <1>a, <1>b, <1>c DEF AgeInv, TypeOK
  <2> QED
    BY <2>1, <2>2, <2>3, <2>4 DEF IInv
<1>d. ASSUME NEW m \in MsgTypes, Request(m) PROVE IInv'
  <2> DEFINE n == m_nQueryId + 1
  <2>1. /\ n \in QueryIds /\ n \notin Issued /\ m_nQueryId' = n
        /\ m_nQueryId' \in 0..MaxQuery /\ Issued' = Issued \cup {n}
        /\ m_mapRpcContext' \subseteq MsgTypes
        /\ m_mapRpcContext \subseteq m_mapRpcContext'
        /\ mapCurrentCallback' \in [MsgTypes -> SUBSET QueryIds]
        /\ mapCurrentCallback'[m] = mapCurrentCallback[m] \cup {n}
        /\ \A l \in MsgTypes \ {m} : mapCurrentCallback'[l] = mapCurrentCallback[l]
        /\ mapLastCallback' = mapLastCallback
        /\ \A l \in MsgTypes : n \notin mapCurrentCallback[l] /\ n \notin mapLastCallback[l]
        /\ msgOf' \in [QueryIds -> MsgTypes \cup {NoMsg}]
        /\ msgOf'[n] = m /\ \A r \in QueryIds \ {n} : msgOf'[r] = msgOf[r]
        /\ age' \in [QueryIds -> Nat] /\ age'[n] = (IF sweepMsg = m THEN 1 ELSE 0)
        /\ \A r \in QueryIds \ {n} : age'[r] = age[r]
        /\ atPeer' \subseteq atPeer \cup {n}
        /\ UNCHANGED <<replies, arriving>>
    BY <1>d, RequestEffect
  <2> HIDE DEF n
  <2>2. TypeOK'
    BY <1>b, <2>1 DEF TypeOK
  <2>3. HeldInv'
    BY <2>1 DEF TypeOK, HeldInv
  <2>4. SweepInv' /\ PeerInv'
    BY <1>a, <1>b, <2>1 DEF TypeOK, SweepInv, PeerInv
  <2>5. CountInv'
    BY <1>a, <1>b, <2>1 DEF TypeOK, HeldInv, SweepInv, CountInv, Owed
  <2>6. AgeInv'
    BY <1>a, <1>b, <2>1 DEF TypeOK, HeldInv, CountInv, AgeInv
  <2> QED
    BY <2>2, <2>3, <2>4, <2>5, <2>6 DEF IInv
<1> QED
  BY <1>c, <1>d DEF TimeoutCall

\* The end of a sweep keeps it.
LEMMA TimeoutEndIInv ==
  ASSUME IInv, TimeoutEnd
  PROVE  IInv'
<1> USE MsgAssumption DEF Held, Bump, MainIdle
<1>0. /\ TypeOK /\ HeldInv /\ SweepInv /\ PeerInv /\ CountInv /\ AgeInv
      /\ Issued \subseteq QueryIds
  BY IssuedInQueryIds DEF IInv
<1>u. Issued' = Issued
  BY IssuedUnchanged DEF TimeoutEnd
<1> USE <1>0, <1>u
<1>1. TypeOK'
  BY DEF TypeOK, TimeoutEnd, peerVars, callVars
<1>2. HeldInv'
  BY DEF TypeOK, HeldInv, TimeoutEnd, peerVars, callVars
<1>3. SweepInv'
  BY DEF TypeOK, HeldInv, SweepInv, TimeoutEnd, peerVars, callVars
<1>4. PeerInv'
  BY DEF TypeOK, PeerInv, TimeoutEnd, peerVars, callVars
<1>5. CountInv'
  BY DEF TypeOK, HeldInv, SweepInv, PeerInv, CountInv, Owed, TimeoutEnd, peerVars, callVars
<1>6. AgeInv'
  BY DEF TypeOK, HeldInv, SweepInv, PeerInv, CountInv, Owed, AgeInv, TimeoutEnd, peerVars, callVars
<1> QED
  BY <1>1, <1>2, <1>3, <1>4, <1>5, <1>6 DEF IInv

\* OnStop keeps it.
LEMMA OnStopIInv ==
  ASSUME IInv, OnStop
  PROVE  IInv'
<1> USE MsgAssumption DEF Held, Bump, MainIdle
<1>0. /\ TypeOK /\ HeldInv /\ SweepInv /\ PeerInv /\ CountInv /\ AgeInv
      /\ Issued \subseteq QueryIds
  BY IssuedInQueryIds DEF IInv
<1>u. Issued' = Issued
  BY IssuedUnchanged DEF OnStop
<1> USE <1>0, <1>u
<1>1. TypeOK'
  BY DEF TypeOK, OnStop, peerVars, callVars
<1>2. HeldInv'
  BY DEF TypeOK, HeldInv, OnStop, peerVars, callVars
<1>3. SweepInv'
  BY DEF TypeOK, HeldInv, SweepInv, OnStop, peerVars, callVars
<1>4. PeerInv'
  BY DEF TypeOK, PeerInv, OnStop, peerVars, callVars
<1>5. CountInv'
  BY DEF TypeOK, HeldInv, SweepInv, PeerInv, CountInv, Owed, OnStop, peerVars, callVars
<1>6. AgeInv'
  BY DEF TypeOK, HeldInv, SweepInv, PeerInv, CountInv, Owed, AgeInv, OnStop, peerVars, callVars
<1> QED
  BY <1>1, <1>2, <1>3, <1>4, <1>5, <1>6 DEF IInv

\* An answer of the peer keeps it.
LEMMA PeerReplyIInv ==
  ASSUME IInv, NEW q \in QueryIds, PeerReply(q)
  PROVE  IInv'
<1> USE MsgAssumption DEF Held, Bump, MainIdle
<1>0. /\ TypeOK /\ HeldInv /\ SweepInv /\ PeerInv /\ CountInv /\ AgeInv
      /\ Issued \subseteq QueryIds
  BY IssuedInQueryIds DEF IInv
<1>u. Issued' = Issued
  BY IssuedUnchanged DEF PeerReply, rpcVars
<1> USE <1>0, <1>u
<1>1. TypeOK'
  BY DEF TypeOK, PeerReply, rpcVars, callVars
<1>2. HeldInv'
  BY DEF TypeOK, HeldInv, PeerReply, rpcVars, callVars
<1>3. SweepInv'
  BY DEF TypeOK, HeldInv, SweepInv, PeerReply, rpcVars, callVars
<1>4. PeerInv'
  BY DEF TypeOK, PeerInv, PeerReply, rpcVars, callVars
<1>5. CountInv'
  BY DEF TypeOK, HeldInv, SweepInv, PeerInv, CountInv, Owed, PeerReply, rpcVars, callVars
<1>6. AgeInv'
  BY DEF TypeOK, HeldInv, SweepInv, PeerInv, CountInv, Owed, AgeInv, PeerReply, rpcVars, callVars
<1> QED
  BY <1>1, <1>2, <1>3, <1>4, <1>5, <1>6 DEF IInv

\* A stuttering step keeps it.
LEMMA StutterIInv ==
  ASSUME IInv, UNCHANGED vars
  PROVE  IInv'
<1> USE MsgAssumption DEF Held, Bump, MainIdle
<1>0. /\ TypeOK /\ HeldInv /\ SweepInv /\ PeerInv /\ CountInv /\ AgeInv
      /\ Issued \subseteq QueryIds
  BY IssuedInQueryIds DEF IInv
<1>u. Issued' = Issued
  BY IssuedUnchanged DEF vars, rpcVars
<1> USE <1>0, <1>u
<1>1. TypeOK'
  BY DEF TypeOK, vars, rpcVars, peerVars, callVars
<1>2. HeldInv'
  BY DEF TypeOK, HeldInv, vars, rpcVars, peerVars, callVars
<1>3. SweepInv'
  BY DEF TypeOK, HeldInv, SweepInv, vars, rpcVars, peerVars, callVars
<1>4. PeerInv'
  BY DEF TypeOK, PeerInv, vars, rpcVars, peerVars, callVars
<1>5. CountInv'
  BY DEF TypeOK, HeldInv, SweepInv, PeerInv, CountInv, Owed, vars, rpcVars, peerVars, callVars
<1>6. AgeInv'
  BY DEF TypeOK, HeldInv, SweepInv, PeerInv, CountInv, Owed, AgeInv, vars, rpcVars, peerVars, callVars
<1> QED
  BY <1>1, <1>2, <1>3, <1>4, <1>5, <1>6 DEF IInv

\* Every step of the main loop, the peer or the network keeps the invariant.
LEMMA NextIInv == IInv /\ [Next]_vars => IInv'
  BY RpcRequestIInv, OnResponseIInv, TimeoutBeginIInv, TimeoutCallIInv,
     TimeoutEndIInv, OnStopIInv, PeerReplyIInv, StutterIInv
  DEF Next, Terminated

\* The inductive invariant holds in every reachable state.
LEMMA InvariantIInv == Spec => []IInv
  BY InitIInv, NextIInv, PTL DEF Spec
-----------------------------------------------------------------------------
\* Type correctness of RpcModule for any types and any number of queries.
THEOREM TypeCorrect == Spec => []TypeOK
<1>1. IInv => TypeOK
  BY DEF IInv
<1> QED
  BY <1>1, InvariantIInv, PTL

\* Every callback given to RpcRequest is called exactly once or is still owed.
THEOREM ExactlyOnce == Spec => []CalledExactlyOnce
<1>1. IInv => CalledExactlyOnce
  BY DEF IInv, CountInv, CalledExactlyOnce
<1> QED
  BY <1>1, InvariantIInv, PTL

\* No query is given up before a whole period of its timer has passed.
THEOREM Grace == Spec => []OnePeriodOfGrace
<1>1. IInv => OnePeriodOfGrace
  BY MsgAssumption DEF IInv, AgeInv, OnePeriodOfGrace, Held
<1> QED
  BY <1>1, InvariantIInv, PTL

\* While the handler of a timer iterates over the last map, neither the callbacks
\* it calls nor anything else changes that map or deletes its context.
THEOREM SweepsAreUndisturbed == Spec => SweepUndisturbed
<1>1. IInv /\ IInv' /\ [Next]_vars => [SweepGoesOn]_vars
  <2> SUFFICES ASSUME IInv, IInv', Next, NEW m \in MsgTypes, sweepMsg = m, sweepMsg' = m
               PROVE  /\ mapLastCallback'[m] = mapLastCallback[m]
                      /\ sweepTodo' \subseteq mapLastCallback'[m]
                      /\ m \in m_mapRpcContext'
    BY DEF SweepGoesOn
  <2>1. m # NoMsg
    BY MsgAssumption
  <2>2. sweepTodo' \subseteq mapLastCallback'[m] /\ m \in m_mapRpcContext'
    BY <2>1 DEF IInv, SweepInv
  <2>3. CASE \E q \in QueryIds : TimeoutCall(q)
    <3>1. mapLastCallback' = mapLastCallback
      BY <2>3 DEF TimeoutCall, Request, StoreCallback
    <3> QED
      BY <2>2, <3>1
  <2>4. CASE \E q \in QueryIds : PeerReply(q)
    BY <2>2, <2>4 DEF PeerReply, rpcVars
  <2>5. CASE Terminated
    BY <2>2, <2>5 DEF Terminated, vars, rpcVars
  <2> QED
    BY <2>1, <2>2, <2>3, <2>4, <2>5
    DEF Next, RpcRequest, TimeoutBegin, OnResponse, TimeoutEnd, OnStop, MainIdle
<1> QED
  BY <1>1, InvariantIInv, PTL DEF Spec, SweepUndisturbed
-----------------------------------------------------------------------------
(* The refinement of RpcPromise                                            *)

StatusOf == [q \in QueryIds |-> Status(q)]

\* A step that calls no callback and issues no query shows nothing to callers.
LEMMA SilentStep ==
  ASSUME UNCHANGED <<m_nQueryId, answered, timedOut>>
  PROVE  StatusOf' = StatusOf
<1>1. Issued' = Issued
  BY IssuedUnchanged
<1>2. \A q \in QueryIds : Status(q)' = Status(q)
  BY <1>1 DEF Status
<1> QED
  BY <1>2 DEF StatusOf, QueryIds

\* A query that is owed a call is pending for its caller.
LEMMA OwedIsPending ==
  ASSUME IInv, ~stopped, NEW q \in Issued, Owed(q)
  PROVE  Status(q) = "pending" /\ answered[q] = 0 /\ timedOut[q] = 0
  BY DEF IInv, CountInv, Status

\* The initial states of RpcModule are initial states of RpcPromise.
LEMMA PromiseInit == Init => Promise!Init
<1> SUFFICES ASSUME Init PROVE Promise!Init
  OBVIOUS
<1>1. \A q \in QueryIds : q \notin Issued
  BY DEF Init, Issued, QueryIds
<1>2. \A q \in QueryIds : Status(q) = "none"
  BY <1>1 DEF Status
<1> QED
  BY <1>2 DEF Init, Promise!Init, Promise!QueryIds, QueryIds

\* RpcRequest issues a new query.
LEMMA PromiseIssue ==
  ASSUME IInv, NEW m \in MsgTypes, RpcRequest(m)
  PROVE  Promise!Next
<1>1. PICK n \in QueryIds :
      /\ n \notin Issued /\ Issued' = Issued \cup {n}
      /\ UNCHANGED <<answered, timedOut>> /\ ~stopped /\ stopped' = stopped
  BY RequestEffect DEF RpcRequest, MainIdle, callVars
<1>2. Status(n) = "none"
  BY <1>1 DEF Status
<1>3. Status(n)' = "pending"
  <2>1. answered'[n] = 0 /\ timedOut'[n] = 0 /\ n \in Issued'
    BY <1>1 DEF IInv, CountInv
  <2> QED
    BY <2>1 DEF Status
<1>4. \A q \in QueryIds \ {n} : Status(q)' = Status(q)
  BY <1>1 DEF Status
<1>5. StatusOf' = [StatusOf EXCEPT ![n] = "pending"]
  <2>1. StatusOf' = [q \in QueryIds |-> Status(q)']
    BY DEF StatusOf, QueryIds
  <2> QED
    BY <1>1, <1>3, <1>4, <2>1 DEF StatusOf
<1>6. StatusOf[n] = "none"
  BY <1>1, <1>2 DEF StatusOf
<1>7. Promise!Issue(n)
  BY <1>1, <1>5, <1>6 DEF Promise!Issue, StatusOf
<1> QED
  BY <1>1, <1>7 DEF Promise!Next, Promise!QueryIds, QueryIds

\* The status of all queries after a call of query q's callback.
LEMMA SettledStatus ==
  ASSUME IInv, ~stopped, NEW q \in Issued, Owed(q), Issued' = Issued,
         NEW how,
         \/ how = "answered" /\ answered'[q] = 1 /\ timedOut'[q] = 0
         \/ how = "timedout" /\ answered'[q] = 0 /\ timedOut'[q] = 1,
         \A r \in QueryIds \ {q} : answered'[r] = answered[r] /\ timedOut'[r] = timedOut[r]
  PROVE  StatusOf[q] = "pending" /\ StatusOf' = [StatusOf EXCEPT ![q] = how]
<1>1. q \in QueryIds
  BY IssuedInQueryIds
<1>2. Status(q) = "pending"
  BY OwedIsPending
<1>3. Status(q)' = how
  BY DEF Status
<1>4. \A r \in QueryIds \ {q} : Status(r)' = Status(r)
  BY DEF Status
<1>5. StatusOf' = [r \in QueryIds |-> Status(r)']
  BY DEF StatusOf, QueryIds
<1> QED
  BY <1>1, <1>2, <1>3, <1>4, <1>5 DEF StatusOf

\* A response settles a query that is pending, or is dropped.
LEMMA PromiseAnswer ==
  ASSUME IInv, NEW q \in QueryIds, OnResponse(q)
  PROVE  Promise!Next \/ UNCHANGED <<StatusOf, stopped>>
<1>0. /\ TypeOK /\ HeldInv /\ SweepInv /\ PeerInv /\ CountInv
      /\ ~stopped /\ stopped' = stopped /\ sweepMsg = NoMsg
  BY DEF IInv, OnResponse, MainIdle
<1>1. CASE q \in Held(msgOf[q])
  <2>1. /\ q \in Issued /\ Issued' = Issued /\ msgOf[q] \in MsgTypes
    BY <1>0, IssuedUnchanged DEF OnResponse, PeerInv
  <2>2. Owed(q)
    BY <1>0, <1>1, <2>1 DEF Owed
  <2>3. answered[q] = 0 /\ timedOut[q] = 0
    BY <1>0, <2>1, <2>2, OwedIsPending
  <2>4. answered' = [answered EXCEPT ![q] = answered[q] + 1] /\ timedOut' = timedOut
    BY <1>1 DEF OnResponse, Held, Bump
  <2>5. /\ answered'[q] = 1 /\ timedOut'[q] = 0
        /\ \A r \in QueryIds \ {q} : answered'[r] = answered[r] /\ timedOut'[r] = timedOut[r]
    BY <1>0, <2>3, <2>4 DEF TypeOK
  <2>6. StatusOf[q] = "pending" /\ StatusOf' = [StatusOf EXCEPT ![q] = "answered"]
    BY <1>0, <2>1, <2>2, <2>5, SettledStatus
  <2>7. Promise!Settle(q, "answered")
    BY <1>0, <2>6 DEF Promise!Settle, StatusOf
  <2> QED
    BY <2>7 DEF Promise!Next, Promise!QueryIds, QueryIds
<1>2. CASE q \notin Held(msgOf[q])
  <2>1. UNCHANGED <<m_nQueryId, answered, timedOut>>
    BY <1>2 DEF OnResponse, Held
  <2> QED
    BY <1>0, <2>1, SilentStep
<1> QED
  BY <1>1, <1>2

\* A sweep settles a query that is pending, and may issue another one.
LEMMA PromiseTimeout ==
  ASSUME IInv, NEW q \in QueryIds, TimeoutCall(q)
  PROVE  Promise!Next
<1>0. TypeOK /\ HeldInv /\ SweepInv /\ PeerInv /\ CountInv /\ stopped' = stopped
  BY DEF IInv, TimeoutCall
<1>1. /\ sweepMsg \in MsgTypes /\ ~stopped /\ q \in Issued /\ Owed(q)
  BY <1>0, MsgAssumption DEF TimeoutCall, SweepInv, HeldInv, TypeOK, Owed, Held
<1>2. answered[q] = 0 /\ timedOut[q] = 0
  BY <1>1, OwedIsPending
<1>3. /\ answered'[q] = 0 /\ timedOut'[q] = 1
      /\ \A r \in QueryIds \ {q} : answered'[r] = answered[r] /\ timedOut'[r] = timedOut[r]
  BY <1>0, <1>2 DEF TimeoutCall, TypeOK, Bump
<1>4. CASE m_nQueryId' = m_nQueryId
  <2>1. StatusOf[q] = "pending" /\ StatusOf' = [StatusOf EXCEPT ![q] = "timedout"]
    BY <1>1, <1>3, <1>4, SettledStatus, IssuedUnchanged
  <2>2. Promise!Settle(q, "timedout")
    BY <1>0, <1>1, <2>1 DEF Promise!Settle, StatusOf
  <2> QED
    BY <2>2 DEF Promise!Next, Promise!QueryIds, QueryIds
<1>5. ASSUME NEW m \in MsgTypes, Request(m) PROVE Promise!Next
  <2>1. PICK n \in QueryIds : n \notin Issued /\ Issued' = Issued \cup {n}
    BY <1>5, RequestEffect
  <2>2. n # q /\ Status(n) = "none" /\ Status(q) = "pending"
    BY <1>1, <2>1, OwedIsPending DEF Status
  <2>3. Status(n)' = "pending"
    <3>1. answered'[n] = 0 /\ timedOut'[n] = 0 /\ n \in Issued'
      BY <1>0, <1>3, <2>1, <2>2 DEF CountInv
    <3> QED
      BY <3>1 DEF Status
  <2>4. Status(q)' = "timedout"
    BY <1>1, <1>3, <2>1 DEF Status
  <2>5. \A r \in QueryIds \ {q, n} : Status(r)' = Status(r)
    BY <1>3, <2>1 DEF Status
  <2>6. StatusOf' = [r \in QueryIds |-> Status(r)']
    BY DEF StatusOf, QueryIds
  <2>7. /\ StatusOf[q] = "pending" /\ StatusOf[n] = "none"
        /\ StatusOf' = [StatusOf EXCEPT ![q] = "timedout", ![n] = "pending"]
    BY <2>2, <2>3, <2>4, <2>5, <2>6 DEF StatusOf
  <2>8. Promise!TimeoutAndIssue(q, n)
    BY <1>0, <1>1, <2>7 DEF Promise!TimeoutAndIssue, StatusOf
  <2> QED
    BY <2>1, <2>8 DEF Promise!Next, Promise!QueryIds, QueryIds
<1> QED
  BY <1>4, <1>5 DEF TimeoutCall

\* RpcModule keeps its promise to the callers of RpcRequest (but for liveness):
\* each query goes from pending to answered or to timed out, once.
THEOREM PromiseKept == Spec => KeepsPromise
<1>1. IInv /\ [Next]_vars => [Promise!Next]_(Promise!promiseVars)
  <2> SUFFICES ASSUME IInv, [Next]_vars
               PROVE  Promise!Next \/ UNCHANGED <<StatusOf, stopped>>
    BY DEF Promise!promiseVars, StatusOf
  <2>1. ASSUME NEW m \in MsgTypes, RpcRequest(m) PROVE Promise!Next
    BY <2>1, PromiseIssue
  <2>2. ASSUME NEW q \in QueryIds, OnResponse(q)
        PROVE  Promise!Next \/ UNCHANGED <<StatusOf, stopped>>
    BY <2>2, PromiseAnswer
  <2>3. ASSUME NEW q \in QueryIds, TimeoutCall(q) PROVE Promise!Next
    BY <2>3, PromiseTimeout
  <2>4. ASSUME OnStop PROVE Promise!Next
    <3>1. StatusOf' = StatusOf
      BY <2>4, SilentStep DEF OnStop, callVars
    <3>2. Promise!ShutDown
      BY <2>4, <3>1 DEF OnStop, MainIdle, Promise!ShutDown, StatusOf
    <3> QED
      BY <3>2 DEF Promise!Next
  <2>5. ASSUME \/ \E m \in MsgTypes : TimeoutBegin(m)
               \/ \E q \in QueryIds : PeerReply(q)
               \/ TimeoutEnd
               \/ UNCHANGED vars
        PROVE  UNCHANGED <<StatusOf, stopped>>
    BY <2>5, SilentStep DEF TimeoutBegin, PeerReply, TimeoutEnd, vars, rpcVars, callVars
  <2> QED
    BY <2>1, <2>2, <2>3, <2>4, <2>5 DEF Next, Terminated
<1> QED
  BY <1>1, PromiseInit, InvariantIInv, PTL DEF Spec, KeepsPromise, Promise!Spec
=============================================================================
