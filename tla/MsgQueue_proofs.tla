-------------------------- MODULE MsgQueue_proofs --------------------------
(***************************************************************************)
(* MsgQueue for any number of network threads and packets: types, mutual    *)
(* exclusion of SpinLock, and that the locked vector implements MsgFifo.    *)
(***************************************************************************)
EXTENDS MsgQueue, TLAPS

HandingLabels == {"lock", "spin", "cs", "cs2"}

\* emplace_back's copy is current as long as it is held: nobody else writes.
ReadVecCurrent ==
    \A t \in NetThreads : pc[t] = "cs2" => readVec[t] = m_vecMsgFunction

\* OnUpdate's local vector is empty when it swaps.
LocalEmpty == pc[Main] \notin {"cs2", "unlock", "run"} => vecGetFunction = <<>>

\* Event numbers are those of packets already read, and the event in hand is
\* one that was accepted.
Numbered ==
    /\ \A e \in accepted : e[2] <= received[e[1]]
    /\ \A t \in NetThreads : pc[t] \in HandingLabels => InHand(t) \in accepted

IInv ==
    /\ TypeOK
    /\ LockInv
    /\ ReadVecCurrent
    /\ LocalEmpty
    /\ Numbered

-----------------------------------------------------------------------------

\* The inductive invariant holds initially.
LEMMA InitIInv == Init => IInv
<1> SUFFICES ASSUME Init PROVE IInv
  OBVIOUS
<1>1. TypeOK
  <2>1. 0 \in 0..MaxPackets /\ <<>> \in Seq(Event)
    BY BoundAssumption
  <2>2. /\ received \in [NetThreads -> 0..MaxPackets]
        /\ readVec \in [NetThreads -> Seq(Event)]
        /\ pc \in [Threads -> Labels]
    BY <2>1 DEF Init, Labels
  <2>3. \A t \in NetThreads : pc[t] \notin {"run", "join", "stopped"}
    BY DEF Init, Threads
  <2> QED
    BY <2>1, <2>2, <2>3 DEF Init, TypeOK
<1>2. LockInv
  BY DEF Init, LockInv, Critical, Threads
<1>3. ReadVecCurrent /\ LocalEmpty /\ Numbered
  BY DEF Init, ReadVecCurrent, LocalEmpty, Numbered, HandingLabels, Threads
<1> QED
  BY <1>1, <1>2, <1>3 DEF IInv

\* Every step of a network thread or of the main thread keeps it.
LEMMA NextIInv == IInv /\ [Next]_vars => IInv'
<1> SUFFICES ASSUME IInv, [Next]_vars PROVE IInv'
  OBVIOUS
<1> USE ThreadAssumption, BoundAssumption
<1> USE DEF Threads, Labels, Goto, Event, InHand
<1>0. TypeOK /\ LockInv /\ ReadVecCurrent /\ LocalEmpty /\ Numbered
  BY DEF IInv
<1> USE <1>0
<1>1. ASSUME NEW t \in Threads, Exchange(t) PROVE IInv'
  <2>1. TypeOK' /\ Numbered'
    BY <1>1 DEF TypeOK, Numbered, HandingLabels, Exchange
  <2>2. LockInv'
    BY <1>1 DEF TypeOK, LockInv, Critical, Exchange
  <2>3. ReadVecCurrent' /\ LocalEmpty'
    BY <1>1 DEF TypeOK, LockInv, Critical, ReadVecCurrent, LocalEmpty, Exchange
  <2> QED
    BY <2>1, <2>2, <2>3 DEF IInv
<1>2. ASSUME NEW t \in Threads, SpinExit(t) PROVE IInv'
  <2>1. TypeOK' /\ Numbered'
    BY <1>2 DEF TypeOK, Numbered, HandingLabels, SpinExit
  <2>2. LockInv'
    BY <1>2 DEF TypeOK, LockInv, Critical, SpinExit
  <2>3. ReadVecCurrent' /\ LocalEmpty'
    BY <1>2 DEF TypeOK, LockInv, Critical, ReadVecCurrent, LocalEmpty, SpinExit
  <2> QED
    BY <2>1, <2>2, <2>3 DEF IInv
<1>3. ASSUME NEW t \in Threads, Unlock(t) PROVE IInv'
  <2>1. TypeOK' /\ Numbered'
    BY <1>3 DEF TypeOK, Numbered, HandingLabels, Unlock
  <2>2. LockInv'
    BY <1>3 DEF TypeOK, LockInv, Critical, Unlock
  <2>3. ReadVecCurrent' /\ LocalEmpty'
    BY <1>3 DEF TypeOK, LockInv, Critical, ReadVecCurrent, LocalEmpty, Unlock
  <2> QED
    BY <2>1, <2>2, <2>3 DEF IInv
<1>4. ASSUME NEW t \in NetThreads, ReceivePacket(t) PROVE IInv'
  <2>1. TypeOK' /\ Numbered'
    <3>1. CASE UNCHANGED <<accepted, pc>>
      <4>1. received[t] + 1 \in 0..MaxPackets /\ received' = [received EXCEPT ![t] = received[t] + 1]
        BY <1>4 DEF TypeOK, ReceivePacket
      <4>2. TypeOK'
        BY <1>4, <3>1, <4>1 DEF TypeOK, ReceivePacket
      <4>3. \A u \in NetThreads : received'[u] \in Nat /\ received[u] <= received'[u]
        BY <4>1 DEF TypeOK
      <4>4. \A e \in accepted : e[1] \in NetThreads /\ e[2] \in Nat
        BY DEF TypeOK
      <4>5. \A e \in accepted' : e[2] <= received'[e[1]]
        BY <3>1, <4>3, <4>4 DEF Numbered, TypeOK
      <4>6. \A u \in NetThreads : pc'[u] \in HandingLabels => InHand(u)' \in accepted'
        BY <1>4, <3>1, <4>1 DEF TypeOK, Numbered, HandingLabels, ReceivePacket
      <4> QED
        BY <4>2, <4>5, <4>6 DEF Numbered
    <3>2. CASE accepted' = accepted \cup {<<t, received[t] + 1>>} /\ pc' = [pc EXCEPT ![t] = "lock"]
      <4>1. received[t] + 1 \in 1..MaxPackets /\ received'[t] = received[t] + 1
        BY <1>4 DEF TypeOK, ReceivePacket
      <4>2. TypeOK'
        BY <1>4, <3>2, <4>1 DEF TypeOK, ReceivePacket
      <4>3. \A e \in accepted' : e[2] <= received'[e[1]]
        BY <1>4, <3>2, <4>1 DEF TypeOK, Numbered, ReceivePacket
      <4>4. \A u \in NetThreads : pc'[u] \in HandingLabels => InHand(u)' \in accepted'
        BY <1>4, <3>2, <4>1 DEF TypeOK, Numbered, HandingLabels, ReceivePacket
      <4> QED
        BY <4>2, <4>3, <4>4 DEF Numbered
    <3> QED
      BY <1>4, <3>1, <3>2 DEF ReceivePacket
  <2>2. LockInv'
    BY <1>4 DEF TypeOK, LockInv, Critical, ReceivePacket
  <2>3. ReadVecCurrent' /\ LocalEmpty'
    BY <1>4 DEF TypeOK, LockInv, Critical, ReadVecCurrent, LocalEmpty, ReceivePacket
  <2> QED
    BY <2>1, <2>2, <2>3 DEF IInv
<1>5. ASSUME NEW t \in NetThreads, EmplaceRead(t) PROVE IInv'
  <2>1. TypeOK' /\ Numbered'
    BY <1>5 DEF TypeOK, Numbered, HandingLabels, EmplaceRead
  <2>2. LockInv'
    BY <1>5 DEF TypeOK, LockInv, Critical, EmplaceRead
  <2>3. ReadVecCurrent' /\ LocalEmpty'
    BY <1>5 DEF TypeOK, LockInv, Critical, ReadVecCurrent, LocalEmpty, EmplaceRead
  <2> QED
    BY <2>1, <2>2, <2>3 DEF IInv
<1>6. ASSUME NEW t \in NetThreads, EmplaceWrite(t) PROVE IInv'
  <2>1. TypeOK' /\ Numbered'
    BY <1>6, SMTT(60) DEF TypeOK, Numbered, HandingLabels, EmplaceWrite
  <2>2. LockInv'
    BY <1>6 DEF TypeOK, LockInv, Critical, EmplaceWrite
  <2>3. ReadVecCurrent' /\ LocalEmpty'
    BY <1>6 DEF TypeOK, LockInv, Critical, ReadVecCurrent, LocalEmpty, EmplaceWrite
  <2> QED
    BY <2>1, <2>2, <2>3 DEF IInv
<1>7. ASSUME UpdateBegin PROVE IInv'
  <2>1. TypeOK' /\ Numbered'
    BY <1>7 DEF TypeOK, Numbered, HandingLabels, UpdateBegin
  <2>2. LockInv'
    BY <1>7 DEF TypeOK, LockInv, Critical, UpdateBegin
  <2>3. ReadVecCurrent' /\ LocalEmpty'
    BY <1>7 DEF TypeOK, LockInv, Critical, ReadVecCurrent, LocalEmpty, UpdateBegin
  <2> QED
    BY <2>1, <2>2, <2>3 DEF IInv
<1>8. ASSUME SwapTake PROVE IInv'
  <2>1. TypeOK' /\ Numbered'
    BY <1>8 DEF TypeOK, Numbered, HandingLabels, SwapTake
  <2>2. LockInv'
    BY <1>8 DEF TypeOK, LockInv, Critical, SwapTake
  <2>3. ReadVecCurrent' /\ LocalEmpty'
    BY <1>8 DEF TypeOK, LockInv, Critical, ReadVecCurrent, LocalEmpty, SwapTake
  <2> QED
    BY <2>1, <2>2, <2>3 DEF IInv
<1>9. ASSUME SwapClear PROVE IInv'
  <2>1. TypeOK' /\ Numbered'
    BY <1>9 DEF TypeOK, Numbered, HandingLabels, SwapClear
  <2>2. LockInv'
    BY <1>9 DEF TypeOK, LockInv, Critical, SwapClear
  <2>3. ReadVecCurrent' /\ LocalEmpty'
    BY <1>9 DEF TypeOK, LockInv, Critical, ReadVecCurrent, LocalEmpty, SwapClear
  <2> QED
    BY <2>1, <2>2, <2>3 DEF IInv
<1>10. ASSUME CallNext PROVE IInv'
  <2>a. ASSUME NEW S, NEW s \in Seq(S), NEW c \in Seq(S), s # <<>>
        PROVE  Tail(s) \in Seq(S) /\ Append(c, Head(s)) \in Seq(S)
    BY <2>a
  <2>b. vecGetFunction' \in Seq(Event) /\ called' \in Seq(Event)
    <3>1. vecGetFunction \in Seq(Event) /\ called \in Seq(Event)
      BY DEF TypeOK
    <3>2. vecGetFunction # <<>> /\ vecGetFunction' = Tail(vecGetFunction)
          /\ called' = Append(called, Head(vecGetFunction))
      BY <1>10 DEF CallNext
    <3> HIDE DEF Event
    <3> QED
      BY <2>a, <3>1, <3>2
  <2>c. UNCHANGED <<m_atomic_bool, pc, received, accepted, m_vecMsgFunction,
                    readVec, m_onStop>>
    BY <1>10 DEF CallNext
  <2>1. TypeOK' /\ Numbered'
    BY <2>b, <2>c DEF TypeOK, Numbered, HandingLabels
  <2>2. LockInv'
    BY <1>10 DEF TypeOK, LockInv, Critical, CallNext
  <2>3. ReadVecCurrent' /\ LocalEmpty'
    BY <1>10 DEF TypeOK, LockInv, Critical, ReadVecCurrent, LocalEmpty, CallNext
  <2> QED
    BY <2>1, <2>2, <2>3 DEF IInv
<1>11. ASSUME UpdateEnd PROVE IInv'
  <2>1. TypeOK' /\ Numbered'
    BY <1>11 DEF TypeOK, Numbered, HandingLabels, UpdateEnd
  <2>2. LockInv'
    BY <1>11 DEF TypeOK, LockInv, Critical, UpdateEnd
  <2>3. ReadVecCurrent' /\ LocalEmpty'
    BY <1>11 DEF TypeOK, LockInv, Critical, ReadVecCurrent, LocalEmpty, UpdateEnd
  <2> QED
    BY <2>1, <2>2, <2>3 DEF IInv
<1>12. ASSUME RequestStop PROVE IInv'
  <2>1. TypeOK' /\ Numbered'
    BY <1>12 DEF TypeOK, Numbered, HandingLabels, RequestStop
  <2>2. LockInv'
    BY <1>12 DEF TypeOK, LockInv, Critical, RequestStop
  <2>3. ReadVecCurrent' /\ LocalEmpty'
    BY <1>12 DEF TypeOK, LockInv, Critical, ReadVecCurrent, LocalEmpty, RequestStop
  <2> QED
    BY <2>1, <2>2, <2>3 DEF IInv
<1>13. ASSUME StopBegin PROVE IInv'
  <2>1. TypeOK' /\ Numbered'
    BY <1>13 DEF TypeOK, Numbered, HandingLabels, StopBegin
  <2>2. LockInv'
    BY <1>13 DEF TypeOK, LockInv, Critical, StopBegin
  <2>3. ReadVecCurrent' /\ LocalEmpty'
    BY <1>13 DEF TypeOK, LockInv, Critical, ReadVecCurrent, LocalEmpty, StopBegin
  <2> QED
    BY <2>1, <2>2, <2>3 DEF IInv
<1>14. ASSUME StopEnd PROVE IInv'
  <2>1. TypeOK' /\ Numbered'
    BY <1>14 DEF TypeOK, Numbered, HandingLabels, StopEnd
  <2>2. LockInv'
    BY <1>14 DEF TypeOK, LockInv, Critical, StopEnd
  <2>3. ReadVecCurrent' /\ LocalEmpty'
    BY <1>14 DEF TypeOK, LockInv, Critical, ReadVecCurrent, LocalEmpty, StopEnd
  <2> QED
    BY <2>1, <2>2, <2>3 DEF IInv
<1>15. ASSUME UNCHANGED vars PROVE IInv'
  <2>1. TypeOK' /\ Numbered'
    BY <1>15 DEF TypeOK, Numbered, HandingLabels, vars
  <2>2. LockInv'
    BY <1>15 DEF TypeOK, LockInv, Critical, vars
  <2>3. ReadVecCurrent' /\ LocalEmpty'
    BY <1>15 DEF TypeOK, LockInv, Critical, ReadVecCurrent, LocalEmpty, vars
  <2> QED
    BY <2>1, <2>2, <2>3 DEF IInv
<1> QED
  BY <1>1, <1>2, <1>3, <1>4, <1>5, <1>6, <1>7, <1>8, <1>9, <1>10, <1>11, <1>12, <1>13, <1>14, <1>15
  DEF Next, NetStep, LockStep, MainStep, Terminated

-----------------------------------------------------------------------------
\* The inductive invariant holds in every reachable state.
LEMMA InvariantIInv == Spec => []IInv
  BY InitIInv, NextIInv, PTL DEF Spec

\* Type correctness of the queue for any number of network threads.
THEOREM TypeCorrect == Spec => []TypeOK
<1>1. IInv => TypeOK
  BY DEF IInv
<1> QED
  BY <1>1, InvariantIInv, PTL

\* SpinLock's exchange excludes: no two threads are inside lock_guard scopes of
\* m_lockMsgFunction at once, whatever the number of network threads.
THEOREM MutualExclusion == Spec => []LockInv
<1>1. IInv => LockInv
  BY DEF IInv
<1> QED
  BY <1>1, InvariantIInv, PTL

-----------------------------------------------------------------------------
(* The refinement of MsgFifo                                               *)

\* Taking the oldest element of a concatenation takes it from the first part.
LEMMA HeadOfConcat ==
  ASSUME NEW S, NEW s \in Seq(S), NEW t \in Seq(S), s # <<>>
  PROVE  s \o t # <<>> /\ Head(s \o t) = Head(s) /\ Tail(s \o t) = Tail(s) \o t
<1>1. s \o t # <<>> /\ Head(s \o t) = Head(s)
  OBVIOUS
<1>2. Tail(s \o t) = Tail(s) \o t
  BY SMTT(30)
<1> QED
  BY <1>1, <1>2

\* Appending to the second part of a concatenation appends to the whole.
LEMMA AppendOfConcat ==
  ASSUME NEW S, NEW s \in Seq(S), NEW t \in Seq(S), NEW e \in S
  PROVE  s \o Append(t, e) = Append(s \o t, e)
  OBVIOUS

\* A step that leaves the events and every thread's handing alone changes
\* nothing that has been handed over.
LEMMA HandedOverUnchanged ==
  ASSUME UNCHANGED <<accepted, received>>,
         \A t \in NetThreads : pc'[t] \in HandingLabels <=> pc[t] \in HandingLabels
  PROVE  HandedOver' = HandedOver
  BY DEF HandedOver, Handing, InHand, HandingLabels

\* The initial states of MsgQueue are initial states of MsgFifo.
LEMMA FifoInit == Init => Fifo!Init
<1> SUFFICES ASSUME Init PROVE Fifo!Init
  OBVIOUS
<1>1. HandedOver = {}
  BY DEF Init, HandedOver
<1>2. Waiting = <<>>
  BY ThreadAssumption DEF Init, Waiting, Threads
<1> QED
  BY <1>1, <1>2 DEF Init, Fifo!Init

\* The write half of emplace_back is the moment a packet is handed over.
LEMMA FifoPost ==
  ASSUME IInv, NEW t \in NetThreads, EmplaceWrite(t)
  PROVE  Fifo!Post(t, received[t]) /\ received[t] \in 1..MaxPackets
<1> USE ThreadAssumption DEF Threads, Goto
<1>0. /\ TypeOK /\ LockInv /\ ReadVecCurrent /\ Numbered
  BY DEF IInv
<1>1. pc[t] = "cs2" /\ pc' = [pc EXCEPT ![t] = "unlock"]
  BY DEF EmplaceWrite
<1>2. InHand(t) \in accepted /\ InHand(t) \in Event
  BY <1>0, <1>1 DEF Numbered, HandingLabels, TypeOK
<1>3. received[t] \in 1..MaxPackets
  BY <1>2 DEF InHand, Event
<1>4. \A e \in HandedOver : e[1] = t => e[2] < received[t]
  <2> SUFFICES ASSUME NEW e \in HandedOver, e[1] = t PROVE e[2] < received[t]
    OBVIOUS
  <2>1. e \in accepted /\ e \notin Handing /\ e \in Event
    BY <1>0 DEF HandedOver, TypeOK
  <2>2. e = <<t, e[2]>> /\ e[2] \in 1..MaxPackets
    BY <2>1 DEF Event
  <2>3. e # <<t, received[t]>>
    BY <1>1, <2>1 DEF Handing, InHand
  <2>4. e[2] <= received[t]
    BY <1>0, <2>1 DEF Numbered
  <2> QED
    BY <1>3, <2>2, <2>3, <2>4, BoundAssumption
<1>5. HandedOver' = HandedOver \cup {<<t, received[t]>>}
  <2>1. UNCHANGED <<accepted, received>>
    BY DEF EmplaceWrite
  <2>2. \A u \in NetThreads : u # t => pc'[u] = pc[u]
    BY <1>0, <1>1 DEF TypeOK
  <2>3. pc'[t] = "unlock"
    BY <1>0, <1>1 DEF TypeOK
  <2>4. Handing' = Handing \ {<<t, received[t]>>}
    BY <1>1, <2>1, <2>2, <2>3 DEF Handing, InHand
  <2>5. <<t, received[t]>> \in Handing
    BY <1>1 DEF Handing, InHand
  <2> QED
    BY <1>2, <2>1, <2>4, <2>5 DEF HandedOver, InHand
<1>6. Waiting' = Append(Waiting, <<t, received[t]>>) /\ called' = called
  <2>1. pc[Main] # "cs2" /\ pc'[Main] # "cs2"
    BY <1>0, <1>1 DEF LockInv, Critical, TypeOK
  <2>2. m_vecMsgFunction' = Append(m_vecMsgFunction, <<t, received[t]>>)
    BY <1>0, <1>1 DEF EmplaceWrite, ReadVecCurrent, InHand
  <2>3. vecGetFunction' = vecGetFunction /\ called' = called
    BY DEF EmplaceWrite
  <2> QED
    BY <1>0, <1>2, <2>1, <2>2, <2>3, AppendOfConcat, SMTT(60) DEF Waiting, TypeOK, InHand
<1> QED
  BY <1>3, <1>4, <1>5, <1>6 DEF Fifo!Post

\* Each closure OnUpdate calls is the oldest one handed over.
LEMMA FifoCall ==
  ASSUME IInv, CallNext
  PROVE  Fifo!Call
<1>0. TypeOK /\ pc' = pc /\ pc[Main] = "run"
  BY DEF IInv, CallNext
<1>1. HandedOver' = HandedOver
  BY HandedOverUnchanged DEF CallNext
<1>2. Waiting = vecGetFunction \o m_vecMsgFunction
  BY <1>0 DEF Waiting
<1>3. Waiting' = Tail(vecGetFunction) \o m_vecMsgFunction
  BY <1>0 DEF Waiting, CallNext
<1>4. Waiting # <<>> /\ Head(Waiting) = Head(vecGetFunction) /\ Waiting' = Tail(Waiting)
  BY <1>0, <1>2, <1>3, HeadOfConcat, ZenonT(60) DEF TypeOK, CallNext
<1> QED
  BY <1>1, <1>4 DEF Fifo!Call, CallNext

\* Every other step is invisible: taking the batch moves events without
\* reordering them, and locking, parsing and stopping move none.
LEMMA FifoStutter ==
  ASSUME IInv, [Next]_vars,
         ~ CallNext, \A t \in NetThreads : ~ EmplaceWrite(t)
  PROVE  UNCHANGED <<HandedOver, Waiting, called>>
<1> USE ThreadAssumption DEF Threads, Goto
<1>0. TypeOK /\ LockInv /\ LocalEmpty /\ Numbered
  BY DEF IInv
<1>1. ASSUME NEW t \in Threads, LockStep(t) PROVE UNCHANGED <<HandedOver, Waiting, called>>
  <2>1. HandedOver' = HandedOver
    BY <1>0, <1>1, HandedOverUnchanged
    DEF LockStep, Exchange, SpinExit, Unlock, HandingLabels, TypeOK
  <2>2. Waiting' = Waiting
    BY <1>0, <1>1 DEF LockStep, Exchange, SpinExit, Unlock, Waiting, TypeOK
  <2> QED
    BY <1>1, <2>1, <2>2 DEF LockStep, Exchange, SpinExit, Unlock
<1>2. ASSUME NEW t \in NetThreads, ReceivePacket(t) PROVE UNCHANGED <<HandedOver, Waiting, called>>
  <2>1. Waiting' = Waiting /\ called' = called
    BY <1>0, <1>2 DEF ReceivePacket, Waiting, TypeOK
  <2>2. \A u \in NetThreads : u # t => received'[u] = received[u] /\ pc'[u] = pc[u]
    BY <1>0, <1>2 DEF ReceivePacket, TypeOK
  <2>3. CASE UNCHANGED <<accepted, pc>>
    <3>1. Handing' = Handing
      BY <1>0, <1>2, <2>2, <2>3 DEF ReceivePacket, Handing, InHand, TypeOK
    <3> QED
      BY <2>1, <2>3, <3>1 DEF HandedOver
  <2>4. CASE accepted' = accepted \cup {<<t, received[t] + 1>>} /\ pc' = [pc EXCEPT ![t] = "lock"]
    <3>1. received'[t] = received[t] + 1 /\ pc[t] = "idle" /\ pc'[t] = "lock"
      BY <1>0, <1>2, <2>4 DEF ReceivePacket, TypeOK
    <3>2. Handing' = Handing \cup {<<t, received[t] + 1>>}
      BY <2>2, <3>1 DEF Handing, InHand
    <3>3. <<t, received[t] + 1>> \notin accepted
      BY <1>0, BoundAssumption DEF Numbered, TypeOK
    <3> QED
      BY <2>1, <2>4, <3>2, <3>3 DEF HandedOver
  <2> QED
    BY <1>2, <2>3, <2>4 DEF ReceivePacket
<1>3. ASSUME NEW t \in NetThreads, EmplaceRead(t) PROVE UNCHANGED <<HandedOver, Waiting, called>>
  <2>1. HandedOver' = HandedOver
    BY <1>0, <1>3, HandedOverUnchanged DEF EmplaceRead, HandingLabels, TypeOK
  <2> QED
    BY <1>0, <1>3, <2>1 DEF EmplaceRead, Waiting, TypeOK
<1>4. CASE SwapTake
  <2>1. HandedOver' = HandedOver
    BY <1>0, <1>4, HandedOverUnchanged DEF SwapTake, HandingLabels, TypeOK
  <2>2. Waiting = m_vecMsgFunction /\ Waiting' = m_vecMsgFunction
    BY <1>0, <1>4 DEF SwapTake, Waiting, LocalEmpty, TypeOK
  <2> QED
    BY <1>4, <2>1, <2>2 DEF SwapTake
<1>5. CASE SwapClear
  <2>1. HandedOver' = HandedOver
    BY <1>0, <1>5, HandedOverUnchanged DEF SwapClear, HandingLabels, TypeOK
  <2> QED
    BY <1>0, <1>5, <2>1 DEF SwapClear, Waiting, TypeOK
<1>6. CASE UpdateBegin \/ UpdateEnd \/ StopBegin \/ StopEnd \/ RequestStop
  <2>1. HandedOver' = HandedOver
    BY <1>0, <1>6, HandedOverUnchanged
    DEF UpdateBegin, UpdateEnd, StopBegin, StopEnd, RequestStop, HandingLabels, TypeOK
  <2> QED
    BY <1>0, <1>6, <2>1
    DEF UpdateBegin, UpdateEnd, StopBegin, StopEnd, RequestStop, Waiting, TypeOK
<1>7. CASE UNCHANGED vars
  <2>1. HandedOver' = HandedOver
    BY <1>7, HandedOverUnchanged DEF vars
  <2> QED
    BY <1>7, <2>1 DEF vars, Waiting
<1> QED
  BY <1>1, <1>2, <1>3, <1>4, <1>5, <1>6, <1>7 DEF Next, NetStep, MainStep, Terminated

\* The locked vector with its swap is a correct queue: whatever the number of
\* network threads and however their steps interleave with OnUpdate, the main
\* thread calls every packet once and in the order of hand-over.
THEOREM Refinement == Spec => ImplementsFifo
<1>1. IInv /\ [Next]_vars => [Fifo!Next]_(Fifo!fifoVars)
  <2> SUFFICES ASSUME IInv, [Next]_vars PROVE [Fifo!Next]_(Fifo!fifoVars)
    OBVIOUS
  <2>1. ASSUME NEW t \in NetThreads, EmplaceWrite(t) PROVE Fifo!Next
    BY <2>1, FifoPost DEF Fifo!Next
  <2>2. CASE CallNext
    BY <2>2, FifoCall DEF Fifo!Next
  <2>3. CASE ~ CallNext /\ \A t \in NetThreads : ~ EmplaceWrite(t)
    BY <2>3, FifoStutter DEF Fifo!fifoVars
  <2> QED
    BY <2>1, <2>2, <2>3
<1> QED
  BY <1>1, FifoInit, InvariantIInv, PTL DEF Spec, ImplementsFifo, Fifo!Spec
-----------------------------------------------------------------------------
(* What the refinement says of the whole pipeline                          *)

\* The events of q are those of the set, each once, and those of one thread are
\* in the order of their numbers.
OnceInOrder(q, events) ==
    /\ {q[i] : i \in 1..Len(q)} = events
    /\ \A i, j \in 1..Len(q) : i < j /\ q[i][1] = q[j][1] => q[i][2] < q[j][2]

\* An event that is later than all of its thread may be appended.
LEMMA AppendInOrder ==
  ASSUME NEW q \in Seq(Event), NEW events, OnceInOrder(q, events), NEW e \in Event,
         \A d \in events : d[1] = e[1] => d[2] < e[2],
         NEW r, r = Append(q, e)
  PROVE  OnceInOrder(r, events \cup {e})
<1> HIDE DEF Event
<1>1. /\ Len(q) \in Nat /\ Len(r) = Len(q) + 1
      /\ \A i \in 1..Len(q) : r[i] = q[i]
      /\ r[Len(q) + 1] = e
  OBVIOUS
<1>2. \A i \in 1..Len(r) : i \in 1..Len(q) \/ i = Len(q) + 1
  BY <1>1
<1>3. \A i \in 1..Len(q) : q[i] \in events /\ r[i] \in events
  BY <1>1 DEF OnceInOrder
<1>4. {r[i] : i \in 1..Len(r)} = events \cup {e}
  <2>1. \A i \in 1..Len(r) : r[i] \in events \cup {e}
    BY <1>1, <1>2, <1>3
  <2>2. \A d \in events \cup {e} : \E i \in 1..Len(r) : r[i] = d
    <3> SUFFICES ASSUME NEW d \in events \cup {e}
                 PROVE  \E i \in 1..Len(r) : r[i] = d
      OBVIOUS
    <3>1. CASE d = e
      <4>1. Len(q) + 1 \in 1..Len(r)
        BY <1>1
      <4> QED
        BY <1>1, <3>1, <4>1
    <3>2. CASE d \in events
      <4>1. PICK i \in 1..Len(q) : q[i] = d
        BY <3>2 DEF OnceInOrder
      <4>2. i \in 1..Len(r)
        BY <1>1
      <4> QED
        BY <1>1, <4>1, <4>2
    <3> QED
      BY <3>1, <3>2
  <2> QED
    BY <2>1, <2>2
<1>5. ASSUME NEW i \in 1..Len(r), NEW j \in 1..Len(r), i < j, r[i][1] = r[j][1]
      PROVE  r[i][2] < r[j][2]
  <2>1. i \in 1..Len(q)
    BY <1>1, <1>5
  <2>2. CASE j \in 1..Len(q)
    BY <1>1, <1>5, <2>1, <2>2 DEF OnceInOrder
  <2>3. CASE j = Len(q) + 1
    BY <1>1, <1>3, <1>5, <2>1, <2>3
  <2> QED
    BY <1>2, <2>2, <2>3
<1> QED
  BY <1>4, <1>5 DEF OnceInOrder

\* Calling the oldest event moves it over the border between what was called and
\* what waits.
LEMMA BorderMoves ==
  ASSUME NEW S, NEW c \in Seq(S), NEW w \in Seq(S), w # <<>>
  PROVE  Append(c, Head(w)) \o Tail(w) = c \o w
  BY SMTT(30)

\* Every step keeps what was called and what waits, together, once and in order.
LEMMA PipelineKept ==
  ASSUME IInv, [Next]_vars, OnceInOrder(Pipeline, HandedOver)
  PROVE  OnceInOrder(Pipeline, HandedOver)'
<1>1. TypeOK
  BY DEF IInv
<1>2. Waiting \in Seq(Event) /\ called \in Seq(Event)
  BY <1>1 DEF TypeOK, Waiting
<1>3. PICK c \in Seq(Event), w \in Seq(Event), events \in {HandedOver} :
          c = called /\ w = Waiting /\ events = HandedOver
  BY <1>2
<1>4. OnceInOrder(c \o w, events)
  BY <1>3 DEF Pipeline
<1>5. ASSUME NEW t \in NetThreads, EmplaceWrite(t)
      PROVE  OnceInOrder(Pipeline', HandedOver')
  <2>1. Fifo!Post(t, received[t]) /\ received[t] \in 1..MaxPackets
    BY <1>5, FifoPost
  <2>2. PICK e \in Event : e = <<t, received[t]>>
    BY <2>1 DEF Event
  <2>3. /\ \A d \in events : d[1] = e[1] => d[2] < e[2]
        /\ HandedOver' = events \cup {e}
        /\ Waiting' = Append(w, e)
        /\ called' = c
    BY <1>3, <2>1, <2>2 DEF Fifo!Post
  <2>4. Pipeline' = Append(c \o w, e)
    BY <2>3, AppendOfConcat DEF Pipeline
  <2>5. c \o w \in Seq(Event)
    OBVIOUS
  <2> QED
    BY <1>4, <2>3, <2>4, <2>5, AppendInOrder
<1>6. CASE CallNext
  <2>1. /\ w # <<>> /\ called' = Append(c, Head(w)) /\ Waiting' = Tail(w)
        /\ HandedOver' = events
    BY <1>3, <1>6, FifoCall DEF Fifo!Call
  <2>2. Pipeline' = c \o w
    BY <2>1, BorderMoves DEF Pipeline
  <2> QED
    BY <1>4, <2>1, <2>2
<1>7. CASE ~ CallNext /\ \A t \in NetThreads : ~ EmplaceWrite(t)
  <2>1. UNCHANGED <<HandedOver, Waiting, called>>
    BY <1>7, FifoStutter
  <2> QED
    BY <1>3, <1>4, <2>1 DEF Pipeline
<1> QED
  BY <1>5, <1>6, <1>7

\* Every packet that passed the parser's checks and was handed over is called
\* once or waits to be called once, and those of one network thread keep their
\* order, for any number of threads and packets.
THEOREM OnceAndInOrder == Spec => []ExactlyOnceInOrder
<1>1. Init => OnceInOrder(Pipeline, HandedOver)
  <2> SUFFICES ASSUME Init PROVE OnceInOrder(Pipeline, HandedOver)
    OBVIOUS
  <2>1. HandedOver = {} /\ Waiting = <<>> /\ called = <<>>
    BY FifoInit DEF Fifo!Init
  <2>2. Pipeline = <<>>
    BY <2>1 DEF Pipeline
  <2> QED
    BY <2>1, <2>2 DEF OnceInOrder
<1>2. IInv /\ OnceInOrder(Pipeline, HandedOver) /\ [Next]_vars
        => OnceInOrder(Pipeline, HandedOver)'
  BY PipelineKept
<1>3. OnceInOrder(Pipeline, HandedOver) => ExactlyOnceInOrder
  BY DEF OnceInOrder, ExactlyOnceInOrder
<1> QED
  BY <1>1, <1>2, <1>3, InvariantIInv, PTL DEF Spec
=============================================================================
