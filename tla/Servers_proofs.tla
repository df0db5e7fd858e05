---------------------------- MODULE Servers_proofs ----------------------------
(***************************************************************************)
(* Proofs about the two modules built on the server list.                   *)
(*                                                                         *)
(* ServiceGovernment, for every server list, every set of session ids and   *)
(* every bound on what is under way: of the servers that this one connects  *)
(* to and that do not connect to it, the list never hands out a session     *)
(* that the main loop has forgotten, and no server of the connect list is   *)
(* given up without a connect that ended in silence.                        *)
(*                                                                         *)
(* Login, for any clients, users and logic servers, and any numbers of      *)
(* logins and restarts: the maps of the gate server keep to each other and  *)
(* to those of the logic servers.                                           *)
(***************************************************************************)
EXTENDS ServiceGovernment, Login, FiniteSetTheorems, SequenceTheorems, TLAPS

States == {"lost", "sent", "back"}

(***************************************************************************)
(* The inductive invariant. Every handler that takes its turn leaves        *)
(* something behind that has a turn to come, so Supervised needs no more     *)
(* than the types; the list forgets a session in the step in which the main *)
(* loop does, or before.                                                    *)
(***************************************************************************)
IInv == TypeOK /\ NoDeadSession /\ Supervised
-----------------------------------------------------------------------------
(* What the steps do to the parts                                          *)

\* Taking the first handler leaves a queue of handlers.
LEMMA DoneKeepsType ==
    ASSUME NEW p \in Listed, TypeOK, mainQ[p] # <<>>, Done(p)
    PROVE  mainQ' \in [Listed -> Seq(Events)]
<1>1. mainQ \in [Listed -> Seq(Events)]
  BY DEF TypeOK
<1>2. Tail(mainQ[p]) \in Seq(Events)
  <2>1. \A q \in Seq(Events) : q # <<>> => Tail(q) \in Seq(Events)
    OBVIOUS
  <2> QED
    BY <1>1, <2>1
<1> QED
  BY <1>1, <1>2 DEF Done

\* So does posting one, and the queue of that server is not empty then.
LEMMA PostKeepsType ==
    ASSUME NEW p \in Listed, NEW e \in Events, TypeOK, Post(p, e)
    PROVE  /\ mainQ' \in [Listed -> Seq(Events)]
           /\ mainQ'[p] # <<>>
           /\ \A q \in Listed : q # p => mainQ'[q] = mainQ[q]
<1>1. mainQ \in [Listed -> Seq(Events)]
  BY DEF TypeOK
<1>2. Append(mainQ[p], e) \in Seq(Events) /\ Append(mainQ[p], e) # <<>>
  <2>1. \A q \in Seq(Events) : Append(q, e) \in Seq(Events) /\ Append(q, e) # <<>>
    <3>1. \A q \in Seq(Events) : Append(q, e) \in Seq(Events) /\ Append(q, e)[Len(q) + 1] = e
                                 /\ Len(Append(q, e)) = Len(q) + 1 /\ Len(q) \in Nat
      OBVIOUS
    <3>2. \A q \in Seq(Events) : Len(Append(q, e)) # 0
      BY <3>1
    <3> QED
      BY <3>1, <3>2
  <2> QED
    BY <1>1, <2>1
<1> QED
  BY <1>1, <1>2 DEF Post

\* A heartbeat that starts is counted, as one that was sent or as a lost one.
LEMMA BeatStarts ==
    ASSUME NEW p \in Listed, NEW s \in Ids \cup {0}, NEW known, TypeOK,
           OnHeartbeat(p, s, known)
    PROVE  /\ beats' \in [Listed -> [Beats -> Nat]]
           /\ \E b \in Beats : beats'[p][b] > 0
           /\ \A q \in Listed : q # p => beats'[q] = beats[q]
<1>1. PICK b \in Beats : beats' = [beats EXCEPT ![p][b] = @ + 1]
  <2>1. <<s, "sent">> \in Beats /\ <<s, "lost">> \in Beats
    BY DEF Beats
  <2>2. CASE s \in known
    BY <2>1, <2>2 DEF OnHeartbeat
  <2>3. CASE s \notin known
    BY <2>1, <2>3 DEF OnHeartbeat
  <2> QED
    BY <2>2, <2>3
<1>2. beats \in [Listed -> [Beats -> Nat]] /\ beats[p] \in [Beats -> Nat] /\ beats[p][b] \in Nat
  BY DEF TypeOK
<1>3. beats' = [beats EXCEPT ![p] = [beats[p] EXCEPT ![b] = beats[p][b] + 1]]
  BY <1>1
<1>4. beats'[p][b] = beats[p][b] + 1
  BY <1>2, <1>3
<1> QED
  BY <1>2, <1>3, <1>4

\* One that ends is counted no more.
LEMMA BeatEnds ==
    ASSUME NEW p \in Listed, NEW b \in Beats, TypeOK, beats[p][b] > 0,
           beats' = [beats EXCEPT ![p][b] = @ - 1]
    PROVE  /\ beats' \in [Listed -> [Beats -> Nat]]
           /\ \A q \in Listed : q # p => beats'[q] = beats[q]
<1>1. beats \in [Listed -> [Beats -> Nat]] /\ beats[p] \in [Beats -> Nat] /\ beats[p][b] \in Nat
  BY DEF TypeOK
<1>2. beats[p][b] - 1 \in Nat
  BY <1>1
<1>3. beats' = [beats EXCEPT ![p] = [beats[p] EXCEPT ![b] = beats[p][b] - 1]]
  OBVIOUS
<1> QED
  BY <1>1, <1>2, <1>3

\* One that the peer has handled is a heartbeat still.
LEMMA BeatComesBack ==
    ASSUME NEW p \in Listed, NEW b \in Beats, NEW c \in Beats, b # c, TypeOK,
           beats[p][b] > 0,
           beats' = [beats EXCEPT ![p][b] = @ - 1, ![p][c] = @ + 1]
    PROVE  /\ beats' \in [Listed -> [Beats -> Nat]]
           /\ \E d \in Beats : beats'[p][d] > 0
           /\ \A q \in Listed : q # p => beats'[q] = beats[q]
<1>1. beats \in [Listed -> [Beats -> Nat]] /\ beats[p] \in [Beats -> Nat]
      /\ beats[p][b] \in Nat /\ beats[p][c] \in Nat
  BY DEF TypeOK
<1>2. beats[p][b] - 1 \in Nat /\ beats[p][c] + 1 \in Nat /\ beats[p][c] + 1 > 0
  BY <1>1
<1>3. beats' = [beats EXCEPT ![p] = [beats[p] EXCEPT ![b] = beats[p][b] - 1,
                                                     ![c] = beats[p][c] + 1]]
  BY <1>1
<1>4. beats'[p][c] = beats[p][c] + 1
  BY <1>1, <1>3
<1> QED
  BY <1>1, <1>2, <1>3, <1>4

\* What is known of the other servers stays as it is.
LEMMA OthersStay ==
    ASSUME NEW p \in Peers, IInv,
           \A q \in Peers : q # p =>
               /\ nSessionId'[q] = nSessionId[q]
               /\ m_mapSession'[q] = m_mapSession[q]
               /\ mainQ'[q] = mainQ[q]
               /\ connecting'[q] = connecting[q]
               /\ unnamed'[q] = unnamed[q]
               /\ beats'[q] = beats[q]
               /\ q \in timerHeartbeat => q \in timerHeartbeat'
               /\ q \in timerReconnect => q \in timerReconnect'
               /\ q \in unreported => q \in unreported'
               /\ q \in unreported' => q \in unreported,
           p \in Dialers \/ nSessionId'[p] \in m_mapSession'[p] \cup {0},
           \/ p \in unreported'
           \/ p \in timerHeartbeat' \cup timerReconnect'
           \/ mainQ'[p] # <<>>
           \/ connecting'[p] + unnamed'[p] > 0
           \/ \E b \in Beats : beats'[p][b] > 0
    PROVE  NoDeadSession' /\ Supervised'
<1>1. NoDeadSession'
  <2> SUFFICES ASSUME NEW q \in Peers \ Dialers, nSessionId'[q] # 0
               PROVE  nSessionId'[q] \in m_mapSession'[q]
    BY DEF NoDeadSession
  <2> QED
    BY DEF IInv, NoDeadSession
<1>2. Supervised'
  <2> SUFFICES ASSUME NEW q \in Peers, q \notin unreported'
               PROVE  \/ q \in timerHeartbeat' \cup timerReconnect'
                      \/ mainQ'[q] # <<>>
                      \/ connecting'[q] + unnamed'[q] > 0
                      \/ \E b \in Beats : beats'[q][b] > 0
    BY DEF Supervised
  <2>1. CASE q = p
    BY <2>1
  <2>2. CASE q # p
    <3>1. \/ q \in timerHeartbeat \cup timerReconnect
          \/ mainQ[q] # <<>>
          \/ connecting[q] + unnamed[q] > 0
          \/ \E b \in Beats : beats[q][b] > 0
      BY <2>2 DEF IInv, Supervised
    <3> QED
      BY <2>2, <3>1
  <2> QED
    BY <2>1, <2>2
<1> QED
  BY <1>1, <1>2
-----------------------------------------------------------------------------
(* One lemma for each action                                               *)

\* A first attempt that succeeds leaves its announcement in the queue.
LEMMA StepConnectOk ==
    ASSUME IInv, NEW p \in Peers, NEW s \in Ids, ConnectOk(p, s)
    PROVE  IInv'
<1> USE DEF IInv, Listed
<1>1. <<"connected", s>> \in Events
  BY DEF Events
<1>2. /\ mainQ' \in [Listed -> Seq(Events)]
      /\ mainQ'[p] # <<>>
      /\ \A q \in Listed : q # p => mainQ'[q] = mainQ[q]
  BY <1>1, PostKeepsType DEF ConnectOk
<1>3. TypeOK'
  <2>1. connecting \in [Listed -> Nat] /\ connecting[p] \in Nat
    BY DEF TypeOK
  <2>2. connecting' \in [Listed -> Nat]
    BY <2>1 DEF ConnectOk
  <2> QED
    BY <1>2, <2>2 DEF ConnectOk, TypeOK, timers, inbound
<1>4. NoDeadSession' /\ Supervised'
  BY <1>2, OthersStay DEF ConnectOk, TypeOK, timers, inbound, NoDeadSession
<1> QED
  BY <1>3, <1>4

\* A first attempt that fails leaves a session without an id, or goes unreported.
LEMMA StepConnectSecond ==
    ASSUME IInv, NEW p \in Peers, ConnectSecond(p)
    PROVE  IInv'
<1> USE DEF IInv, Listed
<1>1. TypeOK'
  <2>1. connecting \in [Listed -> Nat] /\ connecting[p] \in Nat
        /\ unnamed \in [Listed -> Nat] /\ unnamed[p] \in Nat
    BY DEF TypeOK
  <2>2. connecting' \in [Listed -> Nat]
    BY <2>1 DEF ConnectSecond
  <2>3. unnamed' \in [Listed -> Nat]
    BY <2>1 DEF ConnectSecond
  <2> QED
    BY <2>2, <2>3 DEF ConnectSecond, TypeOK, timers, inbound
<1>2. \/ p \in unreported'
      \/ connecting'[p] + unnamed'[p] > 0
  BY DEF ConnectSecond, TypeOK
<1>3. NoDeadSession' /\ Supervised'
  BY <1>2, OthersStay DEF ConnectSecond, TypeOK, timers, inbound, NoDeadSession
<1> QED
  BY <1>1, <1>3

\* A session that ends leaves the call of OnDisconnect in the queue.
LEMMA StepConnectionEnds ==
    ASSUME IInv, NEW p \in Peers, NEW s \in Ids, ConnectionEnds(p, s)
    PROVE  IInv'
<1> USE DEF IInv, Listed
<1>1. <<"closed", s>> \in Events
  BY DEF Events
<1>2. /\ mainQ' \in [Listed -> Seq(Events)]
      /\ mainQ'[p] # <<>>
      /\ \A q \in Listed : q # p => mainQ'[q] = mainQ[q]
  BY <1>1, PostKeepsType DEF ConnectionEnds
<1>3. TypeOK'
  BY <1>2 DEF ConnectionEnds, TypeOK, timers, inbound
<1>4. NoDeadSession' /\ Supervised'
  BY <1>2, OthersStay DEF ConnectionEnds, TypeOK, timers, inbound, NoDeadSession
<1> QED
  BY <1>3, <1>4

\* The end of a session that has no id leaves the call of OnDisconnect in the queue.
LEMMA StepUnnamedEnds ==
    ASSUME IInv, NEW p \in Peers, UnnamedEnds(p)
    PROVE  IInv'
<1> USE DEF IInv, Listed
<1>1. <<"closed", 0>> \in Events
  BY DEF Events
<1>2. /\ mainQ' \in [Listed -> Seq(Events)]
      /\ mainQ'[p] # <<>>
      /\ \A q \in Listed : q # p => mainQ'[q] = mainQ[q]
  BY <1>1, PostKeepsType DEF UnnamedEnds
<1>3. TypeOK'
  <2>1. unnamed \in [Listed -> Nat] /\ unnamed[p] \in Nat
    BY DEF TypeOK
  <2>2. unnamed' \in [Listed -> Nat]
    BY <2>1 DEF UnnamedEnds
  <2> QED
    BY <1>2, <2>2 DEF UnnamedEnds, TypeOK, timers, inbound
<1>4. NoDeadSession' /\ Supervised'
  BY <1>2, OthersStay DEF UnnamedEnds, TypeOK, timers, inbound, NoDeadSession
<1> QED
  BY <1>3, <1>4

\* A timer that expires leaves the handler that it calls.
LEMMA StepExpires ==
    ASSUME IInv, NEW p \in Peers, HeartbeatExpires(p) \/ ReconnectExpires(p)
    PROVE  IInv'
<1> USE DEF IInv, Listed
<1>1. <<"heartbeat", 0>> \in Events /\ <<"reconnect", 0>> \in Events
  BY DEF Events
<1>2. /\ mainQ' \in [Listed -> Seq(Events)]
      /\ mainQ'[p] # <<>>
      /\ \A q \in Listed : q # p => mainQ'[q] = mainQ[q]
  BY <1>1, PostKeepsType DEF HeartbeatExpires, ReconnectExpires
<1>3. TypeOK'
  BY <1>2 DEF HeartbeatExpires, ReconnectExpires, TypeOK, net, inbound
<1>4. NoDeadSession' /\ Supervised'
  BY <1>2, OthersStay
  DEF HeartbeatExpires, ReconnectExpires, TypeOK, net, inbound, NoDeadSession
<1> QED
  BY <1>3, <1>4

\* ConnectServerInstance leaves a connect under way.
LEMMA StepConnectServerInstance ==
    ASSUME IInv, NEW p \in Peers, ConnectServerInstance(p)
    PROVE  IInv'
<1> USE DEF IInv, Listed
<1>1. mainQ' \in [Listed -> Seq(Events)]
  BY DoneKeepsType DEF ConnectServerInstance, At
<1>2. TypeOK'
  <2>1. connecting \in [Listed -> Nat] /\ connecting[p] \in Nat
    BY DEF TypeOK
  <2>2. connecting' \in [Listed -> Nat]
    BY <2>1 DEF ConnectServerInstance
  <2> QED
    BY <1>1, <2>2 DEF ConnectServerInstance, TypeOK, timers, inbound
<1>3. connecting'[p] + unnamed'[p] > 0
  BY DEF ConnectServerInstance, TypeOK
<1>4. \A q \in Listed : q # p => mainQ'[q] = mainQ[q]
  BY DEF ConnectServerInstance, Done, TypeOK
<1>5. NoDeadSession' /\ Supervised'
  BY <1>3, <1>4, OthersStay DEF ConnectServerInstance, TypeOK, timers, inbound, NoDeadSession
<1> QED
  BY <1>2, <1>5

\* The session that becomes the current one is in the map by then.
LEMMA StepOnConnectSucess ==
    ASSUME IInv, NEW p \in Peers, NEW s \in Ids, OnConnectSucess(p, s)
    PROVE  IInv'
<1> USE DEF IInv, Listed
<1>1. mainQ' \in [Listed -> Seq(Events)]
  BY DoneKeepsType DEF OnConnectSucess, At
<1>2. /\ beats' \in [Listed -> [Beats -> Nat]]
      /\ \E b \in Beats : beats'[p][b] > 0
      /\ \A q \in Listed : q # p => beats'[q] = beats[q]
  BY BeatStarts DEF OnConnectSucess
<1>3. TypeOK'
  BY <1>1, <1>2 DEF OnConnectSucess, TypeOK, timers, inbound
<1>4. \A q \in Listed : q # p => mainQ'[q] = mainQ[q]
  BY DEF OnConnectSucess, Done, TypeOK
<1>5. nSessionId'[p] = s /\ s \in m_mapSession'[p]
  BY DEF OnConnectSucess, TypeOK
<1>6. NoDeadSession' /\ Supervised'
  BY <1>2, <1>4, <1>5, OthersStay DEF OnConnectSucess, TypeOK, timers, inbound
<1> QED
  BY <1>3, <1>6

\* The session that leaves the map is no longer the current one.
LEMMA StepOnDisconnect ==
    ASSUME IInv, NEW p \in Peers, NEW s \in Ids \cup {0}, OnDisconnect(p, s)
    PROVE  IInv'
<1> USE DEF IInv, Listed
<1>1. mainQ' \in [Listed -> Seq(Events)]
  BY DoneKeepsType DEF OnDisconnect, At
<1>2. TypeOK'
  BY <1>1 DEF OnDisconnect, Disconnect, TypeOK, inbound
<1>3. \A q \in Listed : q # p => mainQ'[q] = mainQ[q]
  BY DEF OnDisconnect, Done, TypeOK
<1>4. p \in timerReconnect'
  BY DEF OnDisconnect, Disconnect
<1>5. p \in Dialers \/ nSessionId'[p] \in m_mapSession'[p] \cup {0}
  BY DEF OnDisconnect, Disconnect, TypeOK, NoDeadSession
<1>6. NoDeadSession' /\ Supervised'
  BY <1>3, <1>4, <1>5, OthersStay DEF OnDisconnect, Disconnect, TypeOK
<1> QED
  BY <1>2, <1>6

\* OnHeartbeatTimer leaves a heartbeat under way, sent or lost.
LEMMA StepOnHeartbeatTimer ==
    ASSUME IInv, NEW p \in Peers, OnHeartbeatTimer(p)
    PROVE  IInv'
<1> USE DEF IInv, Listed
<1>1. mainQ' \in [Listed -> Seq(Events)]
  BY DoneKeepsType DEF OnHeartbeatTimer, At
<1>2. nSessionId[p] \in Ids \cup {0}
  BY DEF TypeOK
<1>3. /\ beats' \in [Listed -> [Beats -> Nat]]
      /\ \E b \in Beats : beats'[p][b] > 0
      /\ \A q \in Listed : q # p => beats'[q] = beats[q]
  <2>1. OnHeartbeat(p, nSessionId[p], Registered(p))
    BY DEF OnHeartbeatTimer
  <2> HIDE DEF Listed
  <2>2. p \in Listed
    BY DEF Listed
  <2> QED
    BY <1>2, <2>1, <2>2, BeatStarts, Zenon
<1>4. TypeOK'
  BY <1>1, <1>3 DEF OnHeartbeatTimer, TypeOK, timers, net, inbound
<1>5. \A q \in Listed : q # p => mainQ'[q] = mainQ[q]
  BY DEF OnHeartbeatTimer, Done, TypeOK
<1>6. NoDeadSession' /\ Supervised'
  BY <1>3, <1>5, OthersStay DEF OnHeartbeatTimer, TypeOK, timers, net, inbound, NoDeadSession
<1> QED
  BY <1>4, <1>6

\* A heartbeat the peer has handled is still under way, on its way back.
LEMMA StepOnHandleSSHeartbeatReq ==
    ASSUME IInv, NEW p \in Peers, NEW s \in Ids, OnHandleSSHeartbeatReq(p, s)
    PROVE  IInv'
<1> USE DEF IInv, Listed
<1>1. /\ <<s, "sent">> \in Beats /\ <<s, "back">> \in Beats
      /\ <<s, "sent">> # <<s, "back">>
  BY DEF Beats
<1>2. /\ beats' \in [Listed -> [Beats -> Nat]]
      /\ \E b \in Beats : beats'[p][b] > 0
      /\ \A q \in Listed : q # p => beats'[q] = beats[q]
  BY <1>1, BeatComesBack DEF OnHandleSSHeartbeatReq
<1>3. TypeOK'
  BY <1>2 DEF OnHandleSSHeartbeatReq, TypeOK, timers, net, inbound
<1>4. NoDeadSession' /\ Supervised'
  BY <1>2, OthersStay DEF OnHandleSSHeartbeatReq, TypeOK, timers, net, inbound, NoDeadSession
<1> QED
  BY <1>3, <1>4

\* An answered heartbeat leaves the timer of the next one.
LEMMA StepHeartbeatAnswered ==
    ASSUME IInv, NEW p \in Peers, NEW s \in Ids \cup {0}, HeartbeatAnswered(p, s)
    PROVE  IInv'
<1> USE DEF IInv, Listed
<1>1. <<s, "back">> \in Beats
  BY DEF Beats
<1>2. /\ beats' \in [Listed -> [Beats -> Nat]]
      /\ \A q \in Listed : q # p => beats'[q] = beats[q]
  BY <1>1, BeatEnds DEF HeartbeatAnswered
<1>3. TypeOK'
  BY <1>2 DEF HeartbeatAnswered, TypeOK, net, inbound
<1>4. NoDeadSession' /\ Supervised'
  BY <1>2, OthersStay DEF HeartbeatAnswered, TypeOK, net, inbound, NoDeadSession
<1> QED
  BY <1>3, <1>4

\* A heartbeat that failed leaves the reconnect timer behind. The list has
\* forgotten the session before the map does.
LEMMA StepHeartbeatFailed ==
    ASSUME IInv, NEW p \in Peers, NEW s \in Ids \cup {0}, NEW state \in States,
           HeartbeatFailed(p, s, state)
    PROVE  IInv'
<1> USE DEF IInv, Listed
<1>1. <<s, state>> \in Beats /\ <<"closed", s>> \in Events
  BY DEF Beats, Events, States
<1>2. /\ beats' \in [Listed -> [Beats -> Nat]]
      /\ \A q \in Listed : q # p => beats'[q] = beats[q]
  BY <1>1, BeatEnds DEF HeartbeatFailed
<1>3. /\ mainQ' \in [Listed -> Seq(Events)]
      /\ up' \in [Listed -> SUBSET Ids]
      /\ \A q \in Listed : q # p => mainQ'[q] = mainQ[q]
  <2>1. CASE s \in m_mapSession[p] \cap up[p]
    <3>1. Post(p, <<"closed", s>>) /\ up' = [up EXCEPT ![p] = @ \ {s}]
      BY <2>1 DEF HeartbeatFailed, CloseInMainLoop
    <3>2. up' \in [Listed -> SUBSET Ids]
      BY <3>1 DEF TypeOK
    <3> QED
      BY <1>1, <3>1, <3>2, PostKeepsType
  <2>2. CASE s \notin m_mapSession[p] \cap up[p]
    BY <2>2 DEF HeartbeatFailed, CloseInMainLoop, TypeOK
  <2> QED
    BY <2>1, <2>2
<1>4. TypeOK'
  BY <1>2, <1>3 DEF HeartbeatFailed, Disconnect, TypeOK, inbound
<1>5. p \in timerReconnect'
  BY DEF HeartbeatFailed, Disconnect
<1>6. p \in Dialers \/ nSessionId'[p] \in m_mapSession'[p] \cup {0}
  BY DEF HeartbeatFailed, Disconnect, TypeOK, NoDeadSession
<1>7. NoDeadSession' /\ Supervised'
  BY <1>2, <1>3, <1>5, <1>6, OthersStay DEF HeartbeatFailed, Disconnect, TypeOK
<1> QED
  BY <1>4, <1>7

\* A server that connects to this one changes only its session, and no list of what
\* is to come.
LEMMA StepInbound ==
    ASSUME IInv, NEW p \in Dialers, NEW s \in Ids,
           \/ Accept(p, s)
           \/ AcceptedEnds(p, s)
           \/ HeartbeatComes(p, s)
           \/ HeartbeatHeard(p, s)
    PROVE  IInv'
<1> USE DEF IInv, Listed
<1>1. /\ UNCHANGED <<timers, mainQ, net, beats, unreported>>
      /\ \A q \in Peers : q # p => nSessionId'[q] = nSessionId[q]
  BY DEF Accept, AcceptedEnds, HeartbeatComes, HeartbeatHeard, TypeOK
<1>2. TypeOK'
  <2>1. /\ nSessionId' \in [Listed -> Ids \cup {0}]
        /\ peerSessionId' \in [Listed -> Ids \cup {0}]
        /\ accepted' \in [Listed -> SUBSET Ids]
        /\ heard' \in [Listed -> SUBSET Ids]
    <3>1. CASE Accept(p, s)
      BY <3>1 DEF Accept, TypeOK
    <3>2. CASE AcceptedEnds(p, s)
      BY <3>2 DEF AcceptedEnds, TypeOK
    <3>3. CASE HeartbeatComes(p, s)
      BY <3>3 DEF HeartbeatComes, TypeOK
    <3>4. CASE HeartbeatHeard(p, s)
      BY <3>4 DEF HeartbeatHeard, TypeOK
    <3> QED
      BY <3>1, <3>2, <3>3, <3>4
  <2> QED
    BY <1>1, <2>1 DEF TypeOK, timers, net, inbound
<1>3. NoDeadSession'
  BY <1>1 DEF NoDeadSession, net
<1>4. Supervised'
  BY <1>1 DEF Supervised, timers, net
<1> QED
  BY <1>2, <1>3, <1>4
-----------------------------------------------------------------------------
(* The theorems                                                            *)

\* The inductive invariant holds when the servers have been listed.
LEMMA InitInv == Init => IInv
<1> SUFFICES ASSUME Init PROVE IInv
  OBVIOUS
<1>1. TypeOK
  <2>1. mainQ \in [Listed -> Seq(Events)]
    BY DEF Init
  <2>2. beats \in [Listed -> [Beats -> Nat]]
    BY DEF Init, NoBeat
  <2> QED
    BY <2>1, <2>2 DEF Init, TypeOK
<1>2. NoDeadSession
  BY DEF Init, NoDeadSession, Listed
<1>3. Supervised
  BY DEF Init, Supervised, Listed
<1> QED
  BY <1>1, <1>2, <1>3 DEF IInv

\* Every handler keeps the inductive invariant.
LEMMA NextInv == IInv /\ [Next]_vars => IInv'
<1> SUFFICES ASSUME IInv, [Next]_vars PROVE IInv'
  OBVIOUS
<1>1. ASSUME NEW p \in Peers, MainStep(p)
      PROVE  IInv'
  BY <1>1, StepConnectServerInstance, StepOnConnectSucess, StepOnDisconnect,
     StepOnHeartbeatTimer
  DEF MainStep
<1>2. ASSUME NEW p \in Peers, ConnectEnds(p)
      PROVE  IInv'
  BY <1>2, StepConnectOk, StepConnectSecond DEF ConnectEnds
<1>3. ASSUME NEW p \in Peers, NEW s \in Ids \cup {0}, Settles(p, s)
      PROVE  IInv'
  BY <1>3, StepHeartbeatAnswered, StepHeartbeatFailed DEF Settles, States
<1>4. ASSUME UNCHANGED vars
      PROVE  IInv'
  BY <1>4 DEF vars, timers, net, inbound, IInv, TypeOK, NoDeadSession, Supervised
<1> QED
  BY <1>1, <1>2, <1>3, <1>4, StepUnnamedEnds, StepExpires, StepConnectionEnds,
     StepOnHandleSSHeartbeatReq, StepInbound
  DEF Next, Idle

\* The handlers of service government keep the inductive invariant in every
\* behaviour.
THEOREM SafetyInv == Spec => []IInv
BY InitInv, NextInv, PTL DEF Spec

\* Every variable keeps its type, whatever the handlers of a server and the
\* network do and however often.
THEOREM TypeCorrect == Spec => []TypeOK
<1>1. IInv => TypeOK
  BY DEF IInv
<1> QED
  BY <1>1, SafetyInv, PTL

\* Of a server that this one connects to and that does not connect to it,
\* GetServerSessionId never hands out a session that SendPacket cannot find, for any
\* number of sessions, heartbeats and timers under way at once, and whatever the
\* servers do that connect to this one.
THEOREM SessionsAreKnown == Spec => []NoDeadSession
<1>1. IInv => NoDeadSession
  BY DEF IInv
<1> QED
  BY <1>1, SafetyInv, PTL

\* A server of the connect list always has a timer, a handler, a connect or a
\* heartbeat to come, unless a connect has ended without a callback.
THEOREM NoneIsGivenUp == Spec => []Supervised
<1>1. IInv => Supervised
  BY DEF IInv
<1> QED
  BY <1>1, SafetyInv, PTL
-----------------------------------------------------------------------------
(***************************************************************************)
(* Login                                                                   *)
(***************************************************************************)
UserOf(r) == request[r].user

\* Requests for which the logic server waits for the database server.
Loading(r) == phase[r] \in {"query", "loaded"}

\* Only users with a home get past the gate, and only they are bound.
HomeInv ==
    /\ \A r \in Issued : phase[r] # "over" => HomeOf(UserOf(r)) \in LogicIndexes
    /\ \A u \in Users : m_mapUserInfo[u] # None => HomeOf(u) \in LogicIndexes

\* The loading maps hold the users of the loads, and no user has two.
LoadInv ==
    /\ \A r, s \in Issued : Loading(r) /\ Loading(s) /\ UserOf(r) = UserOf(s) => r = s
    /\ \A r \in Issued : Loading(r) => UserOf(r) \in m_mapLoadingPlayer[HomeOf(UserOf(r))]
    /\ \A i \in LogicIndexes : \A u \in m_mapLoadingPlayer[i] :
           /\ i = HomeOf(u)
           /\ \E r \in Issued : Loading(r) /\ UserOf(r) = u
    /\ \A i \in LogicIndexes : m_mapLoadingPlayer[i] \cap m_mapOnlinePlayer[i] = {}

Known(u) == u \in m_mapOnlinePlayer[HomeOf(u)] \cup loadFailed \/ restarted > 0

\* A success that is on its way to the gate was a success, or a failed load.
SuccessInv == \A r \in Issued : phase[r] = "ok" => Known(UserOf(r))

LoginIInv ==
    /\ LoginTypeOK
    /\ MapsAgree
    /\ ToldIsBound
    /\ HomeInv
    /\ LoadInv
    /\ SuccessInv
    /\ BoundIsKnown
-----------------------------------------------------------------------------
(* Initial states                                                          *)

\* The inductive invariant holds initially.
LEMMA LoginInitIInv == LoginInit => LoginIInv
<1> SUFFICES ASSUME LoginInit PROVE LoginIInv
  OBVIOUS
<1> USE LoginAssumption DEF LoginInit
<1>0. Len(request) = 0 /\ Issued = {}
  BY DEF Issued
<1>1. LoginTypeOK
  <2>1. request \in Seq([client : Clients, user : Users])
    OBVIOUS
  <2>2. phase \in [Issued -> Phases]
    BY <1>0
  <2> QED
    BY <2>1, <2>2, <1>0 DEF LoginTypeOK
<1>2. MapsAgree /\ ToldIsBound /\ BoundIsKnown
  BY DEF MapsAgree, ToldIsBound, BoundIsKnown
<1>3. HomeInv /\ LoadInv /\ SuccessInv
  BY <1>0 DEF HomeInv, LoadInv, SuccessInv
<1> QED
  BY <1>1, <1>2, <1>3 DEF LoginIInv
-----------------------------------------------------------------------------
(* Steps                                                                   *)

\* What the type invariant says of a request that has been issued.
LEMMA IssuedRequest ==
  ASSUME LoginTypeOK, NEW r \in Issued
  PROVE  /\ request[r].client \in Clients
         /\ request[r].user \in Users /\ UserOf(r) \in Users
         /\ phase[r] \in Phases
<1>1. request[r] \in [client : Clients, user : Users]
  BY ElementOfSeq DEF LoginTypeOK, Issued
<1> QED
  BY <1>1 DEF UserOf, LoginTypeOK

\* A client that vanishes.
LEMMA ClientClosesIInv ==
  ASSUME LoginIInv, NEW c \in Clients, ClientCloses(c)
  PROVE  LoginIInv'
<1> USE DEF ClientCloses, gate, logic
<1>0. Issued' = Issued
  BY DEF Issued
<1>1. LoginTypeOK'
  BY <1>0 DEF LoginIInv, LoginTypeOK
<1>2. MapsAgree' /\ ToldIsBound' /\ BoundIsKnown'
  BY DEF LoginIInv, MapsAgree, ToldIsBound, BoundIsKnown
<1>3. HomeInv' /\ LoadInv' /\ SuccessInv'
  BY <1>0 DEF LoginIInv, HomeInv, LoadInv, SuccessInv, UserOf, Loading, Known
<1> QED
  BY <1>1, <1>2, <1>3 DEF LoginIInv

\* A login request at the gate: the new request is not beyond the gate, or is on
\* its way to the home of its user.
LEMMA LoginReqIInv ==
  ASSUME LoginIInv, NEW c \in Clients, NEW u \in Users, OnHandleCSPlayerLoginReq(c, u)
  PROVE  LoginIInv'
<1>n. PICK n : n = Len(request) + 1
  OBVIOUS
<1> DEFINE new == [client |-> c, user |-> u]
<1> USE DEF LoginIInv
<1>e. /\ request' = Append(request, new)
      /\ gateWaits' = gateWaits \cup {n}
      /\ phase' = Append(phase, IF HomeOf(u) \in LogicIndexes THEN "sent" ELSE "over")
      /\ UNCHANGED <<connected, m_mapSessionUserInfo, m_mapUserInfo, m_mapLoadingPlayer,
                     m_mapOnlinePlayer, loadFailed, told, restarted>>
  BY <1>n DEF OnHandleCSPlayerLoginReq, logic
<1>r. request \in Seq([client : Clients, user : Users]) /\ Len(request) \in Nat
  BY DEF LoginTypeOK
<1>p. phase \in Seq(Phases) /\ Len(phase) = Len(request)
  <2>1. phase \in [1..Len(request) -> Phases]
    BY DEF LoginTypeOK, Issued
  <2> QED
    BY <2>1, <1>r
<1>1. /\ Issued' = Issued \cup {n} /\ n \notin Issued
      /\ request' \in Seq([client : Clients, user : Users])
      /\ request'[n] = new /\ \A r \in Issued : request'[r] = request[r]
  BY <1>n, <1>e, <1>r DEF Issued
<1>2. /\ phase' \in Seq(Phases) /\ Len(phase') = Len(request')
      /\ phase'[n] \in {"sent", "over"}
      /\ phase'[n] = "sent" => HomeOf(u) \in LogicIndexes
      /\ \A r \in Issued : phase'[r] = phase[r]
  <2>1. (IF HomeOf(u) \in LogicIndexes THEN "sent" ELSE "over") \in Phases
    BY DEF Phases
  <2> QED
    BY <2>1, <1>n, <1>e, <1>r, <1>p DEF Issued
<1>3. phase' \in [Issued' -> Phases]
  BY <1>1, <1>2 DEF Issued
<1>4. LoginTypeOK'
  BY <1>e, <1>1, <1>3 DEF LoginTypeOK
<1>5. MapsAgree' /\ ToldIsBound' /\ BoundIsKnown'
  BY <1>e DEF MapsAgree, ToldIsBound, BoundIsKnown
<1>u. /\ UserOf(n)' = u /\ ~Loading(n)'
      /\ \A r \in Issued : UserOf(r)' = UserOf(r) /\ (Loading(r)' <=> Loading(r))
  <2>1. UserOf(n)' = u
    BY <1>1 DEF UserOf
  <2>2. ~Loading(n)'
    BY <1>2 DEF Loading
  <2>3. \A r \in Issued : UserOf(r)' = UserOf(r)
    BY <1>1 DEF UserOf
  <2>4. \A r \in Issued : Loading(r)' <=> Loading(r)
    BY <1>2 DEF Loading
  <2> QED
    BY <2>1, <2>2, <2>3, <2>4
<1>6. HomeInv'
  <2>1. ASSUME NEW r \in Issued', phase'[r] # "over"
        PROVE  HomeOf(UserOf(r)') \in LogicIndexes
    BY <2>1, <1>1, <1>2, <1>u DEF HomeInv
  <2> QED
    BY <2>1, <1>e DEF HomeInv
<1>7. LoadInv'
  BY <1>e, <1>1, <1>u DEF LoadInv
<1>8. SuccessInv'
  BY <1>e, <1>1, <1>2 DEF SuccessInv, UserOf, Known
<1> QED
  BY <1>4, <1>5, <1>6, <1>7, <1>8

\* Requests that end without the gate's maps or the logic servers' being changed:
\* a request that is lost, one the database answers, one the gate gives up.
LEMMA PhaseOnlyIInv ==
  ASSUME LoginIInv, NEW r \in Issued, NEW next \in Phases,
         phase' = [phase EXCEPT ![r] = next],
         gateWaits' \subseteq gateWaits,
         UNCHANGED <<connected, request, m_mapSessionUserInfo, m_mapUserInfo, told, logic, restarted>>,
         next = "over" \/ phase[r] # "over",
         next \in {"query", "loaded"} <=> Loading(r),
         next = "ok" => phase[r] = "ok"
  PROVE  LoginIInv'
<1> USE DEF logic, LoginIInv
<1>0. Issued' = Issued
  BY DEF Issued
<1>1. /\ phase' \in [Issued -> Phases] /\ phase'[r] = next
      /\ \A s \in Issued \ {r} : phase'[s] = phase[s]
  BY DEF LoginTypeOK
<1>2. LoginTypeOK'
  BY <1>0, <1>1 DEF LoginTypeOK
<1>3. MapsAgree' /\ ToldIsBound' /\ BoundIsKnown'
  BY DEF MapsAgree, ToldIsBound, BoundIsKnown
<1>4. HomeInv'
  BY <1>0, <1>1 DEF HomeInv, UserOf
<1>5. LoadInv'
  <2>1. \A s \in Issued : Loading(s)' <=> Loading(s)
    BY <1>1 DEF Loading
  <2> QED
    BY <2>1, <1>0 DEF LoadInv, UserOf
<1>6. SuccessInv'
  BY <1>0, <1>1 DEF SuccessInv, UserOf, Known
<1> QED
  BY <1>2, <1>3, <1>4, <1>5, <1>6

\* The gate gives a request up.
LEMMA LoginTimesOutIInv ==
  ASSUME LoginIInv, NEW r \in Issued, LoginTimesOut(r)
  PROVE  LoginIInv'
<1>1. PICK next : next = IF phase[r] \in {"ok", "error"} THEN "over" ELSE phase[r]
  OBVIOUS
<1>2. phase' = [phase EXCEPT ![r] = next]
  BY <1>1 DEF LoginTimesOut
<1>3. phase[r] \in Phases
  BY IssuedRequest DEF LoginIInv
<1>4. /\ next \in Phases
      /\ next = "over" \/ phase[r] # "over"
      /\ next \in {"query", "loaded"} <=> Loading(r)
      /\ next = "ok" => phase[r] = "ok"
  BY <1>1, <1>3 DEF Phases, Loading
<1>5. /\ gateWaits' \subseteq gateWaits
      /\ UNCHANGED <<connected, request, m_mapSessionUserInfo, m_mapUserInfo, told, logic, restarted>>
  BY DEF LoginTimesOut
<1> QED
  BY <1>2, <1>4, <1>5, PhaseOnlyIInv

\* The database answers, or the gate's request is lost.
LEMMA DbOrLostIInv ==
  ASSUME LoginIInv, NEW r \in Issued, OnHandleSSQueryDataReq(r) \/ MessageLost(r)
  PROVE  LoginIInv'
<1>1. PICK next \in {"loaded", "over"} :
        /\ phase' = [phase EXCEPT ![r] = next]
        /\ next = "loaded" => phase[r] = "query"
        /\ next = "over" => phase[r] = "sent"
  BY DEF OnHandleSSQueryDataReq, MessageLost, Moves
<1>2. /\ next \in Phases
      /\ next = "over" \/ phase[r] # "over"
      /\ next \in {"query", "loaded"} <=> Loading(r)
      /\ next = "ok" => phase[r] = "ok"
  BY <1>1 DEF Phases, Loading
<1>3. /\ gateWaits' \subseteq gateWaits
      /\ UNCHANGED <<connected, request, m_mapSessionUserInfo, m_mapUserInfo, told, logic, restarted>>
  BY DEF OnHandleSSQueryDataReq, MessageLost, gate
<1> QED
  BY <1>1, <1>2, <1>3, PhaseOnlyIInv

\* What a login does to the gate's maps: whoever had the user is cut off.
LEMMA OnUserLoginMaps ==
  ASSUME LoginIInv, NEW c \in Clients, NEW u \in Users,
         m_mapSessionUserInfo[c] = None, OnUserLogin(c, u)
  PROVE  /\ m_mapSessionUserInfo' \in [Clients -> Users \cup {None}]
         /\ m_mapUserInfo' \in [Users -> Clients \cup {None}]
         /\ connected' \subseteq connected
         /\ told' \subseteq told \cup {c}
         /\ m_mapSessionUserInfo'[c] = u
         /\ m_mapUserInfo'[u] = c
         /\ \A v \in Users \ {u} : m_mapUserInfo'[v] = m_mapUserInfo[v]
         /\ \A d \in Clients \ {c} :
                m_mapSessionUserInfo'[d] =
                    IF m_mapSessionUserInfo[d] = u THEN None ELSE m_mapSessionUserInfo[d]
         /\ \A d \in Clients \ {c} : m_mapSessionUserInfo[d] = u => d \notin connected'
<1> USE LoginAssumption DEF LoginIInv, LoginTypeOK, MapsAgree
<1>1. CASE m_mapUserInfo[u] = None
  <2>1. /\ m_mapSessionUserInfo' = [m_mapSessionUserInfo EXCEPT ![c] = u]
        /\ m_mapUserInfo' = [m_mapUserInfo EXCEPT ![u] = c]
        /\ connected' = connected
        /\ told' \subseteq told \cup {c}
    BY <1>1 DEF OnUserLogin
  <2>2. \A d \in Clients : m_mapSessionUserInfo[d] # u
    BY <1>1
  <2> QED
    BY <2>1, <2>2
<1>2. CASE m_mapUserInfo[u] # None
  <2>1. PICK o \in Clients : o = m_mapUserInfo[u]
    BY <1>2
  <2>2. /\ m_mapSessionUserInfo' = [[m_mapSessionUserInfo EXCEPT ![o] = None] EXCEPT ![c] = u]
        /\ m_mapUserInfo' = [m_mapUserInfo EXCEPT ![u] = c]
        /\ connected' = connected \ {o}
        /\ told' \subseteq told \cup {c}
    BY <1>2, <2>1 DEF OnUserLogin, OnUserLogout
  <2>3. \A d \in Clients : m_mapSessionUserInfo[d] = u <=> d = o
    BY <2>1
  <2> QED
    BY <2>1, <2>2, <2>3
<1> QED
  BY <1>1, <1>2

\* The answer of the logic server at the gate.
LEMMA LoginAnsweredIInv ==
  ASSUME LoginIInv, NEW r \in Issued, LoginAnswered(r)
  PROVE  LoginIInv'
<1>p. /\ phase' = [phase EXCEPT ![r] = "over"] /\ gateWaits' \subseteq gateWaits
      /\ phase[r] \in {"ok", "error"}
      /\ UNCHANGED <<request, logic, restarted>>
  BY DEF LoginAnswered
<1>o. "over" \in Phases /\ ~Loading(r)
  BY <1>p DEF Phases, Loading
<1>1. CASE phase[r] = "error" \/ m_mapSessionUserInfo[request[r].client] # None
  <2>1. UNCHANGED <<m_mapSessionUserInfo, m_mapUserInfo, connected, told>>
    BY <1>1 DEF LoginAnswered
  <2> QED
    BY <2>1, <1>p, <1>o, PhaseOnlyIInv
<1>2. CASE phase[r] = "ok" /\ m_mapSessionUserInfo[request[r].client] = None
  <2>1. PICK c \in Clients, u \in Users : c = request[r].client /\ u = request[r].user
    BY IssuedRequest DEF LoginIInv
  <2>2. OnUserLogin(c, u)
    BY <1>2, <2>1 DEF LoginAnswered
  <2>m. /\ m_mapSessionUserInfo' \in [Clients -> Users \cup {None}]
        /\ m_mapUserInfo' \in [Users -> Clients \cup {None}]
        /\ connected' \subseteq connected
        /\ told' \subseteq told \cup {c}
        /\ m_mapSessionUserInfo'[c] = u
        /\ m_mapUserInfo'[u] = c
        /\ \A v \in Users \ {u} : m_mapUserInfo'[v] = m_mapUserInfo[v]
        /\ \A d \in Clients \ {c} :
               m_mapSessionUserInfo'[d] =
                   IF m_mapSessionUserInfo[d] = u THEN None ELSE m_mapSessionUserInfo[d]
        /\ \A d \in Clients \ {c} : m_mapSessionUserInfo[d] = u => d \notin connected'
    BY <1>2, <2>1, <2>2, OnUserLoginMaps
  <2> USE LoginAssumption DEF LoginIInv
  <2>i. Issued' = Issued
    BY <1>p DEF Issued
  <2>h. /\ phase' \in [Issued -> Phases] /\ phase'[r] = "over"
        /\ \A s \in Issued \ {r} : phase'[s] = phase[s]
        /\ \A s \in Issued : Loading(s)' <=> Loading(s)
    BY <1>p, <1>o DEF LoginTypeOK, Loading
  <2>3. LoginTypeOK'
    BY <1>p, <2>1, <2>m, <2>i, <2>h DEF LoginTypeOK, logic
  <2>4. MapsAgree'
    BY <1>2, <2>1, <2>m DEF LoginTypeOK, MapsAgree
  <2>5. ToldIsBound'
    BY <2>1, <2>m DEF LoginTypeOK, ToldIsBound
  <2>6. HomeInv'
    <3>1. HomeOf(u) \in LogicIndexes
      BY <1>2, <2>1 DEF HomeInv, UserOf
    <3> QED
      BY <3>1, <1>p, <2>m, <2>i, <2>h DEF HomeInv, UserOf
  <2>7. LoadInv'
    BY <1>p, <2>i, <2>h DEF LoadInv, UserOf, logic
  <2>8. SuccessInv'
    BY <1>p, <2>i, <2>h DEF SuccessInv, UserOf, Known, logic
  <2>9. BoundIsKnown'
    <3>1. Known(u)
      BY <1>2, <2>1 DEF SuccessInv, UserOf
    <3> QED
      BY <3>1, <1>p, <2>m DEF BoundIsKnown, Known, logic
  <2> QED
    BY <2>3, <2>4, <2>5, <2>6, <2>7, <2>8, <2>9
<1> QED
  BY <1>1, <1>2, <1>p

\* The answer of a logic server leaves the request answered or over.
LEMMA AnswersPhase ==
  ASSUME LoginTypeOK, NEW r \in Issued, NEW from, NEW to \in Phases, Answers(r, from, to)
  PROVE  /\ phase[r] = from
         /\ phase' \in [Issued -> Phases]
         /\ phase'[r] \in {to, "over"}
         /\ \A s \in Issued \ {r} : phase'[s] = phase[s]
<1>1. (IF r \in gateWaits THEN to ELSE "over") \in Phases
  BY DEF Phases
<1> QED
  BY <1>1 DEF Answers, Moves, LoginTypeOK

\* A login at the logic server.
LEMMA PlayerLoginIInv ==
  ASSUME LoginIInv, NEW r \in Issued, PlayerLogin(r)
  PROVE  LoginIInv'
<1> USE DEF LoginIInv, gate
<1>1. PICK u \in Users : u = request[r].user
  BY IssuedRequest
<1>s. phase[r] = "sent"
  BY DEF PlayerLogin, Answers, Moves
<1>2. PICK i \in LogicIndexes : i = HomeOf(u)
  BY <1>1, <1>s DEF HomeInv, UserOf
<1>u. /\ UNCHANGED <<connected, request, m_mapSessionUserInfo, m_mapUserInfo, gateWaits,
                     told, m_mapOnlinePlayer, loadFailed, restarted>>
      /\ Issued' = Issued
  BY DEF PlayerLogin, Issued
<1>3. CASE u \in m_mapOnlinePlayer[i] \cup m_mapLoadingPlayer[i]
  <2>1. UNCHANGED m_mapLoadingPlayer /\ Answers(r, "sent", "error")
    BY <1>1, <1>2, <1>3 DEF PlayerLogin
  <2>2. PICK next : next = IF r \in gateWaits THEN "error" ELSE "over"
    OBVIOUS
  <2>3. /\ phase' = [phase EXCEPT ![r] = next]
        /\ next \in Phases
        /\ next = "over" \/ phase[r] # "over"
        /\ next \in {"query", "loaded"} <=> Loading(r)
        /\ next = "ok" => phase[r] = "ok"
    BY <2>1, <2>2, <1>s DEF Answers, Moves, Loading, Phases
  <2> QED
    BY <2>1, <2>3, <1>u, PhaseOnlyIInv DEF logic
<1>4. CASE u \notin m_mapOnlinePlayer[i] \cup m_mapLoadingPlayer[i]
  <2>1. /\ phase' = [phase EXCEPT ![r] = "query"]
        /\ m_mapLoadingPlayer' = [m_mapLoadingPlayer EXCEPT ![i] = @ \cup {u}]
    BY <1>1, <1>2, <1>4 DEF PlayerLogin, Moves
  <2>2. /\ phase' \in [Issued -> Phases] /\ phase'[r] = "query"
        /\ \A s \in Issued \ {r} : phase'[s] = phase[s]
    BY <2>1 DEF LoginTypeOK, Phases
  <2>3. /\ m_mapLoadingPlayer' \in [LogicIndexes -> SUBSET Users]
        /\ m_mapLoadingPlayer'[i] = m_mapLoadingPlayer[i] \cup {u}
        /\ \A j \in LogicIndexes \ {i} : m_mapLoadingPlayer'[j] = m_mapLoadingPlayer[j]
    BY <2>1 DEF LoginTypeOK
  <2>4. LoginTypeOK'
    BY <1>u, <2>2, <2>3 DEF LoginTypeOK
  <2>5. MapsAgree' /\ ToldIsBound' /\ BoundIsKnown'
    BY <1>u DEF MapsAgree, ToldIsBound, BoundIsKnown
  <2>6. HomeInv'
    BY <1>1, <1>2, <1>u, <2>2 DEF HomeInv, UserOf
  <2>7. LoadInv'
    <3>1. /\ Loading(r)'
          /\ \A s \in Issued \ {r} : Loading(s)' <=> Loading(s)
          /\ \A s \in Issued : UserOf(s)' = UserOf(s)
          /\ UserOf(r) = u
      BY <1>1, <1>u, <2>2 DEF Loading, UserOf
    <3>2. \A s \in Issued : Loading(s) => UserOf(s) # u
      BY <1>2, <1>4 DEF LoadInv
    <3>3. \A s, q \in Issued : Loading(s)' /\ Loading(q)' /\ UserOf(s) = UserOf(q) => s = q
      BY <3>1, <3>2 DEF LoadInv
    <3>4. \A s \in Issued : Loading(s)' => UserOf(s) \in m_mapLoadingPlayer'[HomeOf(UserOf(s))]
      <4>1. ASSUME NEW s \in Issued \ {r}, Loading(s)'
            PROVE  UserOf(s) \in m_mapLoadingPlayer'[HomeOf(UserOf(s))]
        <5>1. phase[s] # "over" /\ Loading(s)
          BY <3>1, <4>1 DEF Loading
        <5>2. HomeOf(UserOf(s)) \in LogicIndexes
          BY <5>1 DEF HomeInv
        <5> QED
          BY <5>1, <5>2, <2>3 DEF LoadInv
      <4> QED
        BY <4>1, <3>1, <2>3, <1>2
    <3>5. ASSUME NEW j \in LogicIndexes, NEW v \in m_mapLoadingPlayer'[j]
          PROVE  j = HomeOf(v) /\ \E s \in Issued : Loading(s)' /\ UserOf(s) = v
      <4>1. CASE v \in m_mapLoadingPlayer[j]
        <5>1. PICK s \in Issued : Loading(s) /\ UserOf(s) = v
          BY <4>1 DEF LoadInv
        <5> QED
          BY <5>1, <4>1, <3>1 DEF LoadInv
      <4>2. CASE v \notin m_mapLoadingPlayer[j]
        BY <4>2, <2>3, <3>1, <1>2
      <4> QED
        BY <4>1, <4>2
    <3>6. \A j \in LogicIndexes : m_mapLoadingPlayer'[j] \cap m_mapOnlinePlayer[j] = {}
      BY <1>4, <2>3 DEF LoadInv
    <3> QED
      BY <3>1, <3>3, <3>4, <3>5, <3>6, <1>u DEF LoadInv
  <2>8. SuccessInv'
    BY <1>u, <2>2 DEF SuccessInv, UserOf, Known
  <2> QED
    BY <2>4, <2>5, <2>6, <2>7, <2>8
<1> QED
  BY <1>3, <1>4

\* A load that ends, with the user let in or not: nobody is being loaded for this
\* user any more.
LEMMA LoadEndsIInv ==
  ASSUME LoginIInv, NEW r \in Issued, Loading(r),
         phase' \in [Issued -> Phases], phase'[r] \in {"ok", "over"},
         \A s \in Issued \ {r} : phase'[s] = phase[s],
         m_mapLoadingPlayer' =
             [m_mapLoadingPlayer EXCEPT ![HomeOf(UserOf(r))] = @ \ {UserOf(r)}],
         \A i \in LogicIndexes : m_mapOnlinePlayer[i] \subseteq m_mapOnlinePlayer'[i],
         \A i \in LogicIndexes : m_mapOnlinePlayer'[i] \subseteq m_mapOnlinePlayer[i]
             \cup (IF i = HomeOf(UserOf(r)) THEN {UserOf(r)} ELSE {}),
         m_mapOnlinePlayer' \in [LogicIndexes -> SUBSET Users],
         loadFailed \subseteq loadFailed', loadFailed' \subseteq Users, Known(UserOf(r))',
         UNCHANGED <<connected, request, gate, restarted>>
  PROVE  LoginIInv'
<1> USE DEF LoginIInv, gate
<1>1. PICK u \in Users : u = UserOf(r)
  BY IssuedRequest
<1>2. PICK i \in LogicIndexes : i = HomeOf(u)
  <2>1. phase[r] # "over"
    BY DEF Loading
  <2> QED
    BY <1>1, <2>1 DEF HomeInv
<1>3. /\ m_mapLoadingPlayer' \in [LogicIndexes -> SUBSET Users]
      /\ m_mapLoadingPlayer'[i] = m_mapLoadingPlayer[i] \ {u}
      /\ \A j \in LogicIndexes \ {i} : m_mapLoadingPlayer'[j] = m_mapLoadingPlayer[j]
  BY <1>1, <1>2 DEF LoginTypeOK
<1>i. Issued' = Issued /\ \A s \in Issued : UserOf(s)' = UserOf(s)
  BY DEF Issued, UserOf
<1>4. LoginTypeOK'
  BY <1>3, <1>i DEF LoginTypeOK
<1>5. MapsAgree' /\ ToldIsBound'
  BY DEF MapsAgree, ToldIsBound
<1>6. HomeInv'
  BY <1>1, <1>2, <1>i DEF HomeInv
<1>7. LoadInv'
  <2>1. /\ ~Loading(r)'
        /\ \A s \in Issued \ {r} : Loading(s)' <=> Loading(s)
    BY DEF Loading
  <2>2. \A s \in Issued \ {r} : Loading(s) => UserOf(s) # u
    BY <1>1 DEF LoadInv
  <2>3. ASSUME NEW s \in Issued, Loading(s)'
        PROVE  UserOf(s) \in m_mapLoadingPlayer'[HomeOf(UserOf(s))]
    <3>1. phase[s] # "over" /\ Loading(s) /\ s # r
      BY <2>1, <2>3 DEF Loading
    <3>2. HomeOf(UserOf(s)) \in LogicIndexes
      BY <3>1 DEF HomeInv
    <3> QED
      BY <3>1, <3>2, <2>2, <1>3 DEF LoadInv
  <2>4. ASSUME NEW j \in LogicIndexes, NEW v \in m_mapLoadingPlayer'[j]
        PROVE  j = HomeOf(v) /\ \E s \in Issued : Loading(s)' /\ UserOf(s) = v
    <3>1. v \in m_mapLoadingPlayer[j] /\ j = HomeOf(v)
      BY <1>3, <2>4 DEF LoadInv
    <3>2. PICK s \in Issued : Loading(s) /\ UserOf(s) = v
      BY <3>1 DEF LoadInv
    <3>3. s # r
      BY <3>1, <3>2, <1>1, <1>2, <1>3, <2>4
    <3> QED
      BY <3>1, <3>2, <3>3, <2>1
  <2>5. \A j \in LogicIndexes : m_mapLoadingPlayer'[j] \cap m_mapOnlinePlayer'[j] = {}
    BY <1>1, <1>2, <1>3 DEF LoadInv
  <2>6. \A s, q \in Issued : Loading(s)' /\ Loading(q)' /\ UserOf(s) = UserOf(q) => s = q
    BY <2>1 DEF LoadInv
  <2> QED
    BY <2>3, <2>4, <2>5, <2>6, <1>i DEF LoadInv
<1>k. \A v \in Users : HomeOf(v) \in LogicIndexes /\ Known(v) => Known(v)'
  BY DEF Known
<1>8. SuccessInv'
  <2>1. ASSUME NEW s \in Issued \ {r}, phase'[s] = "ok"
        PROVE  Known(UserOf(s))'
    <3>1. UserOf(s) \in Users /\ HomeOf(UserOf(s)) \in LogicIndexes /\ Known(UserOf(s))
      BY <2>1, IssuedRequest DEF HomeInv, SuccessInv
    <3>2. PICK v \in Users : v = UserOf(s) /\ v = UserOf(s)'
      BY <3>1, <1>i
    <3>3. Known(v)'
      BY <3>1, <3>2, <1>k
    <3> QED
      BY <3>2, <3>3 DEF Known
  <2> QED
    BY <2>1, <1>i DEF SuccessInv
<1>9. BoundIsKnown'
  <2>1. ASSUME NEW v \in Users, m_mapUserInfo[v] # None
        PROVE  Known(v)'
    BY <2>1, <1>k DEF BoundIsKnown, HomeInv, Known
  <2> QED
    BY <2>1 DEF BoundIsKnown, Known
<1> QED
  BY <1>4, <1>5, <1>6, <1>7, <1>8, <1>9

\* A load that succeeds.
LEMMA PlayerLoadedIInv ==
  ASSUME LoginIInv, NEW r \in Issued, PlayerLoaded(r)
  PROVE  LoginIInv'
<1> USE DEF LoginIInv
<1>1. PICK u \in Users : u = UserOf(r) /\ u = UserOf(r)'
  BY IssuedRequest DEF PlayerLoaded, UserOf
<1>2. /\ Answers(r, "loaded", "ok")
      /\ m_mapLoadingPlayer' = [m_mapLoadingPlayer EXCEPT ![HomeOf(u)] = @ \ {u}]
      /\ m_mapOnlinePlayer' =
             [m_mapOnlinePlayer EXCEPT ![HomeOf(u)] =
                 IF u \in m_mapLoadingPlayer[HomeOf(u)] THEN @ \cup {u} ELSE @]
      /\ UNCHANGED <<connected, request, gate, loadFailed, restarted>>
  BY <1>1 DEF PlayerLoaded, UserOf
<1>3. /\ phase[r] = "loaded" /\ phase' \in [Issued -> Phases]
      /\ phase'[r] \in {"ok", "over"}
      /\ \A s \in Issued \ {r} : phase'[s] = phase[s]
  <2>1. "ok" \in Phases
    BY DEF Phases
  <2> QED
    BY <1>2, <2>1, AnswersPhase
<1>4. Loading(r) /\ HomeOf(u) \in LogicIndexes /\ u \in m_mapLoadingPlayer[HomeOf(u)]
  BY <1>1, <1>3 DEF Loading, HomeInv, LoadInv
<1>5. /\ m_mapOnlinePlayer' \in [LogicIndexes -> SUBSET Users]
      /\ m_mapOnlinePlayer'[HomeOf(u)] = m_mapOnlinePlayer[HomeOf(u)] \cup {u}
      /\ \A i \in LogicIndexes \ {HomeOf(u)} : m_mapOnlinePlayer'[i] = m_mapOnlinePlayer[i]
  BY <1>2, <1>4 DEF LoginTypeOK
<1>6. Known(UserOf(r))'
  <2>1. Known(u)'
    BY <1>5 DEF Known
  <2> QED
    BY <2>1, <1>1 DEF Known
<1>7. loadFailed \subseteq loadFailed' /\ loadFailed' \subseteq Users
  BY <1>2 DEF LoginTypeOK
<1>8. /\ \A i \in LogicIndexes : m_mapOnlinePlayer[i] \subseteq m_mapOnlinePlayer'[i]
      /\ \A i \in LogicIndexes : m_mapOnlinePlayer'[i] \subseteq m_mapOnlinePlayer[i]
             \cup (IF i = HomeOf(UserOf(r)) THEN {UserOf(r)} ELSE {})
  BY <1>1, <1>5
<1>9. m_mapLoadingPlayer' =
          [m_mapLoadingPlayer EXCEPT ![HomeOf(UserOf(r))] = @ \ {UserOf(r)}]
  BY <1>1, <1>2
<1> QED
  BY <1>2, <1>3, <1>4, <1>5, <1>6, <1>7, <1>8, <1>9, LoadEndsIInv

\* A load that fails.
LEMMA LoadFailsIInv ==
  ASSUME LoginIInv, NEW r \in Issued, LoadFails(r)
  PROVE  LoginIInv'
<1> USE DEF LoginIInv
<1>1. PICK u \in Users : u = UserOf(r) /\ u = UserOf(r)'
  BY IssuedRequest DEF LoadFails, UserOf
<1>2. /\ Answers(r, "query", "ok") \/ Answers(r, "loaded", "ok")
      /\ m_mapLoadingPlayer' = [m_mapLoadingPlayer EXCEPT ![HomeOf(u)] = @ \ {u}]
      /\ loadFailed' = loadFailed \cup {u}
      /\ UNCHANGED <<connected, request, gate, m_mapOnlinePlayer, restarted>>
  BY <1>1 DEF LoadFails, UserOf
<1>3. /\ Loading(r) /\ phase' \in [Issued -> Phases]
      /\ phase'[r] \in {"ok", "over"}
      /\ \A s \in Issued \ {r} : phase'[s] = phase[s]
  <2>1. "ok" \in Phases
    BY DEF Phases
  <2> QED
    BY <1>2, <2>1, AnswersPhase DEF Loading
<1>4. Known(UserOf(r))'
  <2>1. Known(u)'
    BY <1>2 DEF Known
  <2> QED
    BY <2>1, <1>1 DEF Known
<1>5. /\ loadFailed \subseteq loadFailed' /\ loadFailed' \subseteq Users
      /\ m_mapOnlinePlayer' \in [LogicIndexes -> SUBSET Users]
      /\ \A i \in LogicIndexes : m_mapOnlinePlayer[i] \subseteq m_mapOnlinePlayer'[i]
      /\ \A i \in LogicIndexes : m_mapOnlinePlayer'[i] \subseteq m_mapOnlinePlayer[i]
             \cup (IF i = HomeOf(UserOf(r)) THEN {UserOf(r)} ELSE {})
  BY <1>2 DEF LoginTypeOK
<1>6. m_mapLoadingPlayer' =
          [m_mapLoadingPlayer EXCEPT ![HomeOf(UserOf(r))] = @ \ {UserOf(r)}]
  BY <1>1, <1>2
<1> QED
  BY <1>2, <1>3, <1>4, <1>5, <1>6, LoadEndsIInv

\* A logic server that is restarted.
LEMMA LogicRestartsIInv ==
  ASSUME LoginIInv, NEW i \in LogicIndexes, LogicRestarts(i)
  PROVE  LoginIInv'
<1> USE LoginAssumption DEF LoginIInv, gate
<1>1. /\ restarted' = restarted + 1 /\ restarted' \in 0..MaxRestarts /\ restarted' > 0
      /\ UNCHANGED <<connected, request, m_mapSessionUserInfo, m_mapUserInfo, gateWaits,
                     told, loadFailed>>
  BY DEF LogicRestarts, LoginTypeOK
<1>2. /\ m_mapLoadingPlayer' \in [LogicIndexes -> SUBSET Users]
      /\ m_mapOnlinePlayer' \in [LogicIndexes -> SUBSET Users]
      /\ m_mapLoadingPlayer'[i] = {} /\ m_mapOnlinePlayer'[i] = {}
      /\ \A j \in LogicIndexes \ {i} : /\ m_mapLoadingPlayer'[j] = m_mapLoadingPlayer[j]
                                        /\ m_mapOnlinePlayer'[j] = m_mapOnlinePlayer[j]
  BY DEF LogicRestarts, LoginTypeOK
<1>i. Issued' = Issued /\ \A s \in Issued : UserOf(s)' = UserOf(s)
  BY <1>1 DEF Issued, UserOf
<1>3. /\ phase' \in [Issued -> Phases]
      /\ \A r \in Issued : phase'[r] =
             IF HomeOf(UserOf(r)) = i /\ phase[r] \in {"sent", "query", "loaded"}
             THEN "over" ELSE phase[r]
  BY DEF LogicRestarts, LoginTypeOK, Phases, UserOf
<1>4. LoginTypeOK'
  BY <1>1, <1>2, <1>3, <1>i DEF LoginTypeOK
<1>5. MapsAgree' /\ ToldIsBound' /\ BoundIsKnown' /\ SuccessInv'
  BY <1>1 DEF MapsAgree, ToldIsBound, BoundIsKnown, SuccessInv, Known
<1>6. HomeInv'
  BY <1>1, <1>3, <1>i DEF HomeInv
<1>7. LoadInv'
  <2>1. \A r \in Issued : Loading(r)' <=> Loading(r) /\ HomeOf(UserOf(r)) # i
    BY <1>3 DEF Loading
  <2>2. ASSUME NEW s \in Issued, Loading(s)'
        PROVE  UserOf(s) \in m_mapLoadingPlayer'[HomeOf(UserOf(s))]
    <3>1. phase[s] # "over" /\ Loading(s) /\ HomeOf(UserOf(s)) # i
      BY <2>1, <2>2 DEF Loading
    <3>2. HomeOf(UserOf(s)) \in LogicIndexes
      BY <3>1 DEF HomeInv
    <3> QED
      BY <3>1, <3>2, <1>2 DEF LoadInv
  <2>3. ASSUME NEW j \in LogicIndexes, NEW v \in m_mapLoadingPlayer'[j]
        PROVE  j = HomeOf(v) /\ \E s \in Issued : Loading(s)' /\ UserOf(s) = v
    <3>1. j # i /\ v \in m_mapLoadingPlayer[j] /\ j = HomeOf(v)
      BY <1>2, <2>3 DEF LoadInv
    <3>2. PICK s \in Issued : Loading(s) /\ UserOf(s) = v
      BY <3>1 DEF LoadInv
    <3> QED
      BY <3>1, <3>2, <2>1
  <2>4. \A j \in LogicIndexes : m_mapLoadingPlayer'[j] \cap m_mapOnlinePlayer'[j] = {}
    BY <1>2 DEF LoadInv
  <2>5. \A s, q \in Issued : Loading(s)' /\ Loading(q)' /\ UserOf(s) = UserOf(q) => s = q
    BY <2>1 DEF LoadInv
  <2> QED
    BY <2>2, <2>3, <2>4, <2>5, <1>i DEF LoadInv
<1> QED
  BY <1>4, <1>5, <1>6, <1>7

\* A step that changes nothing.
LEMMA LoginStutterIInv == LoginIInv /\ UNCHANGED loginVars => LoginIInv'
<1> SUFFICES ASSUME LoginIInv, UNCHANGED loginVars PROVE LoginIInv'
  OBVIOUS
<1> USE DEF loginVars, gate, logic, LoginIInv
<1>0. Issued' = Issued
  BY DEF Issued
<1>1. LoginTypeOK'
  BY <1>0 DEF LoginTypeOK
<1>2. MapsAgree' /\ ToldIsBound' /\ BoundIsKnown'
  BY DEF MapsAgree, ToldIsBound, BoundIsKnown
<1>3. HomeInv' /\ LoadInv' /\ SuccessInv'
  BY <1>0 DEF HomeInv, LoadInv, SuccessInv, UserOf, Loading, Known
<1> QED
  BY <1>1, <1>2, <1>3

\* Every step keeps the inductive invariant.
LEMMA LoginNextIInv == LoginIInv /\ [LoginNext]_loginVars => LoginIInv'
<1> SUFFICES ASSUME LoginIInv, [LoginNext]_loginVars PROVE LoginIInv'
  OBVIOUS
<1>1. CASE \E c \in Clients : ClientCloses(c)
  BY <1>1, ClientClosesIInv
<1>2. CASE \E c \in Clients, u \in Users : OnHandleCSPlayerLoginReq(c, u)
  BY <1>2, LoginReqIInv
<1>3. ASSUME NEW r \in Issued,
             \/ GateSettles(r) \/ PlayerLogin(r) \/ LoadSettles(r)
             \/ OnHandleSSQueryDataReq(r) \/ MessageLost(r)
      PROVE  LoginIInv'
  BY <1>3, LoginAnsweredIInv, LoginTimesOutIInv, PlayerLoginIInv, PlayerLoadedIInv,
     LoadFailsIInv, DbOrLostIInv DEF GateSettles, LoadSettles
<1>4. CASE \E i \in LogicIndexes : LogicRestarts(i)
  BY <1>4, LogicRestartsIInv
<1>5. CASE Quiet \/ UNCHANGED loginVars
  BY <1>5, LoginStutterIInv DEF Quiet
<1> QED
  BY <1>1, <1>2, <1>3, <1>4, <1>5 DEF LoginNext

\* The inductive invariant holds in every reachable state.
LEMMA LoginInductive == LoginSpec => []LoginIInv
  BY LoginInitIInv, LoginNextIInv, PTL DEF LoginSpec
-----------------------------------------------------------------------------
(* What follows                                                            *)

\* The gate's map from sessions to users and its map from users to sessions say
\* the same in every reachable state, however logins overlap (OnUserLogin,
\* OnUserLogout).
THEOREM MapsAlwaysAgree == LoginSpec => []MapsAgree
<1>1. LoginIInv => MapsAgree
  BY DEF LoginIInv
<1> QED
  BY <1>1, LoginInductive, PTL

\* A client that was answered with success and has not been cut off has its user
\* bound to its session (the answer in OnHandleCSPlayerLoginReq of the gate, and
\* the kick in OnUserLogout).
THEOREM ToldAreBound == LoginSpec => []ToldIsBound
<1>1. LoginIInv => ToldIsBound
  BY DEF LoginIInv
<1> QED
  BY <1>1, LoginInductive, PTL

\* A user is loaded once at a time and is in the loading map exactly as long,
\* whatever the gate has given up meanwhile (OnHandleCSPlayerLoginReq of the logic
\* server and its callback).
THEOREM OneLoadAtATime == LoginSpec => []OneLoad
<1>1. LoginIInv => OneLoad
  <2> SUFFICES ASSUME LoginIInv, NEW u \in Users
               PROVE  LET loads == {r \in Issued : /\ request[r].user = u
                                                  /\ phase[r] \in {"query", "loaded"}}
                      IN  /\ Cardinality(loads) <= 1
                          /\ \A i \in LogicIndexes :
                                 u \in m_mapLoadingPlayer[i] <=> loads # {} /\ i = HomeOf(u)
                          /\ loads # {} => u \notin m_mapOnlinePlayer[HomeOf(u)]
    BY DEF OneLoad
  <2> DEFINE loads == {r \in Issued : request[r].user = u /\ phase[r] \in {"query", "loaded"}}
  <2>1. \A r \in Issued : r \in loads <=> Loading(r) /\ UserOf(r) = u
    BY DEF Loading, UserOf
  <2>2. \A r \in loads : r \in Issued
    OBVIOUS
  <2> HIDE DEF loads
  <2>3. Cardinality(loads) <= 1
    <3>1. CASE loads = {}
      BY <3>1, FS_EmptySet
    <3>2. CASE loads # {}
      <4>1. PICK r : r \in loads
        BY <3>2
      <4>2. loads = {r}
        BY <4>1, <2>1, <2>2 DEF LoginIInv, LoadInv
      <4>3. Cardinality({r}) = 1
        BY FS_Singleton
      <4> QED
        BY <4>2, <4>3
    <3> QED
      BY <3>1, <3>2
  <2>4. ASSUME NEW i \in LogicIndexes
        PROVE  u \in m_mapLoadingPlayer[i] <=> loads # {} /\ i = HomeOf(u)
    <3>1. ASSUME u \in m_mapLoadingPlayer[i] PROVE loads # {} /\ i = HomeOf(u)
      BY <3>1, <2>1 DEF LoginIInv, LoadInv
    <3>2. ASSUME loads # {}, i = HomeOf(u) PROVE u \in m_mapLoadingPlayer[i]
      <4>1. PICK r : r \in loads
        BY <3>2
      <4> QED
        BY <4>1, <3>2, <2>1, <2>2 DEF LoginIInv, LoadInv
    <3> QED
      BY <3>1, <3>2
  <2>5. ASSUME loads # {} PROVE u \notin m_mapOnlinePlayer[HomeOf(u)]
    <3>1. PICK r : r \in loads
      BY <2>5
    <3>2. r \in Issued /\ UserOf(r) = u /\ Loading(r) /\ phase[r] # "over"
      BY <3>1, <2>1, <2>2 DEF Loading
    <3>3. HomeOf(u) \in LogicIndexes /\ u \in m_mapLoadingPlayer[HomeOf(u)]
      BY <3>2 DEF LoginIInv, HomeInv, LoadInv
    <3> QED
      BY <3>3 DEF LoginIInv, LoadInv
  <2> QED
    BY <2>3, <2>4, <2>5 DEF loads
<1> QED
  BY <1>1, LoginInductive, PTL

\* As long as no logic server was restarted, the gate binds only users whom their
\* logic server has let in or whose load has failed (LoginAnswered against
\* PlayerManagerModule's answers).
THEOREM BoundAreKnown == LoginSpec => []BoundIsKnown
<1>1. LoginIInv => BoundIsKnown
  BY DEF LoginIInv
<1> QED
  BY <1>1, LoginInductive, PTL
=============================================================================
