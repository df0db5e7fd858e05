-------------------------- MODULE ServiceGovernment --------------------------
(***************************************************************************)
(* How a server keeps its connections to the servers of its connect list,   *)
(* and how those learn by which session they reach it.                      *)
(*                                                                         *)
(* A connect that succeeds starts a coroutine that sends a heartbeat,       *)
(* awaits the answer and arms a timer for the next one. A session that      *)
(* ends, and a heartbeat that fails, arm a timer that connects again. All   *)
(* of it runs on the main loop; the handlers of different servers touch     *)
(* different state, so mainQ keeps the loop's queue server by server.       *)
(*                                                                         *)
(* A server that connects to this one is heard of by its heartbeats: their  *)
(* handler enters the session they came on as the one of their sender. Such *)
(* a session was accepted and has no close callback. Two servers may        *)
(* connect to each other; then both ways lead to the same entry.            *)
(*                                                                         *)
(* Of NetModule this module takes what NetSession shows: a session that was *)
(* announced is closed once and in order, a first attempt to connect that   *)
(* fails leads to a second one without a callback, whose session, if it     *)
(* comes about, has the id 0. Of RpcModule it takes RpcPromise: every       *)
(* heartbeat is answered or times out, once.                                *)
(***************************************************************************)
EXTENDS ServerList, FiniteSetsExt

CONSTANTS Self,         \* this server
          Ids,          \* session ids; an id nothing refers to is used again
          KnownTo,      \* the servers whose own list has this server
          Dialers,      \* the servers of the list that connect to this one
          MaxLinks,     \* bound: connects under way and sessions not forgotten
          MaxAccepted,  \* bound: accepted sessions of one server, and its
                        \* heartbeats that wait
          MaxBeats,     \* bound: heartbeats awaited or due at the same time
          MaxReady      \* bound: handlers ready when a timer expires

ASSUME GovernmentAssumption ==
    /\ Ids \subseteq Nat \ {0}
    /\ IsFiniteSet(Ids)
    /\ KnownTo \subseteq ConnectKeys(Self)
    /\ Dialers \subseteq ServerKeys
    /\ Dialers \cap ConnectKeys(Self) \subseteq KnownTo
    /\ MaxLinks \in Nat
    /\ MaxAccepted \in Nat
    /\ MaxBeats \in Nat
    /\ MaxReady \in Nat

Peers == ConnectKeys(Self)

\* The entries of m_mapServerList that can ever have a session.
Listed == Peers \cup Dialers

VARIABLES nSessionId,      \* [server -> its session, or 0]
          timerHeartbeat,  \* peers whose heartbeat timer is armed
          timerReconnect,  \* peers whose reconnect timer is armed
          mainQ,           \* [server -> handlers ready on the main loop]
          m_mapSession,    \* [server -> sessions to it the main loop knows]
          up,              \* [server -> sessions whose connection stands]
          connecting,      \* [server -> connects under way]
          unnamed,         \* [server -> sessions of a second attempt, with id 0]
          beats,           \* [server -> heartbeats that are awaited]
          peerSessionId,   \* [server -> the session by which it reaches Self]
          accepted,        \* [server -> sessions from it the main loop knows]
          heard,           \* [server -> sessions by which a heartbeat of it has
                           \* come that is still to be handled]
          unreported       \* peers to which a connect ended without a callback

timers == <<timerHeartbeat, timerReconnect>>
net == <<m_mapSession, up, connecting, unnamed>>
inbound == <<accepted, heard>>
vars == <<nSessionId, timers, mainQ, net, beats, peerSessionId, inbound, unreported>>

(***************************************************************************)
(* A heartbeat is "lost" when there was no session to send it on, "sent",   *)
(* or "back", its answer is on its way. beats[p] counts them by session.    *)
(***************************************************************************)
Beats == (Ids \cup {0}) \X {"lost", "sent", "back"}
NoBeat == [b \in Beats |-> 0]
Events == {"connected", "closed", "heartbeat", "reconnect"} \X (Ids \cup {0})

Init ==
    /\ nSessionId = [p \in Listed |-> 0]
    /\ timerHeartbeat = {}
    /\ timerReconnect = {}
    /\ mainQ = [p \in Listed |-> <<>>]
    /\ m_mapSession = [p \in Listed |-> {}]
    /\ up = [p \in Listed |-> {}]
    /\ connecting = [p \in Listed |-> IF p \in Peers THEN 1 ELSE 0]  \* InitConnect
    /\ unnamed = [p \in Listed |-> 0]
    /\ beats = [p \in Listed |-> NoBeat]
    /\ peerSessionId = [p \in Listed |-> 0]
    /\ accepted = [p \in Listed |-> {}]
    /\ heard = [p \in Listed |-> {}]
    /\ unreported = {}
-----------------------------------------------------------------------------
(* The main loop and the network                                           *)

At(p, event) == mainQ[p] # <<>> /\ Head(mainQ[p]) = event
Done(p) == mainQ' = [mainQ EXCEPT ![p] = Tail(@)]
Post(p, event) == mainQ' = [mainQ EXCEPT ![p] = Append(@, event)]
Ready(p, kind) == \E i \in 1..Len(mainQ[p]) : mainQ[p][i][1] = kind

\* A session is held until its close callback has run.
Held(p) ==
    (up[p] \cup m_mapSession[p] \cup {mainQ[p][i][2] : i \in 1..Len(mainQ[p])}
           \cup {b[1] : b \in {c \in Beats : beats[p][c] > 0}}) \ {0}
Waiting(p, kinds) == Len(SelectSeq(mainQ[p], LAMBDA e : e[1] \in kinds))
Links(p) ==
    connecting[p] + unnamed[p] + Cardinality(Held(p)) + Waiting(p, {"reconnect"})
BeatsOf(p) ==
    MapThenSumSet(LAMBDA b : beats[p][b], Beats) + Waiting(p, {"connected", "heartbeat"})

\* CreateSessionId: an id that nothing refers to (which one does not matter).
FreeIds(p) ==
    Ids \ (Held(p) \cup accepted[p] \cup heard[p] \cup {nSessionId[p], peerSessionId[p]})

\* The first attempt succeeds: the session is registered and announced.
ConnectOk(p, s) ==
    /\ connecting[p] > 0
    /\ Listens(p)
    /\ s \in FreeIds(p) /\ s = Min(FreeIds(p))
    /\ BeatsOf(p) < MaxBeats
    /\ connecting' = [connecting EXCEPT ![p] = @ - 1]
    /\ up' = [up EXCEPT ![p] = @ \cup {s}]
    /\ Post(p, <<"connected", s>>)
    /\ UNCHANGED <<nSessionId, timers, m_mapSession, unnamed, beats, peerSessionId, inbound, unreported>>

\* The first attempt fails and the second succeeds, or fails as well.
ConnectSecond(p) ==
    /\ connecting[p] > 0
    /\ connecting' = [connecting EXCEPT ![p] = @ - 1]
    /\ \/ /\ unnamed' = [unnamed EXCEPT ![p] = @ + 1]
          /\ UNCHANGED unreported
       \/ /\ unreported' = unreported \cup {p}
          /\ UNCHANGED unnamed
    /\ UNCHANGED <<nSessionId, timers, mainQ, m_mapSession, up, beats, peerSessionId, inbound>>

\* A connection ends, for whatever reason; its close callback is posted.
ConnectionEnds(p, s) ==
    /\ s \in up[p]
    /\ up' = [up EXCEPT ![p] = @ \ {s}]
    /\ Post(p, <<"closed", s>>)
    /\ UNCHANGED <<nSessionId, timers, m_mapSession, connecting, unnamed, beats,
                   peerSessionId, inbound, unreported>>

\* The session of a second attempt is silent and is dropped by the peer.
UnnamedEnds(p) ==
    /\ unnamed[p] > 0
    /\ unnamed' = [unnamed EXCEPT ![p] = @ - 1]
    /\ Post(p, <<"closed", 0>>)
    /\ UNCHANGED <<nSessionId, timers, m_mapSession, up, connecting, beats,
                   peerSessionId, inbound, unreported>>

\* Timers expire. An expiry that is ready is not taken back by cancel().
HeartbeatExpires(p) ==
    /\ p \in timerHeartbeat
    /\ Len(mainQ[p]) < MaxReady
    /\ BeatsOf(p) < MaxBeats
    /\ timerHeartbeat' = timerHeartbeat \ {p}
    /\ Post(p, <<"heartbeat", 0>>)
    /\ UNCHANGED <<nSessionId, timerReconnect, net, beats, peerSessionId, inbound, unreported>>

ReconnectExpires(p) ==
    /\ p \in timerReconnect
    /\ Len(mainQ[p]) < MaxReady
    /\ Links(p) < MaxLinks
    /\ timerReconnect' = timerReconnect \ {p}
    /\ Post(p, <<"reconnect", 0>>)
    /\ UNCHANGED <<nSessionId, timerHeartbeat, net, beats, peerSessionId, inbound, unreported>>
-----------------------------------------------------------------------------
(* The handlers                                                            *)

\* ConnectServerInstance, from the reconnect timer.
ConnectServerInstance(p) ==
    /\ At(p, <<"reconnect", 0>>)
    /\ Done(p)
    /\ connecting' = [connecting EXCEPT ![p] = @ + 1]
    /\ UNCHANGED <<nSessionId, timers, m_mapSession, up, unnamed, beats,
                   peerSessionId, inbound, unreported>>

\* The sessions SendPacket finds.
Registered(p) == m_mapSession[p] \cup accepted[p]

\* OnHeartbeat up to its co_await: SendPacket finds the session or does not.
OnHeartbeat(p, s, known) ==
    beats' = [beats EXCEPT ![p][<<s, IF s \in known THEN "sent" ELSE "lost">>] = @ + 1]

\* OnConnectSucess. (It is never called with bSuccess = false: see NetSession.)
OnConnectSucess(p, s) ==
    LET known == m_mapSession[p] \cup {s} IN
    /\ At(p, <<"connected", s>>)
    /\ Done(p)
    /\ m_mapSession' = [m_mapSession EXCEPT ![p] = known]
    /\ nSessionId' = [nSessionId EXCEPT ![p] = s]
    /\ OnHeartbeat(p, s, known)
    /\ UNCHANGED <<timers, up, connecting, unnamed, peerSessionId, inbound, unreported>>

\* The reconnect timer is armed first and cancelled with the other one.
DisconnectCancelsLast(p, s) ==
    /\ nSessionId' = [nSessionId EXCEPT ![p] = IF @ = s THEN 0 ELSE @]
    /\ timerHeartbeat' = timerHeartbeat \ {p}
    /\ timerReconnect' = timerReconnect \ {p}

\* The session is kept until another one takes its place.
DisconnectKeepsId(p, s) ==
    /\ UNCHANGED nSessionId
    /\ timerHeartbeat' = timerHeartbeat \ {p}
    /\ timerReconnect' = timerReconnect \cup {p}

\* OnDisconnect: whatever session it is about, both timers are cancelled and
\* the reconnect timer is armed.
Disconnect(p, s) ==
    /\ nSessionId' = [nSessionId EXCEPT ![p] = IF @ = s THEN 0 ELSE @]
    /\ timerHeartbeat' = timerHeartbeat \ {p}
    /\ timerReconnect' = timerReconnect \cup {p}

\* The close callback of a session: OnDisconnect, then it leaves the map.
OnDisconnect(p, s) ==
    /\ At(p, <<"closed", s>>)
    /\ Done(p)
    /\ Disconnect(p, s)
    /\ m_mapSession' = [m_mapSession EXCEPT ![p] = @ \ {s}]
    /\ UNCHANGED <<up, connecting, unnamed, beats, peerSessionId, inbound, unreported>>

\* The heartbeat timer: OnHeartbeat on the session that is current by now.
OnHeartbeatTimer(p) ==
    /\ At(p, <<"heartbeat", 0>>)
    /\ Done(p)
    /\ OnHeartbeat(p, nSessionId[p], Registered(p))
    /\ UNCHANGED <<nSessionId, timers, net, peerSessionId, inbound, unreported>>

\* The peer takes the first session it hears of and keeps it.
OnHandleSSHeartbeatReqFirst(p, s) ==
    /\ beats[p][<<s, "sent">>] > 0
    /\ beats' = [beats EXCEPT ![p][<<s, "sent">>] = @ - 1, ![p][<<s, "back">>] = @ + 1]
    /\ peerSessionId' = [peerSessionId EXCEPT ![p] = IF p \in KnownTo /\ @ = 0 THEN s ELSE @]
    /\ UNCHANGED <<nSessionId, timers, mainQ, net, inbound, unreported>>

\* OnHandleSSHeartbeatReq of the peer: the session is taken over if the sender
\* is in the list, and the answer says whether it is.
OnHandleSSHeartbeatReq(p, s) ==
    /\ beats[p][<<s, "sent">>] > 0
    /\ beats' = [beats EXCEPT ![p][<<s, "sent">>] = @ - 1, ![p][<<s, "back">>] = @ + 1]
    /\ peerSessionId' = [peerSessionId EXCEPT ![p] = IF p \in KnownTo THEN s ELSE @]
    /\ UNCHANGED <<nSessionId, timers, mainQ, net, inbound, unreported>>

\* A good answer ends the heartbeats.
HeartbeatAnsweredOnce(p, s) ==
    /\ p \in KnownTo
    /\ beats[p][<<s, "back">>] > 0
    /\ beats' = [beats EXCEPT ![p][<<s, "back">>] = @ - 1]
    /\ UNCHANGED <<nSessionId, timers, mainQ, net, peerSessionId, inbound, unreported>>

\* OnHeartbeat resumes with a good answer: the timer is armed (anew).
HeartbeatAnswered(p, s) ==
    /\ p \in KnownTo
    /\ beats[p][<<s, "back">>] > 0
    /\ beats' = [beats EXCEPT ![p][<<s, "back">>] = @ - 1]
    /\ timerHeartbeat' = timerHeartbeat \cup {p}
    /\ UNCHANGED <<nSessionId, timerReconnect, mainQ, net, peerSessionId, inbound, unreported>>

\* CloseInMainLoop of the session, if it is still there. The close callback comes
\* later; an accepted session has none (that it ends now is AcceptedEnds).
CloseInMainLoop(p, s) ==
    IF s \in m_mapSession[p] \cap up[p]
    THEN /\ up' = [up EXCEPT ![p] = @ \ {s}]
         /\ Post(p, <<"closed", s>>)
    ELSE UNCHANGED <<up, mainQ>>

\* The session is closed, and OnDisconnect is left to its close callback.
HeartbeatFailedCloses(p, s, state) ==
    /\ beats[p][<<s, state>>] > 0
    /\ beats' = [beats EXCEPT ![p][<<s, state>>] = @ - 1]
    /\ timerHeartbeat' = timerHeartbeat \cup {p}
    /\ CloseInMainLoop(p, s)
    /\ UNCHANGED <<nSessionId, timerReconnect, m_mapSession, connecting, unnamed,
                   peerSessionId, inbound, unreported>>

\* OnHeartbeat resumes with an error or a timeout: the timer it has armed is
\* cancelled by OnDisconnect.
HeartbeatFailed(p, s, state) ==
    /\ beats[p][<<s, state>>] > 0
    /\ beats' = [beats EXCEPT ![p][<<s, state>>] = @ - 1]
    /\ Disconnect(p, s)
    /\ CloseInMainLoop(p, s)
    /\ UNCHANGED <<m_mapSession, connecting, unnamed, peerSessionId, inbound, unreported>>

\* Every heartbeat timer and every callback is through: the server is idle.
Idle ==
    /\ \A p \in Peers : p \in unreported /\ mainQ[p] = <<>>
    /\ UNCHANGED vars
-----------------------------------------------------------------------------
(* Servers that connect to this one                                        *)

\* A connection of p is accepted and registered in the main loop. A peer takes
\* the session for the one to this server (its OnConnectSucess).
Accept(p, s) ==
    /\ Listens(Self)
    /\ Cardinality(accepted[p]) < MaxAccepted
    /\ s \in FreeIds(p) /\ s = Min(FreeIds(p))
    /\ accepted' = [accepted EXCEPT ![p] = @ \cup {s}]
    /\ peerSessionId' = [peerSessionId EXCEPT ![p] = s]
    /\ UNCHANGED <<nSessionId, timers, mainQ, net, beats, heard, unreported>>

\* It ends and leaves the map of the main loop; nobody here is told. A peer takes
\* it back (its OnDisconnect).
AcceptedEnds(p, s) ==
    /\ s \in accepted[p]
    /\ accepted' = [accepted EXCEPT ![p] = @ \ {s}]
    /\ peerSessionId' = [peerSessionId EXCEPT ![p] = IF @ = s THEN 0 ELSE @]
    /\ UNCHANGED <<nSessionId, timers, mainQ, net, beats, heard, unreported>>

\* p sends a heartbeat on the session it has for this server, which one of the two
\* has connected. It is read, and queued for the main thread.
HeartbeatComes(p, s) ==
    /\ s = peerSessionId[p]
    /\ s \in accepted[p] \cup (m_mapSession[p] \cap up[p])
    /\ Cardinality(heard[p]) < MaxAccepted
    /\ heard' = [heard EXCEPT ![p] = @ \cup {s}]
    /\ UNCHANGED <<nSessionId, timers, mainQ, net, beats, peerSessionId, accepted, unreported>>

\* OnHandleSSHeartbeatReq of this server, for a sender of its list: the session
\* becomes the sender's, whatever has become of it since the heartbeat was read.
HeartbeatHeard(p, s) ==
    /\ s \in heard[p]
    /\ heard' = [heard EXCEPT ![p] = @ \ {s}]
    /\ nSessionId' = [nSessionId EXCEPT ![p] = s]
    /\ UNCHANGED <<timers, mainQ, net, beats, peerSessionId, accepted, unreported>>
-----------------------------------------------------------------------------
MainStep(p) ==
    \/ ConnectServerInstance(p)
    \/ \E s \in Ids : OnConnectSucess(p, s)
    \/ \E s \in Ids \cup {0} : OnDisconnect(p, s)
    \/ OnHeartbeatTimer(p)

ConnectEnds(p) == ConnectSecond(p) \/ \E s \in Ids : ConnectOk(p, s)

Settles(p, s) ==
    \/ HeartbeatAnswered(p, s)
    \/ \E state \in {"lost", "sent", "back"} : HeartbeatFailed(p, s, state)

Next ==
    \/ \E p \in Peers :
        \/ MainStep(p)
        \/ ConnectEnds(p)
        \/ UnnamedEnds(p)
        \/ HeartbeatExpires(p)
        \/ ReconnectExpires(p)
        \/ \E s \in Ids : ConnectionEnds(p, s) \/ OnHandleSSHeartbeatReq(p, s)
        \/ \E s \in Ids \cup {0} : Settles(p, s)
    \/ \E p \in Dialers, s \in Ids :
        \/ Accept(p, s)
        \/ AcceptedEnds(p, s)
        \/ HeartbeatComes(p, s)
        \/ HeartbeatHeard(p, s)
    \/ Idle

Spec == Init /\ [][Next]_vars

(***************************************************************************)
(* The main loop runs what is ready, armed timers expire, a connect ends    *)
(* one way or the other, and RpcPromise settles every heartbeat. A session  *)
(* that carries no heartbeats of either is dropped by the read timeout      *)
(* (SilentPeerIsDropped of NetSession). No connection need fail, and no     *)
(* peer need answer.                                                        *)
(***************************************************************************)
SilentSessionEnds(p, s) ==
    /\ s # nSessionId[p]
    /\ \A state \in {"sent", "back"} : beats[p][<<s, state>>] = 0
    /\ p \in Dialers => s # peerSessionId[p]
    /\ ConnectionEnds(p, s)

Fairness ==
    \A p \in Peers :
        /\ WF_vars(MainStep(p))
        /\ WF_vars(ConnectEnds(p))
        /\ WF_vars(UnnamedEnds(p))
        /\ WF_vars(HeartbeatExpires(p))
        /\ WF_vars(ReconnectExpires(p))
        /\ \A s \in Ids \cup {0} : WF_vars(Settles(p, s))
        /\ \A s \in Ids : WF_vars(SilentSessionEnds(p, s))

FairSpec == Spec /\ Fairness
-----------------------------------------------------------------------------
(* Properties                                                              *)

\* Every variable has its type.
TypeOK ==
    /\ nSessionId \in [Listed -> Ids \cup {0}]
    /\ timerHeartbeat \subseteq Peers
    /\ timerReconnect \subseteq Peers
    /\ mainQ \in [Listed -> Seq(Events)]
    /\ m_mapSession \in [Listed -> SUBSET Ids]
    /\ up \in [Listed -> SUBSET Ids]
    /\ connecting \in [Listed -> Nat]
    /\ unnamed \in [Listed -> Nat]
    /\ beats \in [Listed -> [Beats -> Nat]]
    /\ peerSessionId \in [Listed -> Ids \cup {0}]
    /\ accepted \in [Listed -> SUBSET Ids]
    /\ heard \in [Listed -> SUBSET Ids]
    /\ unreported \subseteq Peers

\* For a server that this one connects to, and that does not connect to this one,
\* GetServerSessionId hands out only sessions that SendPacket can find: whatever
\* ends a session, and however late, the list forgets it no later than the main
\* loop does. (The session of a server that is known by its heartbeats stays in
\* the list when it ends.)
NoDeadSession ==
    \A p \in Peers \ Dialers : nSessionId[p] # 0 => nSessionId[p] \in m_mapSession[p]

\* No server of the connect list is given up: however heartbeats, closes and
\* timers meet, something on its way will lead to the next heartbeat or the next
\* connect, unless a connect has ended without a callback.
Supervised ==
    \A p \in Peers \ unreported :
        \/ p \in timerHeartbeat \cup timerReconnect
        \/ mainQ[p] # <<>>
        \/ connecting[p] + unnamed[p] > 0
        \/ \E b \in Beats : beats[p][b] > 0

\* The first attempt of a connect has failed: whatever becomes of the second, it
\* is not announced.
Unannounced(p) == p \in unreported \/ unnamed[p] > 0

\* A server that is not reached is connected to again, unless a first attempt
\* fails.
LossIsRepaired ==
    \A p \in Peers :
        nSessionId[p] = 0 ~> (nSessionId[p] # 0 \/ Unannounced(p))

\* The session of a server that this one connects to, and that connects to this
\* one as well, does not stay in the list once it has ended, although the end of
\* an accepted session calls nobody, and although a late heartbeat can enter it
\* after its end: the server's own heartbeats find out, unless a first attempt to
\* connect fails.
DeadIsTakenBack ==
    \A p \in Peers :
        nSessionId[p] \notin Registered(p) \cup {0} ~>
            (nSessionId[p] \in Registered(p) \cup {0} \/ Unannounced(p))

\* A server that has this one in its list learns of every session that lasts,
\* also when it knew another one before or handles a late heartbeat of an old
\* one, unless a first attempt to connect fails.
PeerLearns ==
    \A p \in KnownTo, s \in Ids :
        nSessionId[p] = s ~> 
            (peerSessionId[p] = s \/ nSessionId[p] # s \/ Unannounced(p))
=============================================================================
