----------------------------- MODULE NetSession -----------------------------
(***************************************************************************)
(* The life of sessions in NetModule, over three kinds of threads.          *)
(*                                                                         *)
(* A peer's connection is accepted on the listen loop, entered in the map   *)
(* of its network thread (t_mapSessionInNetLoop), then in the map of the    *)
(* main loop (m_mapSession), and read from there on. A connection of our    *)
(* own is requested on the main loop, completed on a network thread and     *)
(* registered the same way, net first, main second. A close may come from a *)
(* failed read, refused data, the read timeout, the main loop or the stop   *)
(* of the server; it closes the socket on the network thread, calls the     *)
(* close callback on the main loop and takes the session out of both maps,  *)
(* main first, net second.                                                  *)
(*                                                                         *)
(* Threads talk only by posting closures (Loop::Exec). A loop runs one      *)
(* handler at a time, in the order in which they became ready: netQ[s] is   *)
(* the part of its network loop's queue that concerns session s, mainQ the  *)
(* main loop's. What the socket and the timers do is external.              *)
(***************************************************************************)
EXTENDS Naturals, Sequences, FiniteSets

CONSTANTS Accepts,      \* bound: sessions that peers open
          Connects,     \* bound: sessions this server opens
          NoSession,    \* not a session
          Budgets       \* bounds: what a behaviour may be made of, see below

ASSUME SessionAssumption ==
    /\ Accepts \cap Connects = {}
    /\ NoSession \notin Accepts \cup Connects

(***************************************************************************)
(* A budget: how often data arrives on a session, how often CloseInMainLoop *)
(* and SendPacket are called, whether the server may be stopped, and which  *)
(* of its own sessions it may open. A behaviour begins with one of them.    *)
(***************************************************************************)
ASSUME SessionBounds ==
    Budgets \subseteq [reads : Nat, orders : Nat, stops : 0..1, connects : SUBSET Connects]

Sessions == Accepts \cup Connects

VARIABLES m_mapSession,         \* sessions the main loop knows
          t_mapSession,         \* t_mapSessionInNetLoop of the sessions' threads
          sock,                 \* the socket: "none", "open" or "closed"
          reading,              \* an async_read_some is outstanding
          m_timerSessionAlive,  \* the read timeout is armed
          m_funSessionClose,    \* the close callback has not been used up
          named,                \* sessions with an id (m_nSessionId # 0)
          netQ,                 \* [session -> handlers ready on its thread]
          mainQ,                \* handlers ready on the main loop
          conn,                 \* how far Connect has come
          accepting,            \* the session the acceptor waits with
          stage,                \* of the process: see below
          connectCalls,         \* calls of the application's ConnectCb
          closeCalls,           \* calls of the application's CloseCb
          reads,                \* [session -> arrivals of data still to come]
          orders,               \* calls of CloseInMainLoop and SendPacket to come
          stops                 \* 1 if the server may be stopped

maps == <<m_mapSession, t_mapSession>>
io == <<sock, reading, m_timerSessionAlive>>
queues == <<netQ, mainQ>>
calls == <<m_funSessionClose, connectCalls, closeCalls>>
opening == <<named, conn, accepting>>
bounds == <<reads, orders, stops>>
vars == <<maps, io, queues, calls, opening, bounds, stage>>

(***************************************************************************)
(* stage: "run"; "stopping", NetModule::OnStop has posted the closes;       *)
(* "joined", it has stopped the work loops; "stopped", the listen loop too. *)
(* "thrown" and "asserted" are ends of the process by an exception that     *)
(* nobody catches and by Accept's assertion.                                *)
(*                                                                         *)
(* conn: "unused", there is no such session to open; "posted", Connect was  *)
(* called; "first", async_connect is outstanding; "second", so is the one   *)
(* after a failure; "up"; "failed".                                         *)
(***************************************************************************)
Stages == {"run", "stopping", "joined", "stopped", "thrown", "asserted"}
ConnStates == {"unused", "none", "posted", "first", "second", "up", "failed"}
NetOps == {"register", "readOk", "readErr", "timeout", "send", "close", "erase", "clear"}
MainOps == {"accepted", "connect", "connected", "closed", "remove"}

Init ==
    /\ m_mapSession = {}
    /\ t_mapSession = {}
    /\ sock = [s \in Sessions |-> "none"]
    /\ reading = {}
    /\ m_timerSessionAlive = {}
    /\ m_funSessionClose = {}
    /\ named = {}
    /\ netQ = [s \in Sessions |-> <<>>]
    /\ mainQ = <<>>
    /\ accepting = NoSession
    /\ stage = "run"
    /\ connectCalls = [s \in Sessions |-> 0]
    /\ closeCalls = [s \in Sessions |-> 0]
    /\ \E b \in Budgets :
           /\ reads = [s \in Sessions |-> b.reads]
           /\ orders = b.orders
           /\ stops = b.stops
           /\ conn = [s \in Sessions |-> IF s \in b.connects THEN "none" ELSE "unused"]
-----------------------------------------------------------------------------
(* Loop::Exec and the loops                                                *)

NetRuns == stage \in {"run", "stopping"}

AtNet(s, op) == NetRuns /\ netQ[s] # <<>> /\ Head(netQ[s]) = op
AtMain(s, op) == stage = "run" /\ mainQ # <<>> /\ Head(mainQ) = <<op, s>>

\* A handler becomes ready on the thread of session s.
PostNet(s, op) == netQ' = [netQ EXCEPT ![s] = Append(@, op)]

\* The handler at the front runs and posts ops to its own loop.
NetDone(s, ops) == netQ' = [netQ EXCEPT ![s] = Tail(@) \o ops]

PostMain(s, ops) == mainQ' = mainQ \o [i \in 1..Len(ops) |-> <<ops[i], s>>]
MainDone == mainQ' = Tail(mainQ)

\* DoSessionRead: an async_read_some on a closed socket fails at once.
DoSessionRead(s) ==
    reading' = IF sock[s] = "open" THEN reading \cup {s} ELSE reading
ReadOps(s) == IF sock[s] = "open" THEN <<>> ELSE <<"readErr">>
-----------------------------------------------------------------------------
(* The listen loop                                                         *)

\* Accept: the next session is made and given to the acceptor. Its thread is
\* taken from the work loops, which must still be there.
AcceptNext ==
    \/ \E s \in Accepts : /\ s \notin named
                          /\ accepting' = s
                          /\ named' = named \cup {s}
    \/ /\ Accepts \subseteq named
       /\ accepting' = NoSession
       /\ UNCHANGED named

\* Listen posts the first Accept.
Listen ==
    /\ stage = "run"
    /\ accepting = NoSession
    /\ Accepts \cap named = {}
    /\ AcceptNext
    /\ UNCHANGED <<maps, io, queues, calls, bounds, conn, stage>>

\* The acceptor's handler: a connection came in and is posted to its thread, or
\* accepting failed; either way the next Accept follows.
AcceptDone(s) ==
    /\ accepting = s
    /\ stage \in {"run", "stopping"}
    /\ \/ /\ sock' = [sock EXCEPT ![s] = "open"]
          /\ PostNet(s, "register")
       \/ UNCHANGED <<sock, netQ>>
    /\ AcceptNext
    /\ UNCHANGED <<maps, calls, bounds, reading, m_timerSessionAlive, mainQ,
                   conn, stage>>

\* The acceptor's handler after the work loops are gone: LoopPool::GetLoop
\* finds no loop, and Accept's assertion fails.
AcceptAsserts(s) ==
    /\ accepting = s
    /\ stage = "joined"
    /\ stage' = "asserted"
    /\ UNCHANGED <<maps, io, queues, calls, opening, bounds>>
-----------------------------------------------------------------------------
(* Registration: the session's thread first, the main loop second          *)

\* On the session's thread. Only accepted sessions have a read timeout.
NetRegister(s) ==
    /\ AtNet(s, "register")
    /\ t_mapSession' = t_mapSession \cup {s}
    /\ m_timerSessionAlive' = IF s \in Accepts THEN m_timerSessionAlive \cup {s}
                                               ELSE m_timerSessionAlive
    /\ NetDone(s, <<>>)
    /\ PostMain(s, <<IF s \in Accepts THEN "accepted" ELSE "connected">>)
    /\ UNCHANGED <<calls, opening, bounds, m_mapSession, sock, reading, stage>>

\* On the main loop, for an accepted session: reading starts here.
MainAccepted(s) ==
    /\ AtMain(s, "accepted")
    /\ sock[s] = "open"
    /\ m_mapSession' = m_mapSession \cup {s}
    /\ DoSessionRead(s)
    /\ MainDone
    /\ UNCHANGED <<calls, opening, bounds, t_mapSession, sock,
                   m_timerSessionAlive, netQ, stage>>

\* remote_endpoint() throws when the socket is closed or the peer has reset the
\* connection already, and nobody catches the exception.
MainAcceptedThrows(s) ==
    /\ AtMain(s, "accepted")
    /\ stage' = "thrown"
    /\ UNCHANGED <<maps, io, queues, calls, opening, bounds>>

\* Reading is started here as it is for an accepted session.
MainConnectedReads(s) ==
    /\ AtMain(s, "connected")
    /\ m_mapSession' = m_mapSession \cup {s}
    /\ connectCalls' = [connectCalls EXCEPT ![s] = @ + 1]
    /\ reading' = reading \cup {s}
    /\ MainDone
    /\ UNCHANGED <<opening, bounds, t_mapSession, sock, m_timerSessionAlive,
                   m_funSessionClose, netQ, stage, closeCalls>>

\* On the main loop, for a session of our own: ConnectCb is called.
MainConnected(s) ==
    /\ AtMain(s, "connected")
    /\ m_mapSession' = m_mapSession \cup {s}
    /\ connectCalls' = [connectCalls EXCEPT ![s] = @ + 1]
    /\ MainDone
    /\ UNCHANGED <<io, opening, bounds, t_mapSession, m_funSessionClose, netQ,
                   stage, closeCalls>>
-----------------------------------------------------------------------------
(* Connect                                                                 *)

\* Connect makes the session and posts DoSessionConnect to the main loop.
Connect(s) ==
    /\ stage = "run"
    /\ conn[s] = "none"
    /\ conn' = [conn EXCEPT ![s] = "posted"]
    /\ m_funSessionClose' = m_funSessionClose \cup {s}
    /\ PostMain(s, <<"connect">>)
    /\ UNCHANGED <<maps, io, bounds, named, netQ, accepting, stage,
                   connectCalls, closeCalls>>

MainConnect(s) ==
    /\ AtMain(s, "connect")
    /\ conn' = [conn EXCEPT ![s] = "first"]
    /\ MainDone
    /\ UNCHANGED <<maps, io, calls, bounds, named, netQ, accepting, stage>>

\* async_connect's handler, success: at the first attempt the session gets its
\* id and is posted for registration. At the second one there is no callback to
\* do so: the session is read from and is in no map. Reading starts here.
ConnectOk(s) ==
    /\ NetRuns
    /\ conn[s] \in {"first", "second"}
    /\ conn' = [conn EXCEPT ![s] = "up"]
    /\ sock' = [sock EXCEPT ![s] = "open"]
    /\ reading' = reading \cup {s}
    /\ \/ /\ conn[s] = "first"
          /\ named' = named \cup {s}
          /\ PostNet(s, "register")
       \/ /\ conn[s] = "second"
          /\ UNCHANGED <<named, netQ>>
    /\ UNCHANGED <<maps, calls, bounds, m_timerSessionAlive, mainQ, accepting,
                   stage>>

\* async_connect's handler, failure: one more attempt, without a callback.
ConnectFails(s) ==
    /\ NetRuns
    /\ conn[s] \in {"first", "second"}
    /\ conn' = [conn EXCEPT ![s] = IF @ = "first" THEN "second" ELSE "failed"]
    /\ UNCHANGED <<maps, io, queues, calls, bounds, named, accepting, stage>>
-----------------------------------------------------------------------------
(* Reading                                                                 *)

\* Data arrives, or the peer closes or resets the connection.
SocketReadable(s) ==
    /\ NetRuns
    /\ s \in reading
    /\ reading' = reading \ {s}
    /\ \/ /\ reads[s] > 0
          /\ reads' = [reads EXCEPT ![s] = @ - 1]
          /\ PostNet(s, "readOk")
       \/ /\ PostNet(s, "readErr")
          /\ UNCHANGED reads
    /\ UNCHANGED <<maps, calls, opening, sock, m_timerSessionAlive, mainQ,
                   stage, orders, stops>>

\* The read timeout is cancelled and not armed again.
NetReadOkCancels(s) ==
    /\ AtNet(s, "readOk")
    /\ \E ops \in {<<>>, <<"close">>} : NetDone(s, ops \o ReadOps(s))
    /\ m_timerSessionAlive' = m_timerSessionAlive \ {s}
    /\ DoSessionRead(s)
    /\ UNCHANGED <<maps, calls, opening, bounds, stage, sock, mainQ>>

\* The data is handled and the next read issued. The handler may refuse the
\* data: the session is closed. OnReadSession (accepted sessions) does nothing
\* for a session its thread does not know, and arms the timeout anew: an expiry
\* that is ready already is not taken back by Cancel.
NetReadOk(s) ==
    /\ AtNet(s, "readOk")
    /\ \/ /\ s \in Accepts /\ s \notin t_mapSession
          /\ NetDone(s, ReadOps(s))
          /\ UNCHANGED m_timerSessionAlive
       \/ /\ s \in Accepts => s \in t_mapSession
          /\ \E ops \in {<<>>, <<"close">>} : NetDone(s, ops \o ReadOps(s))
          /\ m_timerSessionAlive' = IF s \in Accepts THEN m_timerSessionAlive \cup {s}
                                                     ELSE m_timerSessionAlive
    /\ DoSessionRead(s)
    /\ UNCHANGED <<maps, calls, opening, bounds, sock, mainQ, stage>>

\* A failed read posts the close and ends the chain of reads.
NetReadErr(s) ==
    /\ AtNet(s, "readErr")
    /\ NetDone(s, <<"close">>)
    /\ UNCHANGED <<maps, io, calls, opening, bounds, mainQ, stage>>

\* kDefaultTimeoutMillseconds have passed since the timer was armed.
TimerExpires(s) ==
    /\ NetRuns
    /\ s \in m_timerSessionAlive
    /\ m_timerSessionAlive' = m_timerSessionAlive \ {s}
    /\ PostNet(s, "timeout")
    /\ UNCHANGED <<maps, calls, opening, bounds, sock, reading, mainQ, stage>>

\* DoTimerSessionReadTimeout
NetTimeout(s) ==
    /\ AtNet(s, "timeout")
    /\ NetDone(s, IF s \in t_mapSession THEN <<"close">> ELSE <<>>)
    /\ UNCHANGED <<maps, io, calls, opening, bounds, mainQ, stage>>
-----------------------------------------------------------------------------
(* Writing                                                                 *)

\* SendPacket finds the session on the main loop and posts the write.
SendPacket(s) ==
    /\ stage = "run"
    /\ orders > 0
    /\ orders' = orders - 1
    /\ s \in m_mapSession
    /\ PostNet(s, "send")
    /\ UNCHANGED <<maps, io, calls, opening, mainQ, stage, reads, stops>>

\* The write is done, or it fails and its handler posts the close; on a closed
\* socket it fails.
NetSend(s) ==
    /\ AtNet(s, "send")
    /\ \/ sock[s] = "open" /\ NetDone(s, <<>>)
       \/ NetDone(s, <<"close">>)
    /\ UNCHANGED <<maps, io, calls, opening, bounds, mainQ, stage>>
-----------------------------------------------------------------------------
(* Closing                                                                 *)

\* CloseInMainLoop, called by any module on the main loop.
CloseInMainLoop(s) ==
    /\ stage = "run"
    /\ orders > 0
    /\ orders' = orders - 1
    /\ s \in m_mapSession
    /\ PostNet(s, "close")
    /\ UNCHANGED <<maps, io, calls, opening, mainQ, stage, reads, stops>>

\* The close callback stays in place after it was used.
NetCloseKeepsCb(s) ==
    /\ AtNet(s, "close")
    /\ sock' = [sock EXCEPT ![s] = "closed"]
    /\ reading' = reading \ {s}
    /\ NetDone(s, IF s \in reading THEN <<"readErr">> ELSE <<>>)
    /\ PostMain(s, IF s \in m_funSessionClose THEN <<"closed", "remove">> ELSE <<"remove">>)
    /\ UNCHANGED <<maps, calls, opening, bounds, m_timerSessionAlive, stage>>

\* The session is taken out of the maps only if nobody is told of its end.
NetCloseNoRemove(s) ==
    /\ AtNet(s, "close")
    /\ sock' = [sock EXCEPT ![s] = "closed"]
    /\ reading' = reading \ {s}
    /\ NetDone(s, IF s \in reading THEN <<"readErr">> ELSE <<>>)
    /\ m_funSessionClose' = m_funSessionClose \ {s}
    /\ PostMain(s, IF s \in m_funSessionClose THEN <<"closed">> ELSE <<>>)
    /\ UNCHANGED <<maps, opening, bounds, m_timerSessionAlive, stage,
                   connectCalls, closeCalls>>

\* The session is taken out of its thread's map at once.
NetCloseErases(s) ==
    /\ AtNet(s, "close")
    /\ t_mapSession' = t_mapSession \ {s}
    /\ sock' = [sock EXCEPT ![s] = "closed"]
    /\ reading' = reading \ {s}
    /\ NetDone(s, IF s \in reading THEN <<"readErr">> ELSE <<>>)
    /\ m_funSessionClose' = m_funSessionClose \ {s}
    /\ PostMain(s, IF s \in m_funSessionClose THEN <<"closed", "remove">> ELSE <<"remove">>)
    /\ UNCHANGED <<opening, bounds, m_mapSession, m_timerSessionAlive, stage,
                   connectCalls, closeCalls>>

\* DoSessionCloseInNetLoop: an outstanding read fails; the close callback is
\* posted once; RemoveMapSession is posted every time.
NetClose(s) ==
    /\ AtNet(s, "close")
    /\ sock' = [sock EXCEPT ![s] = "closed"]
    /\ reading' = reading \ {s}
    /\ NetDone(s, IF s \in reading THEN <<"readErr">> ELSE <<>>)
    /\ m_funSessionClose' = m_funSessionClose \ {s}
    /\ PostMain(s, IF s \in m_funSessionClose THEN <<"closed", "remove">> ELSE <<"remove">>)
    /\ UNCHANGED <<maps, opening, bounds, m_timerSessionAlive, stage,
                   connectCalls, closeCalls>>

\* A session of the main loop's map leaves it and is posted to leave the other.
LeaveMaps(s) ==
    /\ m_mapSession' = m_mapSession \ {s}
    /\ IF s \in m_mapSession THEN PostNet(s, "erase") ELSE UNCHANGED netQ

\* The close callback of a session of our own, on the main loop.
MainClosed(s) ==
    /\ AtMain(s, "closed")
    /\ closeCalls' = [closeCalls EXCEPT ![s] = @ + 1]
    /\ LeaveMaps(s)
    /\ MainDone
    /\ UNCHANGED <<io, opening, bounds, t_mapSession, m_funSessionClose, stage,
                   connectCalls>>

\* RemoveMapSession's closure.
MainRemove(s) ==
    /\ AtMain(s, "remove")
    /\ LeaveMaps(s)
    /\ MainDone
    /\ UNCHANGED <<io, calls, opening, bounds, t_mapSession, stage>>

\* The session leaves its thread's map, or the whole map is cleared.
NetErase(s) ==
    /\ AtNet(s, "erase") \/ AtNet(s, "clear")
    /\ t_mapSession' = t_mapSession \ {s}
    /\ NetDone(s, <<>>)
    /\ UNCHANGED <<io, calls, opening, bounds, m_mapSession, mainQ, stage>>
-----------------------------------------------------------------------------
(* NetModule::OnStop, in a handler of the main loop                        *)

\* The closes and the clearing of the threads' maps are posted.
StopBegin ==
    /\ stage = "run"
    /\ stops > 0
    /\ stage' = "stopping"
    /\ netQ' = [s \in Sessions |->
                   netQ[s] \o (IF s \in m_mapSession THEN <<"close">> ELSE <<>>)
                           \o <<"clear">>]
    /\ UNCHANGED <<maps, io, calls, opening, bounds, mainQ>>

\* The work loops are stopped and joined between two handlers, and destroyed.
StopWorkLoops ==
    /\ stage = "stopping"
    /\ stage' = "joined"
    /\ UNCHANGED <<maps, io, queues, calls, opening, bounds>>

StopListenLoop ==
    /\ stage = "joined"
    /\ stage' = "stopped"
    /\ UNCHANGED <<maps, io, queues, calls, opening, bounds>>

\* Every loop waits for a peer, a timer or a module of the server.
Idle ==
    /\ stage = "run"
    /\ mainQ = <<>>
    /\ \A s \in Sessions : netQ[s] = <<>>
    /\ UNCHANGED vars

Terminated == stage \in {"stopped", "thrown", "asserted"} /\ UNCHANGED vars
-----------------------------------------------------------------------------
NetStep(s) ==
    \/ NetRegister(s)
    \/ NetReadOk(s)
    \/ NetReadErr(s)
    \/ NetTimeout(s)
    \/ NetSend(s)
    \/ NetClose(s)
    \/ NetErase(s)

MainStep ==
    \E s \in Sessions :
        \/ MainAccepted(s)
        \/ MainAcceptedThrows(s)
        \/ MainConnect(s)
        \/ MainConnected(s)
        \/ MainClosed(s)
        \/ MainRemove(s)

Next ==
    \/ Listen
    \/ \E s \in Accepts : AcceptDone(s) \/ AcceptAsserts(s)
    \/ \E s \in Connects : Connect(s) \/ ConnectOk(s) \/ ConnectFails(s)
    \/ \E s \in Sessions : NetStep(s) \/ SocketReadable(s) \/ TimerExpires(s)
                                      \/ CloseInMainLoop(s) \/ SendPacket(s)
    \/ MainStep
    \/ StopBegin
    \/ StopWorkLoops
    \/ StopListenLoop
    \/ Idle
    \/ Terminated

Spec == Init /\ [][Next]_vars

(***************************************************************************)
(* Every loop runs the handlers that are ready, a timer that is armed       *)
(* expires and an async_connect completes one way or the other. Peers       *)
(* promise nothing: they need not connect, send or close.                   *)
(***************************************************************************)
Fairness ==
    /\ \A s \in Sessions : WF_vars(NetStep(s)) /\ WF_vars(TimerExpires(s))
    /\ \A s \in Connects : WF_vars(ConnectOk(s) \/ ConnectFails(s))
    /\ WF_vars(MainStep)

FairSpec == Spec /\ Fairness
-----------------------------------------------------------------------------
(* Properties                                                              *)

\* Every variable has its type.
TypeOK ==
    /\ m_mapSession \subseteq Sessions
    /\ t_mapSession \subseteq Sessions
    /\ sock \in [Sessions -> {"none", "open", "closed"}]
    /\ reading \subseteq Sessions
    /\ m_timerSessionAlive \subseteq Accepts
    /\ m_funSessionClose \subseteq Connects
    /\ named \subseteq Sessions
    /\ netQ \in [Sessions -> Seq(NetOps)]
    /\ mainQ \in Seq(MainOps \X Sessions)
    /\ conn \in [Sessions -> ConnStates]
    /\ accepting \in Accepts \cup {NoSession}
    /\ stage \in Stages
    /\ connectCalls \in [Sessions -> Nat]
    /\ closeCalls \in [Sessions -> Nat]
    /\ reads \in [Sessions -> Nat]
    /\ orders \in Nat
    /\ stops \in 0..1

OnMain(s, op) == \E i \in 1..Len(mainQ) : mainQ[i] = <<op, s>>
OnNet(s, op) == \E i \in 1..Len(netQ[s]) : netQ[s][i] = op

\* A session the main loop can find is known to its own thread too: the thread
\* learns of it before the main loop does and forgets it after.
MainKnowsLess == stage = "run" => m_mapSession \subseteq t_mapSession

\* A closed session does not stay behind: wherever a map still has it, the
\* closure that takes it out is on its way, and so is the one that enters it
\* if the main loop has not seen it yet.
NoGhost ==
    stage = "run" => \A s \in Sessions : sock[s] = "closed" =>
        /\ s \in m_mapSession => OnMain(s, "remove")
        /\ s \in t_mapSession \ m_mapSession =>
               OnNet(s, "erase") \/ OnMain(s, "accepted") \/ OnMain(s, "connected")

\* The application hears of the end of a session at most once, and of the end
\* of one that it may know by its id only after it has heard of its beginning,
\* whichever thread and whatever reason closed it.
CallbacksInOrder ==
    \A s \in Connects :
        /\ connectCalls[s] <= 1
        /\ closeCalls[s] <= 1
        /\ closeCalls[s] = 1 /\ s \in named => connectCalls[s] = 1

\* A session is read by one chain of reads: while one is outstanding or its
\* handler is ready, no second one is issued.
OneReadChain ==
    \A s \in Sessions :
        Cardinality({i \in 1..Len(netQ[s]) : netQ[s][i] \in {"readOk", "readErr"}})
            + (IF s \in reading THEN 1 ELSE 0) <= 1

\* A closed session leaves both maps, unless the server goes down.
ClosedIsForgotten ==
    \A s \in Sessions :
        sock[s] = "closed" ~> (s \notin m_mapSession \cup t_mapSession \/ stage # "run")

\* An accepted session whose peer falls silent is closed by the read timeout,
\* unless the server goes down.
SilentPeerIsDropped ==
    \A s \in Accepts : s \in t_mapSession ~> (sock[s] = "closed" \/ stage # "run")

\* Whoever calls Connect is told how it ended, unless the server goes down.
ConnectReported ==
    \A s \in Connects :
        conn[s] = "posted" ~> (connectCalls[s] > 0 \/ closeCalls[s] > 0 \/ stage # "run")
=============================================================================
