------------------------------ MODULE MsgQueue ------------------------------
(***************************************************************************)
(* How a packet travels from a network thread to the main thread.           *)
(*                                                                         *)
(* A network thread parses a packet (NetPbModule::GeneratePaserPacketFunc)  *)
(* and appends a closure to the shared vector m_vecMsgFunction under a      *)
(* SpinLock. Every frame the main thread (ModuleManager::UpdateModules)     *)
(* either stops the modules or runs NetPbModule::OnUpdate, which swaps the  *)
(* vector out under the lock and calls the closures without it.             *)
(*                                                                         *)
(* The grain is that of the memory accesses: SpinLock's exchange, its       *)
(* relaxed re-read and its store are steps, and so are the read and the     *)
(* write half of emplace_back and of swap. Without the lock two threads     *)
(* would overwrite each other's update, and the model shows it.             *)
(***************************************************************************)
EXTENDS Naturals, Sequences, FiniteSets

CONSTANTS NetThreads,    \* the threads of NetPbModule::m_workLoop
          Main,          \* the thread of ModuleManager::m_loop
          MaxPackets     \* bound: packets read by one network thread

ASSUME ThreadAssumption == Main \notin NetThreads
ASSUME BoundAssumption == MaxPackets \in Nat

VARIABLES m_atomic_bool,     \* SpinLock: TRUE while some thread holds it
          pc,                \* where each thread is
          received,          \* packets each network thread has read
          accepted,          \* events whose packet passed the parser's checks
          m_vecMsgFunction,  \* the shared vector
          readVec,           \* what emplace_back has read of the vector
          vecGetFunction,    \* OnUpdate's local vector, not yet called
          called,            \* events called by the main thread, in order
          m_onStop           \* ModuleManager::Stop was called

vars == <<m_atomic_bool, pc, received, accepted, m_vecMsgFunction, readVec,
          vecGetFunction, called, m_onStop>>

Threads == NetThreads \cup {Main}
Event == NetThreads \X (1..MaxPackets)

(***************************************************************************)
(* "lock" is before SpinLock's exchange and "spin" is its inner loop;       *)
(* "cs" and "cs2" are the two halves of the guarded update; "unlock" is     *)
(* the lock_guard's destructor; "run" is OnUpdate's for_each; "join" is the *)
(* stop path, waiting for the network threads; "stopped" is after it.       *)
(***************************************************************************)
Labels == {"idle", "lock", "spin", "cs", "cs2", "unlock", "run", "join", "stopped"}

\* The event network thread t has in hand while it is not idle.
InHand(t) == <<t, received[t]>>

Goto(t, label) == pc' = [pc EXCEPT ![t] = label]

Init ==
    /\ m_atomic_bool = FALSE
    /\ pc = [t \in Threads |-> "idle"]
    /\ received = [t \in NetThreads |-> 0]
    /\ accepted = {}
    /\ m_vecMsgFunction = <<>>
    /\ readVec = [t \in NetThreads |-> <<>>]
    /\ vecGetFunction = <<>>
    /\ called = <<>>
    /\ m_onStop = FALSE
-----------------------------------------------------------------------------
(* SpinLock                                                                *)

\* An unguarded store in place of the exchange: a lock that excludes nobody.
ExchangeStoreOnly(t) ==
    /\ pc[t] = "lock"
    /\ m_atomic_bool' = TRUE
    /\ Goto(t, "cs")
    /\ UNCHANGED <<received, accepted, m_vecMsgFunction, readVec,
                   vecGetFunction, called, m_onStop>>

\* lock(): the exchange finds FALSE and the caller holds the lock, or finds
\* TRUE and the caller enters the inner loop.
Exchange(t) ==
    /\ pc[t] = "lock"
    /\ m_atomic_bool' = TRUE
    /\ Goto(t, IF m_atomic_bool THEN "spin" ELSE "cs")
    /\ UNCHANGED <<received, accepted, m_vecMsgFunction, readVec,
                   vecGetFunction, called, m_onStop>>

\* lock(): the inner loop reads FALSE and goes back to the exchange.
SpinExit(t) ==
    /\ pc[t] = "spin"
    /\ ~m_atomic_bool
    /\ Goto(t, "lock")
    /\ UNCHANGED <<m_atomic_bool, received, accepted, m_vecMsgFunction, readVec,
                   vecGetFunction, called, m_onStop>>

\* unlock() without its store.
UnlockNoStore(t) ==
    /\ pc[t] = "unlock"
    /\ Goto(t, IF t = Main THEN "run" ELSE "idle")
    /\ UNCHANGED <<m_atomic_bool, received, accepted, m_vecMsgFunction, readVec,
                   vecGetFunction, called, m_onStop>>

\* unlock(), from the destructor of the lock_guard.
Unlock(t) ==
    /\ pc[t] = "unlock"
    /\ m_atomic_bool' = FALSE
    /\ Goto(t, IF t = Main THEN "run" ELSE "idle")
    /\ UNCHANGED <<received, accepted, m_vecMsgFunction, readVec,
                   vecGetFunction, called, m_onStop>>
-----------------------------------------------------------------------------
(* A network thread: the closure GeneratePaserPacketFunc returns           *)

\* The stop path stops the work loops: a handler under way ends, none starts.
WorkLoopRuns == pc[Main] \notin {"join", "stopped"}

\* A packet arrives. If its head, its ttl or its body is rejected the closure
\* returns and the caller (ReadPbPacket) ignores the result.
ReceivePacket(t) ==
    /\ pc[t] = "idle"
    /\ WorkLoopRuns
    /\ received[t] < MaxPackets
    /\ received' = [received EXCEPT ![t] = @ + 1]
    /\ \/ /\ accepted' = accepted \cup {<<t, received[t] + 1>>}
          /\ Goto(t, "lock")
       \/ UNCHANGED <<accepted, pc>>
    /\ UNCHANGED <<m_atomic_bool, m_vecMsgFunction, readVec, vecGetFunction,
                   called, m_onStop>>

\* emplace_back, first half: the vector is read.
EmplaceRead(t) ==
    /\ pc[t] = "cs"
    /\ readVec' = [readVec EXCEPT ![t] = m_vecMsgFunction]
    /\ Goto(t, "cs2")
    /\ UNCHANGED <<m_atomic_bool, received, accepted, m_vecMsgFunction,
                   vecGetFunction, called, m_onStop>>

\* emplace_back at the front: each thread's packets come out reversed.
EmplaceWriteFront(t) ==
    /\ pc[t] = "cs2"
    /\ m_vecMsgFunction' = <<InHand(t)>> \o readVec[t]
    /\ readVec' = [readVec EXCEPT ![t] = <<>>]
    /\ Goto(t, "unlock")
    /\ UNCHANGED <<m_atomic_bool, received, accepted, vecGetFunction, called, m_onStop>>

\* emplace_back, second half: the element and the new size are stored.
EmplaceWrite(t) ==
    /\ pc[t] = "cs2"
    /\ m_vecMsgFunction' = Append(readVec[t], InHand(t))
    /\ readVec' = [readVec EXCEPT ![t] = <<>>]
    /\ Goto(t, "unlock")
    /\ UNCHANGED <<m_atomic_bool, received, accepted, vecGetFunction, called, m_onStop>>
-----------------------------------------------------------------------------
(* The main thread: UpdateModules, once a frame                            *)

\* The modules' OnUpdate: NetPbModule's begins by locking.
UpdateBegin ==
    /\ pc[Main] = "idle"
    /\ ~m_onStop
    /\ Goto(Main, "lock")
    /\ UNCHANGED <<m_atomic_bool, received, accepted, m_vecMsgFunction, readVec,
                   vecGetFunction, called, m_onStop>>

\* swap, first half: the local (empty) vector takes the shared one's events.
SwapTake ==
    /\ pc[Main] = "cs"
    /\ vecGetFunction' = m_vecMsgFunction
    /\ Goto(Main, "cs2")
    /\ UNCHANGED <<m_atomic_bool, received, accepted, m_vecMsgFunction, readVec,
                   called, m_onStop>>

\* A copy in place of the swap: the shared vector keeps what was taken.
SwapCopies ==
    /\ pc[Main] = "cs2"
    /\ Goto(Main, "unlock")
    /\ UNCHANGED <<m_atomic_bool, received, accepted, m_vecMsgFunction, readVec,
                   vecGetFunction, called, m_onStop>>

\* swap, second half: the shared vector is left with the local one's nothing.
SwapClear ==
    /\ pc[Main] = "cs2"
    /\ m_vecMsgFunction' = <<>>
    /\ Goto(Main, "unlock")
    /\ UNCHANGED <<m_atomic_bool, received, accepted, readVec, vecGetFunction,
                   called, m_onStop>>

\* for_each that skips a closure after calling one.
CallNextSkips ==
    /\ pc[Main] = "run"
    /\ vecGetFunction # <<>>
    /\ called' = Append(called, Head(vecGetFunction))
    /\ vecGetFunction' = SubSeq(vecGetFunction, 3, Len(vecGetFunction))
    /\ UNCHANGED <<m_atomic_bool, pc, received, accepted, m_vecMsgFunction,
                   readVec, m_onStop>>

\* for_each: the next closure is called, without the lock.
CallNext ==
    /\ pc[Main] = "run"
    /\ vecGetFunction # <<>>
    /\ called' = Append(called, Head(vecGetFunction))
    /\ vecGetFunction' = Tail(vecGetFunction)
    /\ UNCHANGED <<m_atomic_bool, pc, received, accepted, m_vecMsgFunction,
                   readVec, m_onStop>>

\* OnUpdate returns and the frame ends.
UpdateEnd ==
    /\ pc[Main] = "run"
    /\ vecGetFunction = <<>>
    /\ Goto(Main, "idle")
    /\ UNCHANGED <<m_atomic_bool, received, accepted, m_vecMsgFunction, readVec,
                   vecGetFunction, called, m_onStop>>

\* ModuleManager::Stop, from a handler or another thread: only sets the flag.
RequestStop ==
    /\ ~m_onStop
    /\ pc[Main] \notin {"join", "stopped"}
    /\ m_onStop' = TRUE
    /\ UNCHANGED <<m_atomic_bool, pc, received, accepted, m_vecMsgFunction,
                   readVec, vecGetFunction, called>>

\* UpdateModules sees the flag and stops the modules in place of updating them.
StopBegin ==
    /\ pc[Main] = "idle"
    /\ m_onStop
    /\ Goto(Main, "join")
    /\ UNCHANGED <<m_atomic_bool, received, accepted, m_vecMsgFunction, readVec,
                   vecGetFunction, called, m_onStop>>

\* Loop::Stop has joined every network thread; the main loop stops.
StopEnd ==
    /\ pc[Main] = "join"
    /\ \A t \in NetThreads : pc[t] = "idle"
    /\ m_onStop' = FALSE
    /\ Goto(Main, "stopped")
    /\ UNCHANGED <<m_atomic_bool, received, accepted, m_vecMsgFunction, readVec,
                   vecGetFunction, called>>

\* The network threads have joined and the main loop has stopped.
Terminated == pc[Main] = "stopped" /\ UNCHANGED vars
-----------------------------------------------------------------------------
LockStep(t) == Exchange(t) \/ SpinExit(t) \/ Unlock(t)

NetStep(t) == LockStep(t) \/ EmplaceRead(t) \/ EmplaceWrite(t)

MainStep ==
    \/ LockStep(Main)
    \/ UpdateBegin
    \/ SwapTake
    \/ SwapClear
    \/ CallNext
    \/ UpdateEnd
    \/ StopBegin
    \/ StopEnd

Next ==
    \/ \E t \in NetThreads : ReceivePacket(t) \/ NetStep(t)
    \/ MainStep
    \/ RequestStop
    \/ Terminated

Spec == Init /\ [][Next]_vars

(***************************************************************************)
(* The operating system runs every thread that can run: weak fairness.      *)
(* SpinLock itself is unfair, but the main thread leaves it free between    *)
(* two frames (m_nframe milliseconds), while a waiting network thread       *)
(* re-reads the flag without pause: a network thread that finds the lock    *)
(* free again and again gets it (strong fairness of its two lock steps).    *)
(* Nothing makes a packet arrive or the process stop.                       *)
(***************************************************************************)
Fairness ==
    /\ \A t \in NetThreads : /\ WF_vars(NetStep(t))
                             /\ SF_vars(SpinExit(t))
                             /\ SF_vars(~m_atomic_bool /\ Exchange(t))
    /\ WF_vars(MainStep)

FairSpec == Spec /\ Fairness
-----------------------------------------------------------------------------
(* Properties                                                              *)

\* Every variable has its type; a thread is never at a label of the other kind.
TypeOK ==
    /\ m_atomic_bool \in BOOLEAN
    /\ pc \in [Threads -> Labels]
    /\ \A t \in NetThreads : pc[t] \notin {"run", "join", "stopped"}
    /\ received \in [NetThreads -> 0..MaxPackets]
    /\ accepted \subseteq Event
    /\ m_vecMsgFunction \in Seq(Event)
    /\ readVec \in [NetThreads -> Seq(Event)]
    /\ vecGetFunction \in Seq(Event)
    /\ called \in Seq(Event)
    /\ m_onStop \in BOOLEAN

Critical == {"cs", "cs2", "unlock"}

\* SpinLock: at most one thread is between lock() and unlock(), the flag says
\* whether one is, and so nobody sees a half-done emplace_back or swap.
LockInv ==
    /\ \A t, u \in Threads : pc[t] \in Critical /\ pc[u] \in Critical => t = u
    /\ m_atomic_bool <=> \E t \in Threads : pc[t] \in Critical

\* The events handed over and not called: those OnUpdate took, then those of
\* the shared vector (which holds the taken ones too in the middle of the swap).
Waiting ==
    vecGetFunction \o (IF pc[Main] = "cs2" THEN <<>> ELSE m_vecMsgFunction)

\* What the main thread has called or will call, oldest first.
Pipeline == called \o Waiting

\* Events still in the hands of the thread that parsed them.
Handing == {InHand(t) : t \in {u \in NetThreads : pc[u] \in {"lock", "spin", "cs", "cs2"}}}

HandedOver == accepted \ Handing

\* Every packet that passed the parser's checks is called once or waits to be
\* called once (none is lost or doubled between emplace_back and swap), and the
\* packets of one network thread keep the order in which it read them.
ExactlyOnceInOrder ==
    /\ {Pipeline[i] : i \in 1..Len(Pipeline)} = HandedOver
    /\ \A i, j \in 1..Len(Pipeline) :
          i < j /\ Pipeline[i][1] = Pipeline[j][1] => Pipeline[i][2] < Pipeline[j][2]

Fifo == INSTANCE MsgFifo WITH posted <- HandedOver, queue <- Waiting, called <- called

\* The lock, the shared vector and the frames implement one queue from which
\* the main thread calls the oldest event (MsgFifo).
ImplementsFifo == Fifo!Spec

WasCalled(e) == \E i \in 1..Len(called) : called[i] = e

\* A packet that was accepted is called in the end, unless the server stops.
EventuallyCalled ==
    \A e \in Event :
        e \in accepted ~> (WasCalled(e) \/ pc[Main] \in {"join", "stopped"})

\* Stopping ends: the main thread joins network threads that may be spinning on
\* the lock or holding it, and it never waits for them with the lock held.
StopCompletes == m_onStop ~> pc[Main] = "stopped"
=============================================================================
