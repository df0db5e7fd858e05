----------------------------- MODULE RpcPromise -----------------------------
(***************************************************************************)
(* What RpcModule promises a caller of RpcRequest: its callback runs at     *)
(* most once, with the answer of the peer or with a timeout, and it does    *)
(* run unless the server stops first. RpcModule implements it.              *)
(***************************************************************************)
EXTENDS Naturals

CONSTANT MaxQuery    \* bound: queries issued in one run of the server

VARIABLES status,    \* of each query: "none", "pending", "answered", "timedout"
          down       \* the server has stopped

promiseVars == <<status, down>>

QueryIds == 1..MaxQuery

Init ==
    /\ status = [q \in QueryIds |-> "none"]
    /\ down = FALSE

Issue(q) ==
    /\ ~down
    /\ status[q] = "none"
    /\ status' = [status EXCEPT ![q] = "pending"]
    /\ UNCHANGED down

Settle(q, how) ==
    /\ ~down
    /\ status[q] = "pending"
    /\ status' = [status EXCEPT ![q] = how]
    /\ UNCHANGED down

\* A timeout's callback may issue the next query before it returns.
TimeoutAndIssue(q, r) ==
    /\ ~down
    /\ status[q] = "pending"
    /\ status[r] = "none"
    /\ status' = [status EXCEPT ![q] = "timedout", ![r] = "pending"]
    /\ UNCHANGED down

ShutDown ==
    /\ ~down
    /\ down' = TRUE
    /\ UNCHANGED status

Next ==
    \/ \E q \in QueryIds : Issue(q) \/ Settle(q, "answered") \/ Settle(q, "timedout")
    \/ \E q, r \in QueryIds : TimeoutAndIssue(q, r)
    \/ ShutDown

Spec == Init /\ [][Next]_promiseVars

\* Every query is settled in the end, or the server goes down.
Live == \A q \in QueryIds : status[q] = "pending" ~> (status[q] # "pending" \/ down)
=============================================================================
