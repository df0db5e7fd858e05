---------------------------- MODULE MCNetSession ----------------------------
(***************************************************************************)
(* The behaviours looked at in the instances of NetSession.                 *)
(***************************************************************************)
EXTENDS NetSession

Budget(r, o, s, c) == [reads |-> r, orders |-> o, stops |-> s, connects |-> c]

\* A session of each kind: closes from every side meet while either one is being
\* registered, read from or taken out of the maps. And an accepted session alone:
\* data twice, so that a timeout meets a later arrival, two orders, and a stop of
\* the server in any state.
LifeBudgets == {Budget(1, 1, 0, Connects), Budget(2, 2, 1, {})}

\* A connect, and nothing that would close it but its own failure.
ConnectBudgets == {Budget(1, 0, 0, Connects)}
=============================================================================
