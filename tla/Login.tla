-------------------------------- MODULE Login --------------------------------
(***************************************************************************)
(* Logging in: a client asks the gate server, the gate server asks the      *)
(* logic server the user's key belongs to, and that one loads the user from *)
(* the database server.                                                     *)
(*                                                                         *)
(* Each server handles one message at a time on its main loop; the two      *)
(* requests are those of RpcModule, of which this module uses what          *)
(* RpcPromise says: the callback runs once, with the answer or with a       *)
(* timeout, and an answer that comes later is dropped. Connections between  *)
(* servers may lose requests and answers. A client may vanish at any time.  *)
(***************************************************************************)
EXTENDS ServerList

CONSTANTS Users,         \* user names
          Clients,       \* sessions of clients at the gate server
          None,          \* neither a user nor a client
          MaxLogins,     \* bound: login requests
          MaxRestarts    \* bound: restarts of logic servers

LogicServer == 2

ASSUME LoginAssumption ==
    /\ Users \subseteq DOMAIN CRC32
    /\ None \notin Users \cup Clients
    /\ MaxLogins \in Nat
    /\ MaxRestarts \in Nat
    /\ \E p \in ServerKeys : p.type = LogicServer

Requests == 1..MaxLogins
LogicIndexes == {p.index : p \in {q \in ServerKeys : q.type = LogicServer}}

VARIABLES
    connected,             \* clients whose session stands
    request,               \* the login requests: client and user
    m_mapSessionUserInfo,  \* gate: [client -> user or None]
    m_mapUserInfo,         \* gate: [user -> client or None]
    gateWaits,             \* gate: requests whose callback has not run
    m_mapLoadingPlayer,    \* logic: [server -> users being loaded]
    m_mapOnlinePlayer,     \* logic: [server -> users online]
    phase,                 \* how far a request has come behind the gate
    told,                  \* clients that were sent a CSPlayerLoginRsp
    loadFailed,            \* users for whom a load has failed
    restarted              \* how often logic servers were restarted

gate == <<m_mapSessionUserInfo, m_mapUserInfo, gateWaits, told>>
logic == <<m_mapLoadingPlayer, m_mapOnlinePlayer, loadFailed>>
loginVars == <<connected, request, gate, logic, phase, restarted>>

(***************************************************************************)
(* phase: "sent", to the logic server; "query", the load waits for the      *)
(* database; "loaded", the database has answered; "ok" and "error", the     *)
(* logic server's answer is on its way to the gate; "over", also when the   *)
(* gate has given up waiting: RpcModule drops the answer.                   *)
(***************************************************************************)
Phases == {"sent", "query", "loaded", "ok", "error", "over"}
Issued == 1..Len(request)
HomeOf(u) == GetServerKeyIndex(LogicServer, u)

LoginInit ==
    /\ connected = Clients
    /\ request = <<>>
    /\ m_mapSessionUserInfo = [c \in Clients |-> None]
    /\ m_mapUserInfo = [u \in Users |-> None]
    /\ gateWaits = {}
    /\ m_mapLoadingPlayer = [i \in LogicIndexes |-> {}]
    /\ m_mapOnlinePlayer = [i \in LogicIndexes |-> {}]
    /\ phase = <<>>
    /\ told = {}
    /\ loadFailed = {}
    /\ restarted = 0
-----------------------------------------------------------------------------
(* The clients                                                             *)

\* CreateNewClient connects, asks, and closes the session when it was answered or
\* has waited long enough; any client may vanish. Nothing at the gate is told of it.
ClientCloses(c) ==
    /\ c \in connected
    /\ connected' = connected \ {c}
    /\ UNCHANGED <<request, gate, logic, phase, restarted>>
-----------------------------------------------------------------------------
(* The gate server: ClientPbModule                                         *)

\* OnHandleCSPlayerLoginReq: a client has sent CSPlayerLoginReq (and may be gone
\* by now), and the logic server of the user is asked. Without a session to it
\* nothing is sent.
OnHandleCSPlayerLoginReq(c, u) ==
    /\ Len(request) < MaxLogins
    /\ request' = Append(request, [client |-> c, user |-> u])
    /\ gateWaits' = gateWaits \cup {Len(request) + 1}
    /\ phase' = Append(phase, IF HomeOf(u) \in LogicIndexes THEN "sent" ELSE "over")
    /\ UNCHANGED <<connected, m_mapSessionUserInfo, m_mapUserInfo, logic, told, restarted>>

\* The session that is kicked out stays open.
OnUserLogoutKeepsSession(u) ==
    [session |-> [m_mapSessionUserInfo EXCEPT ![m_mapUserInfo[u]] = None],
     closed  |-> {}]

\* OnUserLogout: the user's session is closed and taken out of the maps.
OnUserLogout(u) ==
    [session |-> [m_mapSessionUserInfo EXCEPT ![m_mapUserInfo[u]] = None],
     closed  |-> {m_mapUserInfo[u]}]

\* The user is not logged out first: emplace leaves the old entry.
OnUserLoginNoKick(c, u) ==
    /\ m_mapSessionUserInfo' = [m_mapSessionUserInfo EXCEPT ![c] = u]
    /\ m_mapUserInfo' = [m_mapUserInfo EXCEPT ![u] = IF @ = None THEN c ELSE @]
    /\ told' = IF c \in connected THEN told \cup {c} ELSE told
    /\ UNCHANGED connected

\* OnUserLogin of a session that has no user, and the answer to the client,
\* which goes nowhere when the client is gone. A user who is logged in already
\* is kicked out.
OnUserLogin(c, u) ==
    LET old == IF m_mapUserInfo[u] = None
               THEN [session |-> m_mapSessionUserInfo, closed |-> {}]
               ELSE OnUserLogout(u)
    IN  /\ m_mapSessionUserInfo' = [old.session EXCEPT ![c] = u]
        /\ m_mapUserInfo' = [m_mapUserInfo EXCEPT ![u] = c]
        /\ connected' = connected \ old.closed
        /\ told' = IF c \in connected THEN told \cup {c} ELSE told

\* The callback does not look at the error code.
LoginAnsweredAny(r) ==
    LET c == request[r].client IN
    /\ r \in gateWaits
    /\ phase[r] \in {"ok", "error"}
    /\ gateWaits' = gateWaits \ {r}
    /\ phase' = [phase EXCEPT ![r] = "over"]
    /\ \/ /\ m_mapSessionUserInfo[c] = None
          /\ OnUserLogin(c, request[r].user)
       \/ /\ m_mapSessionUserInfo[c] # None
          /\ UNCHANGED <<m_mapSessionUserInfo, m_mapUserInfo, connected, told>>
    /\ UNCHANGED <<request, logic, restarted>>

\* The callback of OnHandleCSPlayerLoginReq with the logic server's answer. An
\* error and a session that has a user already end it without a word to the
\* client.
LoginAnswered(r) ==
    LET c == request[r].client IN
    /\ r \in gateWaits
    /\ phase[r] \in {"ok", "error"}
    /\ gateWaits' = gateWaits \ {r}
    /\ phase' = [phase EXCEPT ![r] = "over"]
    /\ \/ /\ phase[r] = "ok" /\ m_mapSessionUserInfo[c] = None
          /\ OnUserLogin(c, request[r].user)
       \/ /\ phase[r] = "error" \/ m_mapSessionUserInfo[c] # None
          /\ UNCHANGED <<m_mapSessionUserInfo, m_mapUserInfo, connected, told>>
    /\ UNCHANGED <<request, logic, restarted>>

\* The callback with a timeout. Behind the gate the request may still go on; an
\* answer that comes later, or was lost, makes no difference.
LoginTimesOut(r) ==
    /\ r \in gateWaits
    /\ gateWaits' = gateWaits \ {r}
    /\ phase' = [phase EXCEPT ![r] = IF @ \in {"ok", "error"} THEN "over" ELSE @]
    /\ UNCHANGED <<connected, request, m_mapSessionUserInfo, m_mapUserInfo, logic,
                   told, restarted>>
-----------------------------------------------------------------------------
(* The logic servers: PlayerManagerModule                                  *)

Moves(r, from, to) == phase[r] = from /\ phase' = [phase EXCEPT ![r] = to]
Answers(r, from, to) == Moves(r, from, IF r \in gateWaits THEN to ELSE "over")

\* OnHandleCSPlayerLoginReq of the logic server: a user who is online or being
\* loaded is refused, anybody else is loaded from the database server.
PlayerLogin(r) ==
    LET u == request[r].user
        i == HomeOf(u)
    IN  /\ IF u \in m_mapOnlinePlayer[i] \cup m_mapLoadingPlayer[i]
           THEN /\ Answers(r, "sent", "error")
                /\ UNCHANGED m_mapLoadingPlayer
           ELSE /\ Moves(r, "sent", "query")
                /\ m_mapLoadingPlayer' = [m_mapLoadingPlayer EXCEPT ![i] = @ \cup {u}]
        /\ UNCHANGED <<connected, request, gate, m_mapOnlinePlayer, loadFailed, restarted>>

\* The callback of the load, success: the user moves from the one map to the
\* other and the gate is answered.
PlayerLoaded(r) ==
    LET u == request[r].user
        i == HomeOf(u)
    IN  /\ Answers(r, "loaded", "ok")
        /\ m_mapLoadingPlayer' = [m_mapLoadingPlayer EXCEPT ![i] = @ \ {u}]
        /\ m_mapOnlinePlayer' =
               [m_mapOnlinePlayer EXCEPT ![i] =
                   IF u \in m_mapLoadingPlayer[i] THEN @ \cup {u} ELSE @]
        /\ UNCHANGED <<connected, request, gate, loadFailed, restarted>>

\* A failed load leaves the user in the loading map.
LoadFailsKeeps(r) ==
    /\ \/ Answers(r, "query", "ok")
       \/ Answers(r, "loaded", "ok")
    /\ loadFailed' = loadFailed \cup {request[r].user}
    /\ UNCHANGED <<connected, request, gate, m_mapLoadingPlayer, m_mapOnlinePlayer, restarted>>

\* The callback with an error or a timeout: the user leaves the loading map. The
\* gate is answered with the head of its own request, whose error code says
\* success.
LoadFails(r) ==
    LET u == request[r].user IN
    /\ \/ Answers(r, "query", "ok")
       \/ Answers(r, "loaded", "ok")
    /\ m_mapLoadingPlayer' = [m_mapLoadingPlayer EXCEPT ![HomeOf(u)] = @ \ {u}]
    /\ loadFailed' = loadFailed \cup {u}
    /\ UNCHANGED <<connected, request, gate, m_mapOnlinePlayer, restarted>>

\* A logic server is restarted: its maps and what it was doing are gone.
LogicRestarts(i) ==
    /\ restarted < MaxRestarts
    /\ restarted' = restarted + 1
    /\ m_mapLoadingPlayer' = [m_mapLoadingPlayer EXCEPT ![i] = {}]
    /\ m_mapOnlinePlayer' = [m_mapOnlinePlayer EXCEPT ![i] = {}]
    /\ phase' = [r \in Issued |-> IF /\ HomeOf(request[r].user) = i
                                     /\ phase[r] \in {"sent", "query", "loaded"}
                                  THEN "over" ELSE phase[r]]
    /\ UNCHANGED <<connected, request, gate, loadFailed>>
-----------------------------------------------------------------------------
\* The database server: OnHandleSSQueryDataReq answers with what it has.
OnHandleSSQueryDataReq(r) ==
    /\ Moves(r, "query", "loaded")
    /\ UNCHANGED <<connected, request, gate, logic, restarted>>

\* A request of the gate to a logic server is lost.
MessageLost(r) ==
    /\ Moves(r, "sent", "over")
    /\ UNCHANGED <<connected, request, gate, logic, restarted>>

\* All requests are through.
Quiet ==
    /\ Len(request) = MaxLogins
    /\ gateWaits = {}
    /\ UNCHANGED loginVars
-----------------------------------------------------------------------------
GateSettles(r) == LoginAnswered(r) \/ LoginTimesOut(r)
LoadSettles(r) == PlayerLoaded(r) \/ LoadFails(r)

LoginNext ==
    \/ \E c \in Clients : ClientCloses(c)
    \/ \E c \in Clients, u \in Users : OnHandleCSPlayerLoginReq(c, u)
    \/ \E r \in Issued :
        \/ GateSettles(r)
        \/ PlayerLogin(r)
        \/ LoadSettles(r)
        \/ OnHandleSSQueryDataReq(r)
        \/ MessageLost(r)
    \/ \E i \in LogicIndexes : LogicRestarts(i)
    \/ Quiet

LoginSpec == LoginInit /\ [][LoginNext]_loginVars

-----------------------------------------------------------------------------
(* Properties                                                              *)

\* Every variable has its type.
LoginTypeOK ==
    /\ connected \subseteq Clients
    /\ request \in Seq([client : Clients, user : Users])
    /\ m_mapSessionUserInfo \in [Clients -> Users \cup {None}]
    /\ m_mapUserInfo \in [Users -> Clients \cup {None}]
    /\ gateWaits \subseteq Issued
    /\ m_mapLoadingPlayer \in [LogicIndexes -> SUBSET Users]
    /\ m_mapOnlinePlayer \in [LogicIndexes -> SUBSET Users]
    /\ phase \in [Issued -> Phases]
    /\ told \subseteq Clients
    /\ loadFailed \subseteq Users
    /\ restarted \in 0..MaxRestarts

\* The gate's two maps say the same, whatever logins of one user and of one
\* session overlap: who is found by the one is found by the other.
MapsAgree ==
    \A c \in Clients, u \in Users :
        m_mapSessionUserInfo[c] = u <=> m_mapUserInfo[u] = c

\* A client that was told it is logged in and still has its session is the one
\* whose session the user is bound to: somebody who is replaced is cut off.
ToldIsBound ==
    \A c \in told \cap connected : m_mapSessionUserInfo[c] # None

\* A user is being loaded by one request at most, and is in the loading map
\* exactly then, so that nobody whose load has ended is refused as loading;
\* nobody is loaded who is online. The gate's timeouts and the retries that
\* follow them do not change that.
OneLoad ==
    \A u \in Users :
        LET loads == {r \in Issued : request[r].user = u /\ phase[r] \in {"query", "loaded"}}
        IN  /\ Cardinality(loads) <= 1
            /\ \A i \in LogicIndexes :
                   u \in m_mapLoadingPlayer[i] <=> loads # {} /\ i = HomeOf(u)
            /\ loads # {} => u \notin m_mapOnlinePlayer[HomeOf(u)]

\* The gate binds only users whom their logic server has let in, or whose load
\* has failed: a refusal never becomes a login, however late it comes.
BoundIsKnown ==
    \A u \in Users :
        m_mapUserInfo[u] # None =>
            \/ u \in m_mapOnlinePlayer[HomeOf(u)] \cup loadFailed
            \/ restarted > 0
=============================================================================
