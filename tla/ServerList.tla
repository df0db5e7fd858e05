----------------------------- MODULE ServerList -----------------------------
(***************************************************************************)
(* What a server derives from the server list that every server reads at   *)
(* start: who there is, whom to connect to, and which server of a type a     *)
(* key belongs to. Servers are named by their type and index.                *)
(***************************************************************************)
EXTENDS XmlConfig, Naturals, FiniteSets

CONSTANT CRC32      \* [keys -> Nat], the checksum of a key

ASSUME CrcAssumption == \A k \in DOMAIN CRC32 : CRC32[k] \in Nat

Server(type, index) == [type |-> type, index |-> index]

(***************************************************************************)
(* InitConfig. A server's own row is the first, in the order of the         *)
(* iterators, that has its type and index; the types to connect to are      *)
(* those of that row.                                                       *)
(***************************************************************************)
IsRowOf(self, row) == row.nServerType = self.type /\ row.nServerIndex = self.index
OwnRow(self) ==
    LET i == SelectInSeq(Config, LAMBDA row : IsRowOf(self, row))
    IN  IF i = 0 THEN NewRow ELSE Config[i]
DestTypes(self) == ToSet(OwnRow(self).vecConnectList)

\* m_mapServerList: its keys.
ServerKeys == {Server(row.nServerType, row.nServerIndex) : row \in Range(Config)}

\* m_mapConnectServerList: never the server itself, and everyone once.
ConnectKeys(self) == {p \in ServerKeys : p.type \in DestTypes(self) /\ p # self}

\* Whether InitListen finds an address to listen at.
Listens(self) ==
    LET address == AddressToIpPort(OwnRow(self).strServerIp)
    IN  address.ip # <<>> /\ address.port # 0

(***************************************************************************)
(* GetServerKeyIndex: the servers of a type are taken to be numbered from   *)
(* 1 on. 0 is no server.                                                    *)
(***************************************************************************)
GetServerKeyIndex(type, key) ==
    LET servers == {p \in ServerKeys : p.type = type}
    IN  IF servers = {} THEN 0 ELSE (CRC32[key] % Cardinality(servers)) + 1
=============================================================================
