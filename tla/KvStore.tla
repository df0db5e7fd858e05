------------------------------- MODULE KvStore -------------------------------
(***************************************************************************)
(* How the database server keeps the data of a user in a key-value store.   *)
(*                                                                         *)
(* The data are a message whose fields are tables. A row is stored under    *)
(* its own key (table, user, key fields), and the keys of a table's rows    *)
(* are listed under the key (table, user), its index. A save and a query of *)
(* a user run to their end on the user's shard loop; a save is a sequence   *)
(* of single puts and deletes, each durable of its own, and the process may *)
(* die between any two of them.                                             *)
(*                                                                         *)
(* The parts of a key carry their lengths, so no two users and no two       *)
(* tables share a key, and a save treats its tables one after the other:    *)
(* seen from one table of one user, which is all that is kept here, the     *)
(* others add nothing, and a crash among them is a crash before, between or *)
(* after its own writes. Which kind of table it is is chosen at the start.  *)
(*                                                                         *)
(* Assumed of who sends a save: it names the same user three times, in its  *)
(* head (which chooses the loop), in the data to update and in those to     *)
(* delete (which choose the keys). The code does not compare them, and no   *)
(* code of the repository sends one. A query names the user once. So every  *)
(* request of a user runs on one loop, and touches the keys of that user.   *)
(***************************************************************************)
EXTENDS Naturals, SequencesExt, DbText

CONSTANTS Keys,         \* values of the key fields of a row
          Vals,         \* values of the other fields
          Garbage,      \* what is parsed from the bytes of an index
          MaxRows       \* bound: rows in a request

ASSUME StoreAssumption ==
    /\ {Default, Garbage} \cap Vals = {}
    /\ Default # Garbage
    /\ MaxRows \in Nat

(***************************************************************************)
(* A repeated field has rows with keys (user_counts, client_cache). A       *)
(* single field has a key (client_login_info) or none (user_base).          *)
(***************************************************************************)
Kinds == {"repeated", "single", "keyless"}

VARIABLES table,      \* the kind of the table
          store,      \* what is stored under every key
          request,    \* the save under way, or NoRequest
          pending,    \* its puts and deletes that are still to be made
          deleting,   \* it has got as far as its deletes
          answer,     \* what the last step has answered to a query, or NoAnswer
          may,        \* history: the contents a row may have, by the saves
          alone       \* history: rows saved one to a message, and not deleted

vars == <<table, store, request, pending, deleting, answer, may, alone>>
-----------------------------------------------------------------------------
(* What is stored                                                          *)

\* A key without the names of the table and of the user: the texts of its key
\* fields, each with its length before it (AppendRawData).
Index == <<>>
StoreKeys == {Index} \cup {<<DBProtoMessageToString(k)>> : k \in Keys}

\* GetMessageElementKey, GetMessageRepeatedElementKey: without key fields it is
\* the key of the index.
ElementKey(k) == IF table = "keyless" THEN <<>> ELSE <<DBProtoMessageToString(k)>>

Missing == [kind |-> "missing"]
SerializeAsString(v) == [kind |-> "row", val |-> v]
PacketList(keys) == [kind |-> "list", keys |-> keys]
Stored == {Missing} \cup {SerializeAsString(v) : v \in Vals}
                    \cup {PacketList(ks) : ks \in SUBSET StoreKeys}

\* PaserList: in the bytes of a row no length fits, so nothing is found in them.
PaserList(s) == IF s.kind = "list" THEN s.keys ELSE {}
ParseFromString(s) ==
    CASE s.kind = "row" -> s.val
      [] s.kind = "list" -> Garbage
      [] OTHER -> Default

Row == [key : Keys, val : Vals]
KeysOf(rows) == {rows[i].key : i \in 1..Len(rows)}
MaxLen == IF table = "repeated" THEN MaxRows ELSE 1

\* SSSaveDataReq: the rows to update, and those to delete, of which only the
\* keys matter.
Requests ==
    {r \in [update : SeqOf(Row, MaxRows), delete : SeqOf(Keys, MaxRows)] :
        Len(r.update) + Len(r.delete) \in 1..MaxRows}
NoRequest == [update |-> <<>>, delete |-> <<>>]
NoAnswer == {<<>>}   \* no set of rows
-----------------------------------------------------------------------------
(* The operations of PbMessageKVHandle, for one table                      *)

Write(key, s) == [key |-> key, value |-> s]
Apply(st, w) == [st EXCEPT ![w.key] = w.value]

\* The index is written before the rows it lists.
UpdateIndexFirst(st, rows) ==
    LET known == PaserList(st[Index])
        key(i) == ElementKey(rows[i].key)
        puts == [i \in 1..Len(rows) |-> Write(key(i), SerializeAsString(rows[i].val))]
        new == SelectInSeq(rows, LAMBDA r : ElementKey(r.key) \notin known)
    IN  IF new = 0 THEN puts
        ELSE <<Write(Index, PacketList(known \cup {key(new)}))>> \o puts

\* The index is written anew with the first row of the message only.
UpdateForgets(st, rows) ==
    LET known == PaserList(st[Index])
        key(i) == ElementKey(rows[i].key)
        puts == [i \in 1..Len(rows) |-> Write(key(i), SerializeAsString(rows[i].val))]
        new == SelectInSeq(rows, LAMBDA r : ElementKey(r.key) \notin known)
    IN  IF new = 0 THEN puts ELSE Append(puts, Write(Index, PacketList({key(new)})))

\* MessageUpdateOnKV: the rows are put, then the index with the first row that
\* it did not list. The rows after that one are not looked up any more.
MessageUpdateOnKV(st, rows) ==
    LET known == PaserList(st[Index])
        key(i) == ElementKey(rows[i].key)
        puts == [i \in 1..Len(rows) |-> Write(key(i), SerializeAsString(rows[i].val))]
        new == SelectInSeq(rows, LAMBDA r : ElementKey(r.key) \notin known)
    IN  IF new = 0 THEN puts
        ELSE Append(puts, Write(Index, PacketList(known \cup {key(new)})))

\* MessageDeleteOnKV: the rows are deleted, then the index loses them.
MessageDeleteOnKV(st, keys) ==
    LET left == PaserList(st[Index]) \ {ElementKey(keys[i]) : i \in 1..Len(keys)}
        dels == [i \in 1..Len(keys) |-> Write(ElementKey(keys[i]), Missing)]
    IN  IF keys = <<>> THEN <<>>
        ELSE Append(dels, Write(Index, IF left = {} THEN Missing ELSE PacketList(left)))

\* MessageLoadOnKV, with the rows asked for or, when none is, all of the index.
\* A single field keeps the row that is parsed last, and the order of the index
\* is that of a hash table: any of them.
MessageLoadOnKV(st, asked) ==
    LET keys == IF asked # {} THEN {ElementKey(k) : k \in asked} ELSE PaserList(st[Index])
        rows == {<<key, ParseFromString(st[key])>> : key \in keys}
    IN  IF table = "repeated" \/ rows = {} THEN {rows} ELSE {{r} : r \in rows}
-----------------------------------------------------------------------------
(* The database server                                                     *)

Init ==
    /\ table \in Kinds
    /\ store = [key \in StoreKeys |-> Missing]
    /\ request = NoRequest
    /\ pending = <<>>
    /\ deleting = FALSE
    /\ answer = NoAnswer
    /\ may = [k \in Keys |-> {}]
    /\ alone = {}

Puts(rows, k) == {rows[i].val : i \in {j \in 1..Len(rows) : rows[j].key = k}}
LastPut(rows, k) == rows[SelectLastInSeq(rows, LAMBDA r : r.key = k)].val

\* OnHandleSSSaveDataReq, on the shard loop, for the one user it names: the index
\* is read, and the update begins.
OnHandleSSSaveDataReq(update, delete) ==
    /\ request = NoRequest
    /\ Len(update) <= MaxLen /\ Len(delete) <= MaxLen
    /\ request' = [update |-> update, delete |-> delete]
    /\ pending' = MessageUpdateOnKV(store, update)
    /\ deleting' = FALSE
    /\ may' = [k \in Keys |-> may[k] \cup Puts(update, k)
                                     \cup {d \in {Default} : k \in Range(delete)}]
    /\ alone' = alone \ Range(delete)
    /\ answer' = NoAnswer
    /\ UNCHANGED <<table, store>>

\* The update is through: the index is read again, and the delete begins.
DeleteBegins ==
    /\ request # NoRequest /\ ~deleting
    /\ pending = <<>>
    /\ pending' = MessageDeleteOnKV(store, request.delete)
    /\ deleting' = TRUE
    /\ UNCHANGED <<table, store, request, answer, may, alone>>

\* One put or delete of RocksDB.
WriteStep ==
    /\ pending # <<>>
    /\ store' = Apply(store, Head(pending))
    /\ pending' = Tail(pending)
    /\ UNCHANGED <<table, request, deleting, answer, may, alone>>

\* The save is through; its answer goes to the main loop.
SaveAnswered ==
    /\ request # NoRequest /\ deleting
    /\ pending = <<>>
    /\ may' = [k \in Keys |->
                  CASE k \in Range(request.delete) -> {}
                    [] k \in KeysOf(request.update) \ Range(request.delete) ->
                            {LastPut(request.update, k)}
                    [] OTHER -> may[k]]
    /\ alone' = alone \cup {k \in KeysOf(request.update) \ Range(request.delete) :
                                Len(request.update) = 1}
    /\ request' = NoRequest
    /\ deleting' = FALSE
    /\ UNCHANGED <<table, store, pending, answer>>

\* OnHandleSSQueryDataReq: the message has nothing but the user's id.
OnHandleSSQueryDataReq ==
    /\ request = NoRequest
    /\ answer = NoAnswer
    /\ answer' \in MessageLoadOnKV(store, {})
    /\ UNCHANGED <<table, store, request, pending, deleting, may, alone>>

\* The process dies and is started again.
Crash ==
    /\ request # NoRequest
    /\ request' = NoRequest
    /\ pending' = <<>>
    /\ deleting' = FALSE
    /\ UNCHANGED <<table, store, answer, may, alone>>

Next ==
    \/ \E r \in Requests : OnHandleSSSaveDataReq(r.update, r.delete)
    \/ DeleteBegins
    \/ WriteStep
    \/ SaveAnswered
    \/ OnHandleSSQueryDataReq
    \/ Crash

Spec == Init /\ [][Next]_vars
-----------------------------------------------------------------------------
(* Properties                                                              *)

\* Every variable has its type.
TypeOK ==
    /\ table \in Kinds
    /\ store \in [StoreKeys -> Stored]
    /\ request \in Requests \cup {NoRequest}
    /\ pending \in Seq([key : StoreKeys, value : Stored])
    /\ deleting \in BOOLEAN
    /\ may \in [Keys -> SUBSET (Vals \cup {Default})]
    /\ alone \subseteq Keys

Loaded(k) == {r[2] : r \in {q \in answer : q[1] = ElementKey(k)}}

\* What a query returns of a row with a key is what the last completed save has
\* left of it, or what a save that a crash has cut short was about to; a row
\* listed but not there (it is returned empty) comes only of a cut delete.
LoadIsFaithful ==
    answer # NoAnswer /\ table # "keyless" => \A k \in Keys : Loaded(k) \subseteq may[k]

\* A row that came in a message without other rows of its table is found by
\* every later query until it is deleted, whatever else is saved, and wherever
\* that is cut short by a crash; of a single field some row is found. (A row
\* that came with others may be stored and never be found: of the new rows of a
\* message only the first enters the index.)
SavedAloneIsLoaded ==
    answer # NoAnswer =>
        /\ table = "repeated" => \A k \in alone : Loaded(k) # {}
        /\ table = "single" /\ alone # {} => answer # {}
=============================================================================
