------------------------------ MODULE Database ------------------------------
(***************************************************************************)
(* The database server over the store the build has chosen for DBModule:    *)
(* RocksDB, which KvStore models, or MySQL.                                 *)
(*                                                                         *)
(* The handlers are the same for both: update, then delete, then an answer  *)
(* that says nothing of how they went.                                      *)
(***************************************************************************)
EXTENDS KvStore, MysqlModule

CONSTANT Users

VARIABLES backend,    \* "rocksdb" or "mysql": USE_ROCKSDB, USE_MYSQL
          who,        \* user of the request under way with MySQL
          link,       \* the connections of the pool: see MysqlInit
          sql,        \* statements it has still to execute
          rows        \* rows of the table in MySQL

mysqlVars == <<who, link, sql, rows>>
dbVars == <<vars, backend, mysqlVars>>

\* MysqlInit. Without a configuration the pool gets no loops; a connection that
\* cannot be made is only logged.
MysqlInit == link \in {"no loops", "not connected", "connected"}

DbInit ==
    /\ Init
    /\ backend \in {"rocksdb", "mysql"}
    /\ IF backend = "mysql" THEN MysqlInit ELSE link = "no loops"
    /\ who = CHOOSE u \in Users : TRUE
    /\ sql = <<>>
    /\ rows = {}

RocksDb ==
    /\ backend = "rocksdb"
    /\ Next
    /\ UNCHANGED <<backend, mysqlVars>>

\* DBLoopExec: LoopPool::Exec drops what it is given when there are no loops.
DBLoopExec == backend = "mysql" /\ link # "no loops"
MysqlDrops ==
    /\ backend = "mysql" /\ link = "no loops"
    /\ UNCHANGED dbVars

\* OnHandleSSSaveDataReq, with the statements of its two calls.
MysqlSave(u, r) ==
    /\ DBLoopExec
    /\ request = NoRequest /\ sql = <<>>
    /\ Len(r.update) <= MaxLen /\ Len(r.delete) <= MaxLen
    /\ request' = r
    /\ who' = u
    /\ sql' = MessageUpdate(table, u, r.update) \o MessageDelete(table, u, r.delete)
    /\ answer' = NoAnswer
    /\ UNCHANGED <<table, store, pending, deleting, may, alone, backend, link, rows>>

\* OnHandleSSQueryDataReq.
MysqlLoad(u) ==
    /\ DBLoopExec
    /\ request = NoRequest /\ sql = <<>>
    /\ answer = NoAnswer
    /\ who' = u
    /\ sql' = <<MessageLoad(table, u, <<>>)>>
    /\ UNCHANGED <<vars, backend, link, rows>>

\* The rows a select finds; a single field keeps the one parsed last.
Found(s, v) ==
    LET found == {<<ElementKey(DBStringToProtoMessage(r.key)), DBStringToProtoMessage(r.val)>> :
                      r \in {q \in rows : Matches(s, v, q.user, q.key)}}
    IN  IF table = "repeated" \/ found = {} THEN {found} ELSE {{r} : r \in found}

\* QueryModifyInCurrentThread and QuerySelectRowsInCurrentThread: the server
\* executes the statement, or refuses it. Nobody looks at the error code.
MysqlModifies ==
    LET s == Head(sql) IN
    /\ sql # <<>> /\ s.op # "select"
    /\ link = "connected" /\ Acceptable(s)
    /\ rows' = Modified(rows, s, QueryStringReplace(s))
    /\ sql' = Tail(sql)
    /\ UNCHANGED <<vars, backend, who, link>>

MysqlSelects ==
    LET s == Head(sql) IN
    /\ sql # <<>> /\ s.op = "select"
    /\ link = "connected" /\ Acceptable(s)
    /\ answer' \in Found(s, QueryStringReplace(s))
    /\ sql' = Tail(sql)
    /\ UNCHANGED <<table, store, request, pending, deleting, may, alone, backend, who, link, rows>>

MysqlRefuses ==
    /\ sql # <<>>
    /\ answer' = IF Head(sql).op = "select" THEN {} ELSE answer
    /\ sql' = Tail(sql)
    /\ UNCHANGED <<table, store, request, pending, deleting, may, alone, backend, who, link, rows>>

\* SendPacket with the answer to a save.
MysqlAnswers ==
    /\ backend = "mysql"
    /\ request # NoRequest /\ sql = <<>>
    /\ request' = NoRequest
    /\ UNCHANGED <<table, store, pending, deleting, answer, may, alone, backend, who, link, sql, rows>>

DbNext ==
    \/ RocksDb
    \/ \E u \in Users, r \in Requests : MysqlSave(u, r)
    \/ \E u \in Users : MysqlLoad(u)
    \/ MysqlModifies
    \/ MysqlSelects
    \/ MysqlRefuses
    \/ MysqlAnswers
    \/ MysqlDrops

DbSpec == DbInit /\ [][DbNext]_dbVars
-----------------------------------------------------------------------------
(* Properties                                                              *)

\* If the arguments were put in the places of their placeholders, a statement
\* would be SQL and do what the request says: the insert writes the rows of the
\* request for its user, the delete of one row deletes that row of that user (in a
\* table without keys: the user's), the select finds the rows of the user.
\* Excepted are three that would not: the insert into a single field with keys,
\* whose arguments do not fill the places; the delete of one, whose condition
\* comes after "AND AND"; and the delete of several rows, whose condition after
\* the first row holds for every user.
StatementsMeanIt ==
    \A i \in 1..Len(sql) :
        LET s == sql[i] IN
        CASE s.op = "insert" ->
                table # "single" =>
                    /\ s.sql
                    /\ Len(s.holes) = Len(s.args)
                    /\ Inserted(s.args) =
                        {[user |-> DBProtoMessageToString(who),
                          key  |-> DBProtoMessageToString(request.update[j].key),
                          val  |-> DBProtoMessageToString(request.update[j].val)] :
                            j \in 1..Len(request.update)}
          [] s.op = "delete" ->
                table # "single" /\ Len(request.delete) = 1 =>
                    /\ s.sql
                    /\ \A u \in Users, k \in Keys :
                        Matches(s, s.args, DBProtoMessageToString(u), DBProtoMessageToString(k)) <=>
                            u = who /\ (table = "keyless" \/ k = request.delete[1])
          [] OTHER ->
                /\ s.sql
                /\ \A u \in Users, k \in Keys :
                    Matches(s, s.args, DBProtoMessageToString(u), DBProtoMessageToString(k)) <=> u = who
=============================================================================
