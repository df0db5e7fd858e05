----------------------------- MODULE MysqlModule -----------------------------
(***************************************************************************)
(* The statements MysqlModule makes of a message, for one of its tables.    *)
(*                                                                         *)
(* A statement is a text with placeholders, each standing for a value of a  *)
(* column, and the arguments to be put in their places in order. Of the     *)
(* text only the columns of the placeholders are kept, and whether it is    *)
(* SQL at all. Every table has the column of the user, one that is the key  *)
(* of a row (in a table without a key: a string) and one of data.           *)
(***************************************************************************)
EXTENDS Naturals, SequencesExt, DbText

CONSTANTS ArgNumMax,    \* kArgNumMax
          Unfilled      \* the text of a placeholder that was not replaced

ASSUME MysqlAssumption == ArgNumMax \in Nat

\* Columns of a table, without the user's; IsDBKey tells which of them are keys.
Columns(table) == <<IF table = "keyless" THEN "name" ELSE "key", "data">>
IsDBKey(column) == column = "key"

\* GetProtoSqlStringPlaceholder puts quotes around the placeholder of a string:
\* if it is not replaced the text is still SQL.
Quoted(column) == column \in {"user", "name"}

Statement(op, holes, args, sql) == [op |-> op, holes |-> holes, args |-> args, sql |-> sql]

\* The values of a row under the columns of its table.
Fields(row) == <<DBProtoMessageToString(row.key), DBProtoMessageToString(row.val)>>

\* The values of a row without those of its keys.
KeysLeftOut(table, row) ==
    IF IsDBKey(Columns(table)[1]) THEN Tail(Fields(row)) ELSE Fields(row)

\* Pieces of equal width, one after the other: part(i) is the i-th.
Joined(n, width, part(_)) ==
    [i \in 1..(n * width) |-> part(((i - 1) \div width) + 1)[((i - 1) % width) + 1]]

\* The arguments of a row with those of the common key after them.
UpdateKeyLast(table, user, rows) ==
    IF rows = <<>> THEN <<>>
    ELSE <<Statement("insert",
             Joined(Len(rows), 3, LAMBDA i : <<"user">> \o Columns(table)),
             Joined(Len(rows), 3, LAMBDA i : Append(Fields(rows[i]), DBProtoMessageToString(user))), TRUE)>>

\* MessageUpdate: INSERT INTO table (user, columns) VALUES (...), (...) ON
\* DUPLICATE KEY UPDATE. The arguments of a single field lack its keys.
MessageUpdate(table, user, rows) ==
    LET args(row) == IF table = "repeated" THEN Fields(row) ELSE KeysLeftOut(table, row)
        width == IF table = "single" THEN 2 ELSE 3
    IN  IF rows = <<>> THEN <<>>
        ELSE <<Statement("insert",
                 Joined(Len(rows), 3, LAMBDA i : <<"user">> \o Columns(table)),
                 Joined(Len(rows), width, LAMBDA i : <<DBProtoMessageToString(user)>> \o args(rows[i])),
                 TRUE)>>

\* AddQueryItemCondition: column = placeholder, after an AND if there are
\* arguments already.
AddQueryItemCondition(q, column, value) ==
    [holes |-> Append(q.holes, column),
     args  |-> Append(q.args, DBProtoMessageToString(value)),
     ands  |-> Append(q.ands, q.args # <<>>)]

\* AddQueryMessageCondition: the conditions on the keys of a row.
AddQueryMessageCondition(q, table, key) ==
    IF IsDBKey(Columns(table)[1]) THEN AddQueryItemCondition(q, "key", key) ELSE q

NoCondition == [holes |-> <<>>, args |-> <<>>, ands |-> <<>>]
OfUser(user) == AddQueryItemCondition(NoCondition, "user", user)

\* MessageDelete: DELETE FROM table WHERE user = u AND (key = k1) OR (key = k2).
\* The conditions of a repeated field's rows are put together from nothing each.
\* The one of a single field is added to that of the user after " AND ": with an
\* AND of its own the text is no SQL.
MessageDelete(table, user, keys) ==
    LET own == OfUser(user)
        q == IF table = "repeated" THEN NoCondition ELSE own
        c == [i \in 1..Len(keys) |-> AddQueryMessageCondition(q, table, keys[i])]
    IN  IF keys = <<>> THEN <<>>
        ELSE IF table = "repeated"
        THEN <<Statement("delete",
                 own.holes \o Joined(Len(keys), 1, LAMBDA i : c[i].holes),
                 own.args \o Joined(Len(keys), 1, LAMBDA i : c[i].args), TRUE)>>
        ELSE <<Statement("delete", c[1].holes, c[1].args, TRUE \notin Range(c[1].ands))>>

\* MessageLoad: SELECT columns FROM table WHERE user = u, with AND (key) IN (...)
\* for the rows asked for, if there are any.
MessageLoad(table, user, keys) ==
    LET conditions == IF table = "keyless" THEN <<>> ELSE keys IN
    Statement("select",
        OfUser(user).holes \o [i \in 1..Len(conditions) |-> "key"],
        OfUser(user).args \o [i \in 1..Len(conditions) |-> DBProtoMessageToString(conditions[i])],
        TRUE)

\* The placeholders are replaced, as many as there are arguments.
QueryStringReplaceFills(s) ==
    [i \in 1..Len(s.holes) |-> IF i <= Len(s.args) THEN s.args[i] ELSE Unfilled]

\* QueryStringReplace, as the values at the placeholders: it returns the text
\* as it is when there are arguments (vecBuff.empty() == 0), and every
\* statement has at least that of the user.
QueryStringReplace(s) ==
    IF s.args # <<>> THEN [i \in 1..Len(s.holes) |-> Unfilled]
                     ELSE QueryStringReplaceFills(s)

\* MysqlQuery: what has to hold for a server to accept the statement. It may
\* refuse any: a lost connection, or no database selected (none is in MysqlInit).
Acceptable(s) ==
    LET v == QueryStringReplace(s) IN
    /\ Len(s.args) < ArgNumMax
    /\ s.sql
    /\ \A i \in 1..Len(v) : v[i] = Unfilled => Quoted(s.holes[i])
-----------------------------------------------------------------------------
(* What a server does for a statement with the values v at its places.     *)
(* AND binds stronger than OR: only the first row of a delete is looked    *)
(* for among those of the user.                                            *)

Inserted(v) ==
    {[user |-> v[3 * i - 2], key |-> v[3 * i - 1], val |-> v[3 * i]] : i \in 1..(Len(v) \div 3)}
Matches(s, v, user, key) ==
    LET keys == {v[i] : i \in 2..Len(v)} IN
    IF s.op = "delete"
    THEN \/ user = v[1] /\ (Len(v) > 1 => key = v[2])
         \/ Len(v) > 2 /\ key \in {v[i] : i \in 3..Len(v)}
    ELSE user = v[1] /\ (keys # {} => key \in keys)
Modified(rows, s, v) ==
    IF s.op = "insert"
    THEN {r \in rows : \A q \in Inserted(v) : <<r.user, r.key>> # <<q.user, q.key>>} \cup Inserted(v)
    ELSE {r \in rows : ~Matches(s, v, r.user, r.key)}
=============================================================================
