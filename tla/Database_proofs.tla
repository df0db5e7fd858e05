--------------------------- MODULE Database_proofs ---------------------------
(***************************************************************************)
(* Proofs about Database, for any keys, contents, users, sizes of requests  *)
(* and limit of arguments: what a query returns of a row over RocksDB, what  *)
(* is found, and what the statements for MySQL would do.                     *)
(***************************************************************************)
EXTENDS Database, WellFoundedInduction, SequenceTheorems, TLAPS

(***************************************************************************)
(* The inductive invariant.                                                *)
(***************************************************************************)
Listed(k) == ElementKey(k) \in PaserList(store[Index])
Saving == backend = "rocksdb" /\ request # NoRequest

\* pending is what is left of the writes all. While anything is left, all is the
\* same by the store of the moment as by the one it was made for, since the index
\* is written last.
Done(all) == Len(all) - Len(pending)
IsRestOf(all) ==
    /\ Len(pending) <= Len(all)
    /\ \A i \in 1..Len(pending) : pending[i] = all[Done(all) + i]
Made(all, i) == pending = <<>> \/ i <= Done(all)

\* Which variables a backend leaves alone.
BackendInv ==
    /\ backend \in {"rocksdb", "mysql"}
    /\ backend = "rocksdb" => sql = <<>> /\ (request # NoRequest => answer = NoAnswer)
    /\ backend = "mysql" => pending = <<>> /\ ~deleting /\ alone = {}
    /\ request = NoRequest => pending = <<>> /\ ~deleting

\* Every row holds what a save has put there, in the right place; the index
\* never loses a row that came alone.
RowsInv ==
    table # "keyless" =>
        /\ \A k \in Keys : store[ElementKey(k)] \in
                {Missing} \cup {SerializeAsString(v) : v \in may[k]}
        /\ \A k \in Keys : Listed(k) /\ store[ElementKey(k)] = Missing => Default \in may[k]
        /\ \A k \in alone : Listed(k)

\* What a save under way may make of the rows is allowed for.
RequestInv ==
    Saving =>
        /\ \A i \in 1..Len(request.update) : request.update[i].val \in may[request.update[i].key]
        /\ \A k \in Range(request.delete) : Default \in may[k] /\ k \notin alone

\* The rows that have been put so far are there, with the last put of each.
UpdateInv ==
    LET update == request.update
        all == MessageUpdateOnKV(store, update)
    IN  Saving /\ ~deleting /\ table # "keyless" =>
            /\ pending # <<>> => IsRestOf(all)
            /\ \A i \in 1..Len(update) : Made(all, i) =>
                   /\ store[ElementKey(update[i].key)] # Missing
                   /\ \/ store[ElementKey(update[i].key)] = SerializeAsString(update[i].val)
                      \/ \E j \in (i + 1)..Len(update) : Made(all, j) /\ update[j].key = update[i].key
            /\ pending = <<>> /\ Len(update) = 1 => Listed(update[1].key)

\* The rows that have been deleted so far are missing; the others are as the
\* update has left them.
DeleteInv ==
    LET update == request.update
        delete == request.delete
        all == MessageDeleteOnKV(store, delete)
    IN  Saving /\ deleting /\ table # "keyless" =>
            /\ pending # <<>> => IsRestOf(all)
            /\ \A i \in 1..Len(delete) : Made(all, i) => store[ElementKey(delete[i])] = Missing
            /\ pending = <<>> => \A k \in Range(delete) : ~Listed(k)
            /\ \A k \in KeysOf(update) \ Range(delete) :
                   store[ElementKey(k)] = SerializeAsString(LastPut(update, k))
            /\ Len(update) = 1 /\ update[1].key \notin Range(delete) => Listed(update[1].key)

\* Between two saves an answer is what a query would find.
AnswerInv ==
    backend = "rocksdb" /\ answer # NoAnswer =>
        request = NoRequest /\ answer \in MessageLoadOnKV(store, {})

\* The statements still to be executed are those of the request under way.
Due == Range(MessageUpdate(table, who, request.update))
         \cup Range(MessageDelete(table, who, request.delete))
         \cup {MessageLoad(table, who, <<>>)}
SqlInv == sql \in Seq(Due)

\* Of every insert QueryStringReplace leaves a placeholder that is not quoted: no
\* row is ever stored, and no query finds one.
NothingInMysql == rows = {} /\ (backend = "mysql" => answer \in {NoAnswer, {}})

IInv ==
    /\ TypeOK
    /\ BackendInv
    /\ RowsInv
    /\ RequestInv
    /\ UpdateInv
    /\ DeleteInv
    /\ AnswerInv
    /\ SqlInv
    /\ NothingInMysql
-----------------------------------------------------------------------------
(* Places in a sequence                                                    *)

\* A set of natural numbers that is not empty has a least member.
LEMMA LeastIsThere ==
    ASSUME NEW S \in SUBSET Nat, S # {}
    PROVE  \E x \in S : \A y \in S : x <= y
<1>1. \A a, b \in Nat : a < b => <<a, b>> \in OpToRel(<, Nat)
  BY DEF OpToRel
<1>2. \E x \in S : \A y \in S : ~(<<y, x>> \in OpToRel(<, Nat))
  BY NatLessThanWellFounded, WFMin
<1>3. PICK x \in S : \A y \in S : ~(<<y, x>> \in OpToRel(<, Nat))
  BY <1>2
<1>4. ASSUME NEW y \in S PROVE x <= y
  <2>1. x \in Nat /\ y \in Nat /\ ~(y < x)
    BY <1>1, <1>3
  <2> QED
    BY <2>1
<1> QED
  BY <1>4

\* Min is it.
LEMMA MinIsMember ==
    ASSUME NEW S \in SUBSET Nat, S # {}
    PROVE  Min(S) \in S
  BY LeastIsThere DEF Min

\* A set of places that is not empty has a last one.
LEMMA MaxIsLast ==
    ASSUME NEW n \in Nat, NEW S \in SUBSET (1..n), S # {}
    PROVE  Max(S) \in S /\ \A y \in S : y <= Max(S)
<1> DEFINE T == {n - x : x \in S}
<1>1. T \in SUBSET Nat
  <2>1. \A x \in 1..n : n - x \in Nat
    OBVIOUS
  <2> QED
    BY <2>1
<1>2. T # {}
  OBVIOUS
<1>3. \E x \in T : \A y \in T : x <= y
  <2> HIDE DEF T
  <2> QED
    BY <1>1, <1>2, LeastIsThere
<1>4. PICK z \in S : \A y \in S : n - z <= n - y
  BY <1>3
<1>5. \A y \in S : z >= y
  <2>1. \A y \in 1..n : n - z <= n - y => z >= y
    OBVIOUS
  <2> QED
    BY <1>4, <2>1
<1>6. Max(S) \in S /\ \A y \in S : Max(S) >= y
  BY <1>5 DEF Max
<1>7. \A x, y \in 1..n : x >= y => y <= x
  OBVIOUS
<1> QED
  BY <1>6, <1>7
-----------------------------------------------------------------------------
(* Keys and requests                                                       *)

\* The keys of the rows of a table with keys differ, and from that of its index.
LEMMA KeysDiffer ==
    ASSUME table # "keyless"
    PROVE  /\ \A k \in Keys : ElementKey(k) \in StoreKeys /\ ElementKey(k) # Index
           /\ \A k, l \in Keys : ElementKey(k) = ElementKey(l) => k = l
  BY DEF ElementKey, StoreKeys, Index, DBProtoMessageToString

\* Every key of a row is a key of the store.
LEMMA KeysAreStored == \A k \in Keys : ElementKey(k) \in StoreKeys
  BY DEF ElementKey, StoreKeys, Index, DBProtoMessageToString

\* A request is a sequence of rows and one of keys.
LEMMA RequestType ==
    ASSUME NEW r \in Requests \cup {NoRequest}
    PROVE  r.update \in Seq(Row) /\ r.delete \in Seq(Keys)
<1>1. CASE r = NoRequest
  BY <1>1 DEF NoRequest
<1>2. CASE r \in Requests
  <2>1. MaxRows \in Nat
    BY StoreAssumption
  <2>2. r.update \in SeqOf(Row, MaxRows) /\ r.delete \in SeqOf(Keys, MaxRows)
    BY <1>2 DEF Requests
  <2>3. \A S : SeqOf(S, MaxRows) \subseteq Seq(S)
    BY <2>1 DEF SeqOf
  <2> QED
    BY <2>2, <2>3
<1> QED
  BY <1>1, <1>2

\* The keys in a stored value are keys of the store.
LEMMA ListedAreStored ==
    ASSUME NEW s \in Stored
    PROVE  PaserList(s) \subseteq StoreKeys
<1>1. CASE s = Missing
  BY <1>1 DEF Missing, PaserList
<1>2. CASE \E v \in Vals : s = SerializeAsString(v)
  BY <1>2 DEF SerializeAsString, PaserList
<1>3. CASE \E ks \in SUBSET StoreKeys : s = PacketList(ks)
  BY <1>3 DEF PacketList, PaserList
<1> QED
  BY <1>1, <1>2, <1>3 DEF Stored
-----------------------------------------------------------------------------
(* What the operations of PbMessageKVHandle write                          *)

\* all are the writes of an update of rows rs: the rows in order, and then the
\* index with one of those that it did not list, if there is any.
AreUpdatesOf(all, st, rs) ==
    /\ all \in Seq({all[i] : i \in 1..Len(all)})
    /\ Len(all) \in {Len(rs), Len(rs) + 1}
    /\ \A i \in 1..Len(rs) :
           all[i] = Write(ElementKey(rs[i].key), SerializeAsString(rs[i].val))
    /\ Len(all) = Len(rs) =>
           \A i \in 1..Len(rs) : ElementKey(rs[i].key) \in PaserList(st[Index])
    /\ Len(all) = Len(rs) + 1 =>
           \E i \in 1..Len(rs) : all[Len(rs) + 1] =
               Write(Index, PacketList(PaserList(st[Index]) \cup {ElementKey(rs[i].key)}))

\* all are the writes of a delete of rows ks: the rows in order, and then the
\* index without them.
AreDeletesOf(all, st, ks) ==
    /\ all \in Seq({all[i] : i \in 1..Len(all)})
    /\ Len(all) = IF ks = <<>> THEN 0 ELSE Len(ks) + 1
    /\ \A i \in 1..Len(ks) : all[i] = Write(ElementKey(ks[i]), Missing)
    /\ ks # <<>> =>
           /\ all[Len(ks) + 1].key = Index
           /\ PaserList(all[Len(ks) + 1].value) =
                  PaserList(st[Index]) \ {ElementKey(ks[i]) : i \in 1..Len(ks)}
           /\ all[Len(ks) + 1].value \in {Missing, PacketList(PaserList(all[Len(ks) + 1].value))}

\* A sequence of n writes w with one more write after them.
LEMMA OneMore ==
    ASSUME NEW n \in Nat, NEW w, NEW last, w = [i \in 1..n |-> w[i]]
    PROVE  LET all == Append(w, last) IN
           /\ all \in Seq({all[i] : i \in 1..Len(all)})
           /\ Len(all) = n + 1 /\ all[n + 1] = last
           /\ \A i \in 1..n : all[i] = w[i]
<1>1. w \in Seq({w[i] : i \in 1..n}) /\ Len(w) = n
  OBVIOUS
<1> QED
  BY <1>1

\* MessageUpdateOnKV writes just that.
LEMMA UpdateWrites ==
    ASSUME NEW st, NEW rs \in Seq(Row)
    PROVE  AreUpdatesOf(MessageUpdateOnKV(st, rs), st, rs)
<1> DEFINE n == Len(rs)
           known == PaserList(st[Index])
           puts == [i \in 1..n |-> Write(ElementKey(rs[i].key), SerializeAsString(rs[i].val))]
           New == {i \in 1..n : ElementKey(rs[i].key) \notin known}
           new == IF New # {} THEN Min(New) ELSE 0
           all == MessageUpdateOnKV(st, rs)
           last(i) == Write(Index, PacketList(known \cup {ElementKey(rs[i].key)}))
<1>1. n \in Nat /\ New \in SUBSET Nat
  OBVIOUS
<1>2. all = IF new = 0 THEN puts ELSE Append(puts, last(new))
  BY DEF MessageUpdateOnKV, SelectInSeq
<1>3. puts \in Seq({puts[i] : i \in 1..n}) /\ Len(puts) = n
  BY <1>1
<1>4. CASE New = {}
  <2>1. all = puts
    BY <1>2, <1>4
  <2>2. \A i \in 1..n : ElementKey(rs[i].key) \in known
    BY <1>4
  <2> HIDE DEF all
  <2>3. all \in Seq({all[i] : i \in 1..Len(all)}) /\ Len(all) = n
    BY <1>3, <2>1
  <2>4. \A i \in 1..n : all[i] = Write(ElementKey(rs[i].key), SerializeAsString(rs[i].val))
    BY <2>1
  <2>5. Len(all) # n + 1
    BY <1>1, <2>3
  <2>6. AreUpdatesOf(all, st, rs)
    BY <2>2, <2>3, <2>4, <2>5 DEF AreUpdatesOf
  <2> QED
    BY <2>6 DEF all
<1>5. CASE New # {}
  <2>1. Min(New) \in New
    BY <1>1, <1>5, MinIsMember
  <2>2. new \in 1..n
    BY <1>1, <1>5, <2>1
  <2>3. all = Append(puts, last(new))
    BY <1>1, <1>2, <2>2
  <2> HIDE DEF all, new
  <2>4. /\ all \in Seq({all[i] : i \in 1..Len(all)})
        /\ Len(all) = n + 1 /\ all[n + 1] = last(new)
        /\ \A i \in 1..n : all[i] = puts[i]
    <3> HIDE DEF last
    <3>1. puts = [i \in 1..n |-> puts[i]]
      OBVIOUS
    <3> HIDE DEF puts
    <3> QED
      BY <1>1, <2>3, <3>1, OneMore
  <2>5. \A i \in 1..n : all[i] = Write(ElementKey(rs[i].key), SerializeAsString(rs[i].val))
    BY <2>4
  <2>6. Len(all) # n
    BY <1>1, <2>4
  <2>7. AreUpdatesOf(all, st, rs)
    BY <2>2, <2>4, <2>5, <2>6 DEF AreUpdatesOf
  <2> QED
    BY <2>7 DEF all
<1> QED
  BY <1>4, <1>5

\* MessageDeleteOnKV writes just that.
LEMMA DeleteWrites ==
    ASSUME NEW st, NEW ks \in Seq(Keys)
    PROVE  AreDeletesOf(MessageDeleteOnKV(st, ks), st, ks)
<1> DEFINE n == Len(ks)
           gone == {ElementKey(ks[i]) : i \in 1..n}
           left == PaserList(st[Index]) \ gone
           dels == [i \in 1..n |-> Write(ElementKey(ks[i]), Missing)]
           last == Write(Index, IF left = {} THEN Missing ELSE PacketList(left))
           all == MessageDeleteOnKV(st, ks)
<1>1. n \in Nat /\ (ks = <<>> <=> n = 0)
  OBVIOUS
<1>2. all = IF ks = <<>> THEN <<>> ELSE Append(dels, last)
  BY DEF MessageDeleteOnKV
<1>3. CASE ks = <<>>
  <2>1. all = <<>> /\ Len(all) = 0 /\ n = 0
    BY <1>2, <1>3
  <2>2. all \in Seq({all[i] : i \in 1..Len(all)})
    BY <2>1
  <2> QED
    BY <1>3, <2>1, <2>2 DEF AreDeletesOf
<1>4. CASE ks # <<>>
  <2>1. all = Append(dels, last)
    BY <1>2, <1>4
  <2>2. last.key = Index /\ PaserList(last.value) = left
        /\ last.value \in {Missing, PacketList(left)}
    BY DEF Write, PaserList, PacketList, Missing
  <2> HIDE DEF all, last
  <2>3. /\ all \in Seq({all[i] : i \in 1..Len(all)})
        /\ Len(all) = n + 1 /\ all[n + 1] = last
        /\ \A i \in 1..n : all[i] = dels[i]
    <3>1. dels = [i \in 1..n |-> dels[i]]
      OBVIOUS
    <3> HIDE DEF dels
    <3> QED
      BY <1>1, <2>1, <3>1, OneMore
  <2>4. AreDeletesOf(all, st, ks)
    BY <1>1, <1>4, <2>2, <2>3 DEF AreDeletesOf
  <2> QED
    BY <2>4 DEF all
<1> QED
  BY <1>3, <1>4

\* The last row of an update with a key.
LEMMA LastPutIsLast ==
    ASSUME NEW rs \in Seq(Row), NEW k \in KeysOf(rs)
    PROVE  \E i \in 1..Len(rs) :
               /\ rs[i].key = k /\ rs[i].val = LastPut(rs, k)
               /\ \A j \in (i + 1)..Len(rs) : rs[j].key # k
<1> DEFINE Of == {i \in 1..Len(rs) : rs[i].key = k}
<1>1. Len(rs) \in Nat /\ Of # {}
  BY DEF KeysOf
<1>2. Max(Of) \in Of /\ \A j \in Of : j <= Max(Of)
  BY <1>1, MaxIsLast
<1>3. LastPut(rs, k) = rs[Max(Of)].val
  BY <1>1 DEF LastPut, SelectLastInSeq
<1>4. \A j \in (Max(Of) + 1)..Len(rs) : rs[j].key # k
  <2> SUFFICES ASSUME NEW j \in (Max(Of) + 1)..Len(rs), rs[j].key = k PROVE FALSE
    OBVIOUS
  <2>1. j \in Of
    BY <1>1, <1>2
  <2> QED
    BY <1>1, <1>2, <2>1
<1> QED
  BY <1>2, <1>3, <1>4
-----------------------------------------------------------------------------
(* What steps have in common                                               *)

Writes == [key : StoreKeys, value : Stored]

\* All values written are values that may be stored.
LEMMA UpdatesAreTyped ==
    ASSUME NEW st \in [StoreKeys -> Stored], NEW rs \in Seq(Row)
    PROVE  MessageUpdateOnKV(st, rs) \in Seq(Writes)
<1> DEFINE all == MessageUpdateOnKV(st, rs)
<1>1. AreUpdatesOf(all, st, rs)
  BY UpdateWrites
<1>2. Index \in StoreKeys /\ PaserList(st[Index]) \subseteq StoreKeys
  BY ListedAreStored DEF StoreKeys
<1> HIDE DEF all
<1>3. ASSUME NEW i \in 1..Len(all) PROVE all[i] \in Writes
  <2>1. CASE i <= Len(rs)
    <3>1. rs[i] \in Row /\ i \in 1..Len(rs)
      BY <2>1
    <3>2. ElementKey(rs[i].key) \in StoreKeys /\ SerializeAsString(rs[i].val) \in Stored
      BY <3>1, KeysAreStored DEF Row, Stored
    <3>3. all[i] = Write(ElementKey(rs[i].key), SerializeAsString(rs[i].val))
      BY <1>1, <3>1 DEF AreUpdatesOf
    <3> QED
      BY <3>2, <3>3 DEF Write, Writes
  <2>2. CASE i > Len(rs)
    <3>1. Len(all) = Len(rs) + 1 /\ i = Len(rs) + 1
      BY <1>1, <2>2 DEF AreUpdatesOf
    <3>2. PICK j \in 1..Len(rs) : all[i] =
              Write(Index, PacketList(PaserList(st[Index]) \cup {ElementKey(rs[j].key)}))
      BY <1>1, <3>1 DEF AreUpdatesOf
    <3>3. ElementKey(rs[j].key) \in StoreKeys
      <4>1. rs[j] \in Row
        BY <3>2
      <4> QED
        BY <4>1, KeysAreStored DEF Row
    <3>4. PacketList(PaserList(st[Index]) \cup {ElementKey(rs[j].key)}) \in Stored
      BY <1>2, <3>3 DEF Stored
    <3> QED
      BY <1>2, <3>2, <3>4 DEF Write, Writes
  <2> QED
    BY <2>1, <2>2
<1>4. all \in Seq(Writes)
  BY <1>1, <1>3 DEF AreUpdatesOf
<1> QED
  BY <1>4 DEF all

\* So are those of a delete.
LEMMA DeletesAreTyped ==
    ASSUME NEW st \in [StoreKeys -> Stored], NEW ks \in Seq(Keys)
    PROVE  MessageDeleteOnKV(st, ks) \in Seq(Writes)
<1> DEFINE n == Len(ks)
           gone == {ElementKey(ks[i]) : i \in 1..n}
           left == PaserList(st[Index]) \ gone
           dels == [i \in 1..n |-> Write(ElementKey(ks[i]), Missing)]
           last == Write(Index, IF left = {} THEN Missing ELSE PacketList(left))
<1>1. MessageDeleteOnKV(st, ks) = IF ks = <<>> THEN <<>> ELSE Append(dels, last)
  BY DEF MessageDeleteOnKV
<1>2. Index \in StoreKeys /\ left \subseteq StoreKeys
  BY ListedAreStored DEF StoreKeys
<1>3. last \in Writes
  BY <1>2 DEF Stored, Write, Writes
<1>4. dels \in Seq(Writes)
  <2>1. ASSUME NEW i \in 1..n PROVE Write(ElementKey(ks[i]), Missing) \in Writes
    BY KeysAreStored DEF Stored, Write, Writes
  <2> QED
    BY <2>1
<1> HIDE DEF dels, last
<1> QED
  BY <1>1, <1>3, <1>4

\* A key stays the key of its row.
LEMMA SameTableSameKeys ==
    ASSUME table' = table
    PROVE  \A k : ElementKey(k)' = ElementKey(k)
  BY DEF ElementKey

\* In the same table the writes are the same.
LEMMA SameTableSameWrites ==
    ASSUME table' = table, NEW st, NEW rs, NEW ks
    PROVE  /\ MessageUpdateOnKV(st, rs)' = MessageUpdateOnKV(st, rs)
           /\ MessageDeleteOnKV(st, ks)' = MessageDeleteOnKV(st, ks)
<1> DEFINE n == Len(rs)
           known == PaserList(st[Index])
           puts == [i \in 1..n |-> Write(ElementKey(rs[i].key), SerializeAsString(rs[i].val))]
           New == {i \in 1..n : ElementKey(rs[i].key) \notin known}
           new == IF New # {} THEN Min(New) ELSE 0
           last == Write(Index, PacketList(known \cup {ElementKey(rs[new].key)}))
           all == MessageUpdateOnKV(st, rs)
<1>1. all = IF new = 0 THEN puts ELSE Append(puts, last)
  BY DEF MessageUpdateOnKV, SelectInSeq
<1>2. all' = IF new' = 0 THEN puts' ELSE Append(puts', last')
  BY DEF MessageUpdateOnKV, SelectInSeq
<1>3. known' = known /\ \A k : ElementKey(k)' = ElementKey(k)
  BY SameTableSameKeys DEF PaserList, Index
<1>4. puts' = puts /\ New' = New
  BY <1>3
<1>5. all' = all
  <2>1. new' = new
    BY <1>4
  <2>2. last' = last
    BY <1>3, <2>1 DEF Index
  <2>3. /\ new' = 0 => all' = puts'
        /\ new' # 0 => all' = Append(puts', last')
    BY <1>2
  <2>4. /\ new = 0 => all = puts
        /\ new # 0 => all = Append(puts, last)
    BY <1>1
  <2> HIDE DEF all, new, puts, last
  <2> QED
    BY <1>4, <2>1, <2>2, <2>3, <2>4
<1> DEFINE gone == {ElementKey(ks[i]) : i \in 1..Len(ks)}
           dels == [i \in 1..Len(ks) |-> Write(ElementKey(ks[i]), Missing)]
<1>6. gone' = gone /\ dels' = dels
  BY SameTableSameKeys
<1> QED
  BY <1>3, <1>5, <1>6 DEF MessageDeleteOnKV

\* They depend on the index only.
LEMMA SameIndexSameWrites ==
    ASSUME NEW st, NEW st2, st[Index] = st2[Index], NEW rs, NEW ks
    PROVE  /\ MessageUpdateOnKV(st, rs) = MessageUpdateOnKV(st2, rs)
           /\ MessageDeleteOnKV(st, ks) = MessageDeleteOnKV(st2, ks)
<1> DEFINE n == Len(rs)
           puts == [i \in 1..n |-> Write(ElementKey(rs[i].key), SerializeAsString(rs[i].val))]
           New(known) == {i \in 1..n : ElementKey(rs[i].key) \notin known}
           new(known) == IF New(known) # {} THEN Min(New(known)) ELSE 0
           last(known) == Write(Index, PacketList(known \cup {ElementKey(rs[new(known)].key)}))
<1>1. \A s : MessageUpdateOnKV(s, rs) = IF new(PaserList(s[Index])) = 0 THEN puts
                                        ELSE Append(puts, last(PaserList(s[Index])))
  BY DEF MessageUpdateOnKV, SelectInSeq
<1>2. MessageUpdateOnKV(st, rs) = MessageUpdateOnKV(st2, rs)
  <2> HIDE DEF puts, new, last
  <2> QED
    BY <1>1
<1>3. MessageDeleteOnKV(st, ks) = MessageDeleteOnKV(st2, ks)
  BY DEF MessageDeleteOnKV
<1> QED
  BY <1>2, <1>3

\* Writing a row touches no other row, nor the index.
LEMMA RowWritten ==
    ASSUME TypeOK, table # "keyless", table' = table,
           NEW k \in Keys, NEW s, store' = Apply(store, Write(ElementKey(k), s))
    PROVE  /\ store'[Index] = store[Index]
           /\ store'[ElementKey(k)] = s
           /\ \A l \in Keys \ {k} : store'[ElementKey(l)] = store[ElementKey(l)]
           /\ \A l : Listed(l)' <=> Listed(l)
<1>1. store \in [StoreKeys -> Stored] /\ ElementKey(k) \in StoreKeys /\ Index \in StoreKeys
  BY KeysAreStored DEF TypeOK, StoreKeys
<1>2. store' = [store EXCEPT ![ElementKey(k)] = s]
  BY DEF Apply, Write
<1>3. store'[Index] = store[Index] /\ store'[ElementKey(k)] = s
  BY <1>1, <1>2, KeysDiffer
<1>4. ASSUME NEW l \in Keys \ {k} PROVE store'[ElementKey(l)] = store[ElementKey(l)]
  <2>1. ElementKey(l) \in StoreKeys /\ ElementKey(l) # ElementKey(k)
    BY KeysDiffer
  <2> QED
    BY <1>1, <1>2, <2>1
<1>5. \A l : Listed(l)' <=> Listed(l)
  BY <1>3, SameTableSameKeys DEF Listed, PaserList, Index
<1> QED
  BY <1>3, <1>4, <1>5

\* Writing the index touches no row.
LEMMA IndexWritten ==
    ASSUME TypeOK, table # "keyless", table' = table,
           NEW w, w.key = Index, store' = Apply(store, w)
    PROVE  /\ store'[Index] = w.value
           /\ \A l \in Keys : store'[ElementKey(l)] = store[ElementKey(l)]
           /\ \A l : Listed(l)' <=> ElementKey(l) \in PaserList(w.value)
<1>1. store \in [StoreKeys -> Stored] /\ Index \in StoreKeys
  BY DEF TypeOK, StoreKeys
<1>2. store' = [store EXCEPT ![Index] = w.value]
  BY DEF Apply
<1>3. store'[Index] = w.value
  BY <1>1, <1>2
<1>4. \A l \in Keys : store'[ElementKey(l)] = store[ElementKey(l)]
  BY <1>1, <1>2, KeysDiffer
<1>5. \A l : Listed(l)' <=> ElementKey(l) \in PaserList(w.value)
  BY <1>3, SameTableSameKeys DEF Listed, PaserList, Index
<1> QED
  BY <1>3, <1>4, <1>5

\* The first of the pending writes is the next of all.
LEMMA NextWrite ==
    ASSUME NEW all \in Seq(Writes), IsRestOf(all), pending \in Seq(Writes), pending # <<>>,
           pending' = Tail(pending)
    PROVE  /\ Done(all) + 1 \in 1..Len(all)
           /\ Head(pending) = all[Done(all) + 1]
           /\ Done(all)' = Done(all) + 1
           /\ IsRestOf(all)'
           /\ pending' = <<>> <=> Done(all) + 1 = Len(all)
<1>1. Len(pending) \in Nat \ {0} /\ Len(all) \in Nat /\ Len(pending') = Len(pending) - 1
  OBVIOUS
<1>2. Head(pending) = pending[1] /\ \A i \in 1..Len(pending') : pending'[i] = pending[i + 1]
  OBVIOUS
<1>3. Done(all)' = Done(all) + 1 /\ Done(all) + 1 \in 1..Len(all)
  BY <1>1 DEF Done, IsRestOf
<1>4. Head(pending) = all[Done(all) + 1]
  BY <1>1, <1>2 DEF IsRestOf
<1>5. ASSUME NEW i \in 1..Len(pending') PROVE pending'[i] = all[Done(all)' + i]
  <2>1. i + 1 \in 1..Len(pending)
    BY <1>1
  <2>2. pending'[i] = all[Done(all) + (i + 1)]
    BY <1>2, <2>1 DEF IsRestOf
  <2>3. Done(all) + (i + 1) = Done(all)' + i
    BY <1>1, <1>3 DEF Done
  <2> QED
    BY <2>2, <2>3
<1>6. Len(pending') <= Len(all)
  BY <1>1 DEF IsRestOf
<1>7. IsRestOf(all)'
  BY <1>5, <1>6 DEF IsRestOf
<1>8. pending' = <<>> <=> Done(all) + 1 = Len(all)
  <2>1. pending' \in Seq(Writes)
    OBVIOUS
  <2>2. pending' = <<>> <=> Len(pending') = 0
    BY <2>1, EmptySeq
  <2>3. Len(pending') = 0 <=> Done(all) + 1 = Len(all)
    <3>1. \A a, b \in Nat, c \in Int : c = b - 1 => (c = 0 <=> (a - b) + 1 = a)
      OBVIOUS
    <3>2. Len(pending') \in Int /\ Len(pending) \in Nat
      BY <1>1, <2>1
    <3> QED
      BY <1>1, <2>1, <3>1, <3>2, ZenonT(30) DEF Done
  <2> QED
    BY <2>2, <2>3
<1> QED
  BY <1>3, <1>4, <1>7, <1>8

\* As long as nothing has been written all writes are pending.
LEMMA NothingDone ==
    ASSUME NEW all \in Seq(Writes), pending' = all
    PROVE  IsRestOf(all)' /\ Done(all)' = 0
  BY DEF IsRestOf, Done

\* RocksDB needs no statements.
LEMMA RocksFrame ==
    ASSUME BackendInv, NothingInMysql, backend = "rocksdb", UNCHANGED <<backend, mysqlVars>>
    PROVE  backend' = "rocksdb" /\ SqlInv' /\ NothingInMysql' /\ sql' = <<>>
  BY DEF BackendInv, NothingInMysql, mysqlVars, SqlInv
-----------------------------------------------------------------------------
(* Initial states                                                          *)

\* The inductive invariant holds initially, whichever backend and table.
LEMMA InitIInv == DbInit => IInv
<1> SUFFICES ASSUME DbInit PROVE IInv
  OBVIOUS
<1> USE DEF DbInit, Init
<1>1. TypeOK
  <2>1. store \in [StoreKeys -> Stored]
    BY DEF Stored
  <2>2. may \in [Keys -> SUBSET (Vals \cup {Default})]
    OBVIOUS
  <2>3. pending \in Seq([key : StoreKeys, value : Stored])
    BY EmptySeq
  <2> QED
    BY <2>1, <2>2, <2>3 DEF TypeOK
<1>2. BackendInv
  BY DEF BackendInv
<1>3. PaserList(store[Index]) = {}
  BY DEF PaserList, Missing, StoreKeys
<1>4. RowsInv
  BY <1>3, KeysAreStored DEF RowsInv, Listed
<1>5. RequestInv /\ UpdateInv /\ DeleteInv
  BY DEF RequestInv, UpdateInv, DeleteInv, Saving
<1>6. AnswerInv /\ SqlInv
  BY EmptySeq DEF AnswerInv, SqlInv
<1>7. NothingInMysql
  BY DEF NothingInMysql
<1> QED
  BY <1>1, <1>2, <1>4, <1>5, <1>6, <1>7 DEF IInv
-----------------------------------------------------------------------------
(* Steps over RocksDB                                                      *)

\* Of the invariant of RocksDB's states a step leaves what it is not about.
RocksStep == IInv /\ backend = "rocksdb" /\ UNCHANGED <<backend, mysqlVars>>

\* A request has something in it, and is as it was put together.
LEMMA RequestHasRows ==
    ASSUME NEW r \in Requests
    PROVE  r # NoRequest /\ [update |-> r.update, delete |-> r.delete] = r
<1>1. r.update = <<>> /\ r.delete = <<>> => Len(r.update) + Len(r.delete) = 0
  OBVIOUS
<1>2. Len(r.update) + Len(r.delete) # 0
  BY StoreAssumption DEF Requests
<1> QED
  BY <1>1, <1>2 DEF Requests, NoRequest

\* The contents of the rows of a save.
LEMMA PutsAreVals ==
    ASSUME NEW rs \in Seq(Row), NEW k
    PROVE  Puts(rs, k) \subseteq Vals
<1>1. \A i \in 1..Len(rs) : rs[i] \in Row
  OBVIOUS
<1> QED
  BY <1>1 DEF Puts, Row

\* The beginning of a save: nothing is written yet, and all that may come of it
\* is allowed for.
LEMMA SaveBeginsIInv ==
    ASSUME RocksStep, NEW r \in Requests, OnHandleSSSaveDataReq(r.update, r.delete)
    PROVE  IInv'
<1> USE DEF RocksStep
<1> DEFINE all == MessageUpdateOnKV(store, r.update)
<1>1. r.update \in Seq(Row) /\ r.delete \in Seq(Keys)
  BY RequestType
<1>2. /\ request = NoRequest /\ request' = r /\ r # NoRequest
      /\ pending' = all /\ deleting' = FALSE
      /\ may' = [k \in Keys |-> may[k] \cup Puts(r.update, k)
                                       \cup {d \in {Default} : k \in Range(r.delete)}]
      /\ alone' = alone \ Range(r.delete)
      /\ answer' = NoAnswer
      /\ table' = table /\ store' = store
  BY RequestHasRows DEF OnHandleSSSaveDataReq
<1>3. TypeOK /\ BackendInv /\ NothingInMysql
  BY DEF IInv
<1>4. all \in Seq(Writes)
  BY <1>1, <1>3, UpdatesAreTyped DEF TypeOK
<1> HIDE DEF all
<1>5. TypeOK'
  <2>1. \A k \in Keys : may'[k] \in SUBSET (Vals \cup {Default})
    BY <1>1, <1>2, <1>3, PutsAreVals DEF TypeOK
  <2>2. may' \in [Keys -> SUBSET (Vals \cup {Default})]
    BY <1>2, <2>1
  <2> QED
    BY <1>2, <1>3, <1>4, <2>2 DEF TypeOK, Writes, StoreKeys, Stored
<1>6. BackendInv'
  BY <1>2, <1>3, RocksFrame DEF BackendInv
<1>7. RowsInv'
  <2>1. \A k \in Keys : may[k] \subseteq may'[k]
    BY <1>2
  <2>2. \A k : Listed(k)' <=> Listed(k)
    BY <1>2, SameTableSameKeys DEF Listed, PaserList, Index
  <2> QED
    BY <1>2, <2>1, <2>2, SameTableSameKeys DEF IInv, RowsInv
<1>8. RequestInv'
  <2>1. ASSUME NEW i \in 1..Len(r.update) PROVE r.update[i].val \in may'[r.update[i].key]
    <3>1. r.update[i].key \in Keys
      <4>1. r.update[i] \in Row
        BY <1>1
      <4> QED
        BY <4>1 DEF Row
    <3>2. r.update[i].val \in Puts(r.update, r.update[i].key)
      BY DEF Puts
    <3> QED
      BY <1>2, <3>1, <3>2
  <2>2. ASSUME NEW k \in Range(r.delete) PROVE Default \in may'[k] /\ k \notin alone'
    <3>1. k \in Keys
      BY <1>1 DEF Range
    <3> QED
      BY <1>2, <3>1
  <2> QED
    BY <1>2, <2>1, <2>2 DEF RequestInv
<1>9. UpdateInv'
  <2>1. PICK w \in Seq(Writes) : w = all
    BY <1>4
  <2>2. MessageUpdateOnKV(store, request.update)' = w
    BY <1>2, <2>1, SameTableSameWrites DEF all
  <2>3. IsRestOf(w)' /\ Done(w)' = 0
    BY <1>2, <2>1, NothingDone
  <2>4. Len(w) >= Len(r.update) /\ Len(w) \in Nat
    <3>1. AreUpdatesOf(w, store, r.update)
      BY <1>1, <2>1, UpdateWrites DEF all
    <3>2. Len(w) \in {Len(r.update), Len(r.update) + 1} /\ Len(r.update) \in Nat
      BY <1>1, <3>1 DEF AreUpdatesOf
    <3> QED
      BY <3>2
  <2>5. ASSUME NEW i \in 1..Len(r.update) PROVE ~Made(w, i)'
    <3>1. Len(w) > 0
      BY <1>1, <2>4
    <3>2. pending' # <<>>
      BY <1>2, <2>1, <3>1, EmptySeq
    <3> QED
      BY <1>1, <2>3, <3>2 DEF Made
  <2>6. pending' = <<>> => Len(r.update) # 1
    <3>1. pending' = <<>> => Len(w) = 0
      BY <1>2, <2>1, EmptySeq
    <3>2. Len(r.update) = 1 => Len(w) # 0
      BY <2>4
    <3> QED
      BY <3>1, <3>2
  <2> QED
    BY <1>2, <2>2, <2>3, <2>5, <2>6 DEF UpdateInv
<1>10. DeleteInv'
  BY <1>2 DEF DeleteInv
<1>12. AnswerInv' /\ SqlInv' /\ NothingInMysql'
  BY <1>2, <1>3, RocksFrame DEF AnswerInv
<1> QED
  BY <1>5, <1>6, <1>7, <1>8, <1>9, <1>10, <1>12 DEF IInv

\* The delete begins when all rows of the update have been put.
LEMMA DeleteBeginsIInv ==
    ASSUME RocksStep, DeleteBegins
    PROVE  IInv'
<1> USE DEF RocksStep
<1> DEFINE update == request.update
           delete == request.delete
           all == MessageDeleteOnKV(store, delete)
<1>1. TypeOK /\ BackendInv /\ NothingInMysql
  BY DEF IInv
<1>2. /\ request # NoRequest /\ ~deleting /\ pending = <<>>
      /\ pending' = all /\ deleting' = TRUE
      /\ UNCHANGED <<table, store, request, answer, may, alone>>
  BY DEF DeleteBegins
<1>3. update \in Seq(Row) /\ delete \in Seq(Keys)
  BY <1>1, RequestType DEF TypeOK
<1>4. PICK w \in Seq(Writes) : w = all
  BY <1>1, <1>3, DeletesAreTyped DEF TypeOK
<1>5. AreDeletesOf(w, store, delete)
  BY <1>3, <1>4, DeleteWrites
<1>6. \A k : Listed(k)' <=> Listed(k)
  BY <1>2, SameTableSameKeys DEF Listed, PaserList, Index
<1> HIDE DEF all
<1>7. TypeOK'
  BY <1>1, <1>2, <1>4 DEF TypeOK, Writes, StoreKeys, Stored
<1>8. BackendInv' /\ SqlInv' /\ NothingInMysql'
  BY <1>1, <1>2, RocksFrame DEF BackendInv
<1>9. RowsInv'
  BY <1>2, <1>6, SameTableSameKeys DEF IInv, RowsInv
<1>10. RequestInv'
  BY <1>2 DEF IInv, RequestInv, Saving
<1>11. UpdateInv'
  BY <1>2 DEF UpdateInv
<1>12. DeleteInv'
  <2> SUFFICES ASSUME table # "keyless" PROVE DeleteInv'
    BY <1>2 DEF DeleteInv
  <2>1. MessageDeleteOnKV(store, request.delete)' = w
    BY <1>2, <1>4, SameTableSameWrites DEF all
  <2>2. IsRestOf(w)' /\ Done(w)' = 0
    BY <1>2, <1>4, NothingDone
  <2>3. delete = <<>> \/ pending' # <<>>
    <3>1. delete # <<>> => Len(w) = Len(delete) + 1 /\ Len(delete) \in Nat
      BY <1>3, <1>5 DEF AreDeletesOf
    <3> QED
      BY <1>2, <1>4, <3>1, EmptySeq
  <2>4. ASSUME NEW i \in 1..Len(delete) PROVE ~Made(w, i)'
    <3>1. delete # <<>>
      BY EmptySeq, <1>3
    <3> QED
      BY <1>3, <2>2, <2>3, <3>1 DEF Made
  <2>5. pending' = <<>> => Range(delete) = {}
    BY <2>3 DEF Range
  <2>6. ASSUME NEW i \in 1..Len(update)
        PROVE  \/ store[ElementKey(update[i].key)] = SerializeAsString(update[i].val)
               \/ \E j \in (i + 1)..Len(update) : update[j].key = update[i].key
    BY <1>2 DEF IInv, UpdateInv, Saving, Made
  <2>7. ASSUME NEW k \in KeysOf(update) \ Range(delete)
        PROVE  store[ElementKey(k)] = SerializeAsString(LastPut(update, k))
    <3>1. PICK i \in 1..Len(update) :
              /\ update[i].key = k /\ update[i].val = LastPut(update, k)
              /\ \A j \in (i + 1)..Len(update) : update[j].key # k
      BY <1>3, LastPutIsLast
    <3> QED
      BY <2>6, <3>1
  <2>8. Len(update) = 1 => Listed(update[1].key)
    BY <1>2 DEF IInv, UpdateInv, Saving
  <2>9. \A k \in KeysOf(update) \ Range(delete) :
            (store[ElementKey(k)])' = SerializeAsString(LastPut(update, k))
    BY <1>2, <2>7, SameTableSameKeys
  <2>10. KeysOf(update)' = KeysOf(update) /\ \A k : LastPut(update, k)' = LastPut(update, k)
    BY <1>2
  <2> QED
    BY <1>2, <1>6, <2>1, <2>2, <2>4, <2>5, <2>8, <2>9, <2>10 DEF DeleteInv, SerializeAsString
<1>14. AnswerInv'
  BY <1>1, <1>2 DEF AnswerInv, BackendInv
<1> QED
  BY <1>7, <1>8, <1>9, <1>10, <1>11, <1>12, <1>14 DEF IInv

\* A save under way has writes made of its request.
LEMMA PendingMeansSaving ==
    ASSUME RocksStep, WriteStep
    PROVE  /\ Saving /\ request.update \in Seq(Row) /\ request.delete \in Seq(Keys)
           /\ pending \in Seq(Writes) /\ pending # <<>>
           /\ store' = Apply(store, Head(pending)) /\ pending' = Tail(pending)
           /\ UNCHANGED <<table, request, deleting, answer, may, alone>>
  BY RequestType DEF RocksStep, IInv, TypeOK, BackendInv, WriteStep, Saving, Writes

\* The next write of an update is of a row, in the order of the message.
LEMMA PutsRow ==
    ASSUME RocksStep, WriteStep, ~deleting, table # "keyless",
           NEW w \in Seq(Writes), w = MessageUpdateOnKV(store, request.update),
           Done(w) + 1 \in 1..Len(request.update)
    PROVE  RowsInv' /\ UpdateInv'
<1> DEFINE update == request.update
           n == Done(w) + 1
           k == update[n].key
           v == update[n].val
<1>1. /\ Saving /\ request.update \in Seq(Row)
      /\ pending \in Seq(Writes) /\ pending # <<>>
      /\ store' = Apply(store, Head(pending)) /\ pending' = Tail(pending)
      /\ UNCHANGED <<table, request, deleting, answer, may, alone>>
  BY PendingMeansSaving
<1>2. IsRestOf(w)
  BY <1>1 DEF RocksStep, IInv, UpdateInv
<1>3. /\ Head(pending) = w[n] /\ Done(w)' = n
      /\ IsRestOf(w)' /\ (pending' = <<>> <=> n = Len(w))
  BY <1>1, <1>2, NextWrite
<1>4. AreUpdatesOf(w, store, update)
  BY <1>1, UpdateWrites
<1>5. update[n] \in Row /\ k \in Keys
  <2>1. update[n] \in Row
    BY <1>1
  <2> QED
    BY <2>1 DEF Row
<1>6. Head(pending) = Write(ElementKey(k), SerializeAsString(v))
  BY <1>3, <1>4 DEF AreUpdatesOf
<1>7. /\ store'[Index] = store[Index]
      /\ store'[ElementKey(k)] = SerializeAsString(v)
      /\ \A l \in Keys \ {k} : store'[ElementKey(l)] = store[ElementKey(l)]
      /\ \A l : Listed(l)' <=> Listed(l)
  BY <1>1, <1>5, <1>6, RowWritten DEF RocksStep, IInv
<1>8. v \in may[k]
  BY <1>1 DEF RocksStep, IInv, RequestInv
<1>9. \A l : ElementKey(l)' = ElementKey(l)
  BY <1>1, SameTableSameKeys
<1>10. SerializeAsString(v) # Missing
  BY DEF SerializeAsString, Missing
<1> HIDE DEF k, v, n
<1>11. RowsInv'
  <2>1. ASSUME NEW l \in Keys
        PROVE  /\ store'[ElementKey(l)] \in {Missing} \cup {SerializeAsString(x) : x \in may[l]}
               /\ Listed(l) /\ store'[ElementKey(l)] = Missing => Default \in may[l]
    <3>1. CASE l = k
      BY <1>7, <1>8, <1>10, <3>1
    <3>2. CASE l # k
      BY <1>7, <3>2 DEF RocksStep, IInv, RowsInv
    <3> QED
      BY <3>1, <3>2
  <2>2. \A l \in alone : Listed(l)
    BY DEF RocksStep, IInv, RowsInv
  <2> QED
    BY <1>1, <1>7, <1>9, <2>1, <2>2 DEF RowsInv, SerializeAsString, Missing
<1>12. MessageUpdateOnKV(store, request.update)' = w
  <2>1. MessageUpdateOnKV(store', request'.update) = MessageUpdateOnKV(store, request.update)
    <3>1. store'[Index] = store[Index] /\ request' = request
      BY <1>1, <1>7
    <3>2. MessageUpdateOnKV(store', request.update) = MessageUpdateOnKV(store, request.update)
      BY <3>1, SameIndexSameWrites, ZenonT(60)
    <3> QED
      BY <3>1, <3>2
  <2>2. MessageUpdateOnKV(store, request.update)' = MessageUpdateOnKV(store', request'.update)
    BY <1>1, SameTableSameWrites
  <2> QED
    BY <2>1, <2>2
<1>13. UpdateInv'
  <2>1. n \in Nat /\ Len(update) \in Nat /\ Len(w) \in {Len(update), Len(update) + 1}
    BY <1>1, <1>4 DEF AreUpdatesOf, n
  <2>2. \A i \in 1..Len(update) : Made(w, i)' <=> i <= n
    BY <1>3, <2>1 DEF Made
  <2>3. \A i \in 1..Len(update) : i < n <=> Made(w, i)
    <3>1. Len(w) \in Nat /\ Len(pending) \in Nat
      BY <1>1
    <3>2. Done(w) \in Int
      BY <3>1 DEF Done
    <3>3. \A i \in 1..Len(update) : i < n <=> i <= Done(w)
      BY <2>1, <3>2 DEF n
    <3> QED
      BY <1>1, <3>3 DEF Made
  <2>4. ASSUME NEW i \in 1..Len(update), i <= n
        PROVE  /\ store'[ElementKey(update[i].key)] # Missing
               /\ \/ store'[ElementKey(update[i].key)] = SerializeAsString(update[i].val)
                  \/ \E j \in (i + 1)..Len(update) : j <= n /\ update[j].key = update[i].key
    <3>1. CASE i = n
      BY <1>7, <1>10, <3>1 DEF k, v
    <3>2. CASE i < n /\ update[i].key = k
      <4>1. n \in (i + 1)..Len(update) /\ update[n].key = update[i].key
        BY <2>1, <3>2 DEF k, n
      <4> QED
        BY <1>7, <1>10, <2>1, <3>2, <4>1
    <3>3. CASE i < n /\ update[i].key # k
      <4>1. update[i].key \in Keys \ {k}
        <5>1. update[i] \in Row
          BY <1>1
        <5> QED
          BY <3>3, <5>1 DEF Row
      <4>2. /\ store[ElementKey(update[i].key)] # Missing
            /\ \/ store[ElementKey(update[i].key)] = SerializeAsString(update[i].val)
               \/ \E j \in (i + 1)..Len(update) : Made(w, j) /\ update[j].key = update[i].key
        BY <1>1, <2>3, <3>3 DEF RocksStep, IInv, UpdateInv
      <4>3. \A j \in 1..Len(update) : Made(w, j) => j <= n
        BY <2>1, <2>3
      <4>4. \A j \in (i + 1)..Len(update) : j \in 1..Len(update)
        BY <2>1
      <4> QED
        BY <1>7, <4>1, <4>2, <4>3, <4>4
    <3> QED
      BY <2>1, <2>4, <3>1, <3>2, <3>3
  <2>5. pending' = <<>> /\ Len(update) = 1 => Listed(update[1].key)
    <3>1. pending' = <<>> => Len(w) = Len(update)
      BY <1>3, <2>1 DEF n
    <3>2. Len(w) = Len(update) =>
             \A i \in 1..Len(update) : ElementKey(update[i].key) \in PaserList(store[Index])
      BY <1>4 DEF AreUpdatesOf
    <3> QED
      BY <3>1, <3>2 DEF Listed
  <2>6. Listed(update[1].key)' <=> Listed(update[1].key)
    BY <1>1, <1>7
  <2>7. \A i : update[i]' = update[i]
    BY <1>1
  <2> HIDE DEF update
  <2>8. \A i \in 1..Len(update) : Made(w, i)' =>
            /\ store'[ElementKey(update[i].key)] # Missing
            /\ \/ store'[ElementKey(update[i].key)] = SerializeAsString(update[i].val)
               \/ \E j \in (i + 1)..Len(update) : Made(w, j)' /\ update[j].key = update[i].key
    <3> SUFFICES ASSUME NEW i \in 1..Len(update), Made(w, i)'
                 PROVE  /\ store'[ElementKey(update[i].key)] # Missing
                        /\ \/ store'[ElementKey(update[i].key)] = SerializeAsString(update[i].val)
                           \/ \E j \in (i + 1)..Len(update) : Made(w, j)' /\ update[j].key = update[i].key
      OBVIOUS
    <3>1. \A j \in (i + 1)..Len(update) : j \in 1..Len(update)
      BY <2>1
    <3> QED
      BY <2>2, <2>4, <3>1
  <2> QED
    BY <1>1, <1>3, <1>9, <1>12, <2>5, <2>6, <2>8 DEF UpdateInv, update, SerializeAsString, Missing
<1> QED
  BY <1>11, <1>13

\* The last write of an update may be of the index, with a row that was put.
LEMMA PutsIndex ==
    ASSUME RocksStep, WriteStep, ~deleting, table # "keyless",
           NEW w \in Seq(Writes), w = MessageUpdateOnKV(store, request.update),
           Done(w) + 1 \notin 1..Len(request.update)
    PROVE  RowsInv' /\ UpdateInv'
<1> DEFINE update == request.update
           n == Done(w) + 1
<1>1. /\ Saving /\ request.update \in Seq(Row)
      /\ pending \in Seq(Writes) /\ pending # <<>>
      /\ store' = Apply(store, Head(pending)) /\ pending' = Tail(pending)
      /\ UNCHANGED <<table, request, deleting, answer, may, alone>>
  BY PendingMeansSaving
<1>2. IsRestOf(w)
  BY <1>1 DEF RocksStep, IInv, UpdateInv
<1>3. /\ n \in 1..Len(w) /\ Head(pending) = w[n]
      /\ (pending' = <<>> <=> n = Len(w))
  BY <1>1, <1>2, NextWrite
<1>4. AreUpdatesOf(w, store, update)
  BY <1>1, UpdateWrites
<1>5. Len(w) = Len(update) + 1 /\ n = Len(update) + 1
  BY <1>1, <1>3, <1>4 DEF AreUpdatesOf
<1>6. PICK i \in 1..Len(update) :
          w[n] = Write(Index, PacketList(PaserList(store[Index]) \cup {ElementKey(update[i].key)}))
  BY <1>4, <1>5 DEF AreUpdatesOf
<1> DEFINE new == update[i].key
<1>7. new \in Keys
  <2>1. update[i] \in Row
    BY <1>1
  <2> QED
    BY <2>1 DEF Row
<1>8. /\ Head(pending).key = Index
      /\ PaserList(Head(pending).value) = PaserList(store[Index]) \cup {ElementKey(new)}
  BY <1>3, <1>6 DEF Write, PacketList, PaserList
<1>9. /\ \A l \in Keys : store'[ElementKey(l)] = store[ElementKey(l)]
      /\ \A l : Listed(l)' <=> ElementKey(l) \in PaserList(Head(pending).value)
  BY <1>1, <1>8, IndexWritten DEF RocksStep, IInv
<1>10. \A l \in Keys : Listed(l)' <=> Listed(l) \/ l = new
  BY <1>7, <1>8, <1>9, KeysDiffer DEF Listed
<1>11. \A j \in 1..Len(update) : Made(w, j)
  <2>1. Len(w) \in Nat /\ Len(pending) \in Nat /\ Len(update) \in Nat
    BY <1>1
  <2>2. \A j \in 1..Len(update) : j <= Done(w)
    BY <1>5, <2>1 DEF Done, n
  <2> QED
    BY <2>2 DEF Made
<1>12. ASSUME NEW j \in 1..Len(update)
       PROVE  /\ store[ElementKey(update[j].key)] # Missing
              /\ \/ store[ElementKey(update[j].key)] = SerializeAsString(update[j].val)
                 \/ \E m \in (j + 1)..Len(update) : update[m].key = update[j].key
  BY <1>1, <1>11 DEF RocksStep, IInv, UpdateInv
<1>13. \A l : ElementKey(l)' = ElementKey(l)
  BY <1>1, SameTableSameKeys
<1>14. RowsInv'
  <2>1. store[ElementKey(new)] # Missing
    BY <1>12
  <2>2. alone \subseteq Keys
    BY DEF RocksStep, IInv, TypeOK
  <2> HIDE DEF new
  <2>3. /\ \A l \in Keys : store[ElementKey(l)] \in {Missing} \cup {SerializeAsString(x) : x \in may[l]}
        /\ \A l \in Keys : Listed(l)' /\ store[ElementKey(l)] = Missing => Default \in may[l]
        /\ \A l \in alone : Listed(l)'
    BY <1>10, <2>1, <2>2 DEF RocksStep, IInv, RowsInv
  <2> QED
    BY <1>1, <1>9, <1>13, <2>3 DEF RowsInv, SerializeAsString, Missing
<1>15. UpdateInv'
  <2>1. pending' = <<>>
    BY <1>3, <1>5
  <2>2. Len(update) = 1 => Listed(update[1].key)'
    <3>1. Len(update) = 1 => new = update[1].key
      OBVIOUS
    <3>2. \A l : l = new => Listed(l)'
      BY <1>7, <1>10
    <3>3. update[1].key' = update[1].key
      BY <1>1
    <3> QED
      BY <3>1, <3>2, <3>3
  <2>3. \A j \in 1..Len(update) : update[j].key \in Keys
    <3>1. \A j \in 1..Len(update) : update[j] \in Row
      BY <1>1
    <3> QED
      BY <3>1 DEF Row
  <2>4. \A j \in 1..Len(update) : store'[ElementKey(update[j].key)] = store[ElementKey(update[j].key)]
    BY <1>9, <2>3
  <2>5. \A j \in 1..Len(update) :
            /\ store'[ElementKey(update[j].key)] # Missing
            /\ \/ store'[ElementKey(update[j].key)] = SerializeAsString(update[j].val)
               \/ \E m \in (j + 1)..Len(update) : update[m].key = update[j].key
    BY <1>12, <2>4
  <2>6. request' = request
    BY <1>1
  <2> QED
    BY <1>13, <2>1, <2>2, <2>5, <2>6, SMTT(60) DEF UpdateInv, Made, SerializeAsString, Missing
<1> QED
  BY <1>14, <1>15

\* The next write of a delete takes a row away.
LEMMA DeletesRow ==
    ASSUME RocksStep, WriteStep, deleting, table # "keyless",
           NEW w \in Seq(Writes), w = MessageDeleteOnKV(store, request.delete),
           Done(w) + 1 \in 1..Len(request.delete)
    PROVE  RowsInv' /\ DeleteInv'
<1> DEFINE update == request.update
           delete == request.delete
           n == Done(w) + 1
           k == delete[n]
<1>1. /\ Saving /\ update \in Seq(Row) /\ delete \in Seq(Keys)
      /\ pending \in Seq(Writes) /\ pending # <<>>
      /\ store' = Apply(store, Head(pending)) /\ pending' = Tail(pending)
      /\ UNCHANGED <<table, request, deleting, answer, may, alone>>
  BY PendingMeansSaving
<1>2. IsRestOf(w)
  BY <1>1 DEF RocksStep, IInv, DeleteInv
<1>3. /\ Head(pending) = w[n] /\ Done(w)' = n
      /\ IsRestOf(w)' /\ (pending' = <<>> <=> n = Len(w))
  BY <1>1, <1>2, NextWrite
<1>4. AreDeletesOf(w, store, delete)
  BY <1>1, DeleteWrites
<1>5. k \in Keys /\ k \in Range(delete)
  BY <1>1 DEF Range
<1>6. Head(pending) = Write(ElementKey(k), Missing)
  BY <1>3, <1>4 DEF AreDeletesOf
<1>7. /\ store'[Index] = store[Index]
      /\ store'[ElementKey(k)] = Missing
      /\ \A l \in Keys \ {k} : store'[ElementKey(l)] = store[ElementKey(l)]
      /\ \A l : Listed(l)' <=> Listed(l)
  BY <1>1, <1>5, <1>6, RowWritten DEF RocksStep, IInv
<1>8. Default \in may[k]
  BY <1>1, <1>5 DEF RocksStep, IInv, RequestInv
<1>9. \A l : ElementKey(l)' = ElementKey(l)
  BY <1>1, SameTableSameKeys
<1>10. /\ n \in Nat /\ Len(delete) \in Nat /\ Len(w) = Len(delete) + 1 /\ Len(pending) \in Nat
       /\ n \in 1..Len(delete) /\ pending' # <<>>
  <2>1. delete # <<>>
    BY <1>1, EmptySeq
  <2>2. Len(w) = Len(delete) + 1 /\ n \in 1..Len(delete) /\ Len(delete) \in Nat
    BY <1>1, <1>4, <2>1 DEF AreDeletesOf
  <2> HIDE DEF n, delete
  <2> QED
    BY <1>1, <1>3, <2>2
<1>11. \A i \in 1..Len(delete) : i < n => Made(w, i)
  <2>1. Len(w) \in Nat
    BY <1>10
  <2>2. \A i \in 1..Len(delete) : i < n => i <= Done(w)
    BY <1>10, <2>1 DEF Done, n
  <2> QED
    BY <2>2 DEF Made
<1>12. \A i \in 1..Len(delete) : Made(w, i)' <=> i <= n
  BY <1>3, <1>10 DEF Made
<1> HIDE DEF k, n
<1>13. RowsInv'
  <2>1. ASSUME NEW l \in Keys
        PROVE  /\ store'[ElementKey(l)] \in {Missing} \cup {SerializeAsString(x) : x \in may[l]}
               /\ Listed(l) /\ store'[ElementKey(l)] = Missing => Default \in may[l]
    <3>1. CASE l = k
      BY <1>7, <1>8, <3>1
    <3>2. CASE l # k
      BY <1>7, <3>2 DEF RocksStep, IInv, RowsInv
    <3> QED
      BY <3>1, <3>2
  <2>2. \A l \in alone : Listed(l)
    BY DEF RocksStep, IInv, RowsInv
  <2> QED
    BY <1>1, <1>7, <1>9, <2>1, <2>2 DEF RowsInv, SerializeAsString, Missing
<1>14. MessageDeleteOnKV(store, request.delete)' = w
  <2>1. MessageDeleteOnKV(store', request'.delete) = MessageDeleteOnKV(store, request.delete)
    <3>1. store'[Index] = store[Index] /\ request' = request
      BY <1>1, <1>7
    <3>2. MessageDeleteOnKV(store', request.delete) = MessageDeleteOnKV(store, request.delete)
      BY <3>1, SameIndexSameWrites, ZenonT(60)
    <3> QED
      BY <3>1, <3>2
  <2>2. MessageDeleteOnKV(store, request.delete)' = MessageDeleteOnKV(store', request'.delete)
    BY <1>1, SameTableSameWrites
  <2> QED
    BY <2>1, <2>2
<1>15. DeleteInv'
  <2>1. ASSUME NEW i \in 1..Len(delete), i <= n
        PROVE  store'[ElementKey(delete[i])] = Missing
    <3>1. CASE delete[i] = k
      BY <1>7, <3>1
    <3>2. CASE delete[i] # k
      <4>1. i < n
        BY <1>10, <2>1, <3>2 DEF k
      <4>2. store[ElementKey(delete[i])] = Missing
        BY <1>1, <1>11, <4>1 DEF RocksStep, IInv, DeleteInv
      <4>3. delete[i] \in Keys \ {k}
        BY <1>1, <3>2
      <4> QED
        BY <1>7, <4>2, <4>3
    <3> QED
      BY <3>1, <3>2
  <2>2. ASSUME NEW l \in KeysOf(update) \ Range(delete)
        PROVE  store'[ElementKey(l)] = SerializeAsString(LastPut(update, l))
    <3>1. l \in Keys \ {k}
      <4>1. \A i \in 1..Len(update) : update[i] \in Row
        BY <1>1
      <4> QED
        BY <1>5, <4>1 DEF KeysOf, Row
    <3>2. store[ElementKey(l)] = SerializeAsString(LastPut(update, l))
      BY <1>1 DEF RocksStep, IInv, DeleteInv
    <3> QED
      BY <1>7, <3>1, <3>2
  <2>3. Len(update) = 1 /\ update[1].key \notin Range(delete) => Listed(update[1].key)
    BY <1>1 DEF RocksStep, IInv, DeleteInv
  <2>4. \A i \in 1..Len(delete) : Made(w, i)' => store'[ElementKey(delete[i])] = Missing
    BY <1>12, <2>1
  <2>5. /\ KeysOf(update)' = KeysOf(update)
        /\ \A l : LastPut(update, l)' = LastPut(update, l)
        /\ Range(delete)' = Range(delete)
    BY <1>1
  <2> HIDE DEF update, delete
  <2> QED
    BY <1>1, <1>3, <1>7, <1>9, <1>10, <1>14, <2>2, <2>3, <2>4, <2>5
    DEF DeleteInv, update, delete, SerializeAsString, Missing
<1> QED
  BY <1>13, <1>15

\* The last write of a delete takes the rows off the index.
LEMMA DeletesIndex ==
    ASSUME RocksStep, WriteStep, deleting, table # "keyless",
           NEW w \in Seq(Writes), w = MessageDeleteOnKV(store, request.delete),
           Done(w) + 1 \notin 1..Len(request.delete)
    PROVE  RowsInv' /\ DeleteInv'
<1> DEFINE update == request.update
           delete == request.delete
           n == Done(w) + 1
<1>1. /\ Saving /\ update \in Seq(Row) /\ delete \in Seq(Keys)
      /\ pending \in Seq(Writes) /\ pending # <<>>
      /\ store' = Apply(store, Head(pending)) /\ pending' = Tail(pending)
      /\ UNCHANGED <<table, request, deleting, answer, may, alone>>
  BY PendingMeansSaving
<1>2. IsRestOf(w)
  BY <1>1 DEF RocksStep, IInv, DeleteInv
<1>3. /\ n \in 1..Len(w) /\ Head(pending) = w[n]
      /\ (pending' = <<>> <=> n = Len(w))
  BY <1>1, <1>2, NextWrite
<1>4. AreDeletesOf(w, store, delete)
  BY <1>1, DeleteWrites
<1>5. delete # <<>> /\ Len(w) = Len(delete) + 1 /\ n = Len(delete) + 1
  BY <1>1, <1>3, <1>4, SMTT(60) DEF AreDeletesOf
<1>6. /\ Head(pending).key = Index
      /\ PaserList(Head(pending).value) =
             PaserList(store[Index]) \ {ElementKey(delete[i]) : i \in 1..Len(delete)}
  BY <1>3, <1>4, <1>5 DEF AreDeletesOf
<1>7. /\ \A l \in Keys : store'[ElementKey(l)] = store[ElementKey(l)]
      /\ \A l : Listed(l)' <=> ElementKey(l) \in PaserList(Head(pending).value)
  BY <1>1, <1>6, IndexWritten DEF RocksStep, IInv
<1>8. \A l \in Keys : Listed(l)' <=> Listed(l) /\ l \notin Range(delete)
  <2>1. \A l \in Keys : l \in Range(delete) <=>
            ElementKey(l) \in {ElementKey(delete[i]) : i \in 1..Len(delete)}
    <3>1. \A i \in 1..Len(delete) : delete[i] \in Keys
      BY <1>1
    <3>2. \A l : l \in Range(delete) <=> \E i \in 1..Len(delete) : l = delete[i]
      BY <1>1 DEF Range
    <3> QED
      BY <3>1, <3>2, KeysDiffer
  <2> QED
    BY <1>6, <1>7, <2>1 DEF Listed
<1>9. \A i \in 1..Len(delete) : Made(w, i)
  <2>1. Len(w) \in Nat /\ Len(pending) \in Nat /\ Len(delete) \in Nat
    BY <1>1
  <2>2. \A i \in 1..Len(delete) : i <= Done(w)
    BY <1>5, <2>1 DEF Done, n
  <2> QED
    BY <2>2 DEF Made
<1>10. \A l : ElementKey(l)' = ElementKey(l)
  BY <1>1, SameTableSameKeys
<1>11. RowsInv'
  <2>1. \A l \in alone : l \in Keys /\ l \notin Range(delete)
    BY <1>1 DEF RocksStep, IInv, TypeOK, RequestInv
  <2>2. /\ \A l \in Keys : store[ElementKey(l)] \in {Missing} \cup {SerializeAsString(x) : x \in may[l]}
        /\ \A l \in Keys : Listed(l)' /\ store[ElementKey(l)] = Missing => Default \in may[l]
        /\ \A l \in alone : Listed(l)'
    BY <1>8, <2>1 DEF RocksStep, IInv, RowsInv
  <2> QED
    BY <1>1, <1>7, <1>10, <2>2 DEF RowsInv, SerializeAsString, Missing
<1>12. DeleteInv'
  <2>1. pending' = <<>>
    BY <1>3, <1>5
  <2>2. /\ \A i \in 1..Len(delete) : delete[i] \in Keys
        /\ \A k \in KeysOf(update) : k \in Keys
        /\ Range(delete) \subseteq Keys
        /\ Len(update) = 1 => update[1].key \in Keys
    <3>1. \A i \in 1..Len(update) : update[i] \in Row
      BY <1>1
    <3> QED
      BY <1>1, <3>1 DEF KeysOf, Row, Range
  <2>3. \A i \in 1..Len(delete) : store'[ElementKey(delete[i])] = Missing
    BY <1>1, <1>7, <1>9, <2>2 DEF RocksStep, IInv, DeleteInv
  <2>4. \A k \in Range(delete) : ~Listed(k)'
    BY <1>8, <2>2
  <2>5. \A k \in KeysOf(update) \ Range(delete) :
            store'[ElementKey(k)] = SerializeAsString(LastPut(update, k))
    BY <1>1, <1>7, <2>2 DEF RocksStep, IInv, DeleteInv
  <2>6. Len(update) = 1 /\ update[1].key \notin Range(delete) => Listed(update[1].key)
    BY <1>1 DEF RocksStep, IInv, DeleteInv
  <2>7. \A l \in Keys : Listed(l) /\ l \notin Range(delete) => Listed(l)'
    BY <1>8
  <2>8. /\ KeysOf(update)' = KeysOf(update)
        /\ \A l : LastPut(update, l)' = LastPut(update, l)
        /\ Range(delete)' = Range(delete)
    BY <1>1
  <2> HIDE DEF update, delete
  <2> QED
    BY <1>1, <1>10, <2>1, <2>2, <2>3, <2>4, <2>5, <2>6, <2>7, <2>8
    DEF DeleteInv, update, delete, SerializeAsString, Missing
<1> QED
  BY <1>11, <1>12

\* A put or a delete.
LEMMA WriteStepIInv ==
    ASSUME RocksStep, WriteStep
    PROVE  IInv'
<1> USE DEF RocksStep
<1>1. TypeOK /\ BackendInv /\ NothingInMysql
  BY DEF IInv
<1>2. /\ Saving /\ request.update \in Seq(Row) /\ request.delete \in Seq(Keys)
      /\ pending \in Seq(Writes) /\ pending # <<>>
      /\ store' = Apply(store, Head(pending)) /\ pending' = Tail(pending)
      /\ UNCHANGED <<table, request, deleting, answer, may, alone>>
  BY PendingMeansSaving
<1>3. TypeOK'
  <2>1. Head(pending) \in Writes /\ Tail(pending) \in Seq(Writes)
    BY <1>2
  <2>2. store' \in [StoreKeys -> Stored]
    BY <1>1, <1>2, <2>1 DEF TypeOK, Apply, Writes
  <2> QED
    BY <1>1, <1>2, <2>1, <2>2 DEF TypeOK, Writes, StoreKeys, Stored
<1>4. BackendInv' /\ SqlInv' /\ NothingInMysql'
  BY <1>1, <1>2, RocksFrame DEF BackendInv, Saving
<1>5. RequestInv'
  BY <1>2 DEF IInv, RequestInv, Saving
<1>6. AnswerInv'
  BY <1>1, <1>2 DEF AnswerInv, BackendInv, Saving
<1>7. RowsInv' /\ UpdateInv' /\ DeleteInv'
  <2>1. CASE table = "keyless"
    BY <1>2, <2>1 DEF RowsInv, UpdateInv, DeleteInv
  <2>2. CASE table # "keyless" /\ ~deleting
    <3>1. PICK w \in Seq(Writes) : w = MessageUpdateOnKV(store, request.update)
      BY <1>1, <1>2, UpdatesAreTyped DEF TypeOK
    <3>2. RowsInv' /\ UpdateInv'
      BY <2>2, <3>1, PutsRow, PutsIndex
    <3> QED
      BY <1>2, <2>2, <3>2 DEF DeleteInv
  <2>3. CASE table # "keyless" /\ deleting
    <3>1. PICK w \in Seq(Writes) : w = MessageDeleteOnKV(store, request.delete)
      BY <1>1, <1>2, DeletesAreTyped DEF TypeOK
    <3>2. RowsInv' /\ DeleteInv'
      BY <2>3, <3>1, DeletesRow, DeletesIndex
    <3> QED
      BY <1>2, <2>3, <3>2 DEF UpdateInv
  <2> QED
    BY <1>1, <2>1, <2>2, <2>3 DEF TypeOK
<1> QED
  BY <1>3, <1>4, <1>5, <1>6, <1>7 DEF IInv

\* The end of a save: what it was about is what its rows are now.
LEMMA SaveAnsweredIInv ==
    ASSUME RocksStep, SaveAnswered
    PROVE  IInv'
<1> USE DEF RocksStep
<1> DEFINE update == request.update
           delete == request.delete
<1>1. TypeOK /\ BackendInv /\ NothingInMysql
  BY DEF IInv
<1>2. /\ Saving /\ deleting /\ pending = <<>>
      /\ may' = [k \in Keys |->
                    CASE k \in Range(delete) -> {}
                      [] k \in KeysOf(update) \ Range(delete) -> {LastPut(update, k)}
                      [] OTHER -> may[k]]
      /\ alone' = alone \cup {k \in KeysOf(update) \ Range(delete) : Len(update) = 1}
      /\ request' = NoRequest /\ deleting' = FALSE
      /\ UNCHANGED <<table, store, pending, answer>>
  BY DEF SaveAnswered, Saving
<1>3. update \in Seq(Row) /\ delete \in Seq(Keys)
  BY <1>1, RequestType DEF TypeOK
<1>4. KeysOf(update) \subseteq Keys /\ \A k \in KeysOf(update) : LastPut(update, k) \in Vals
  <2>1. \A i \in 1..Len(update) : update[i] \in Row
    BY <1>3
  <2>2. KeysOf(update) \subseteq Keys
    BY <2>1 DEF KeysOf, Row
  <2>3. ASSUME NEW k \in KeysOf(update) PROVE LastPut(update, k) \in Vals
    <3>1. PICK i \in 1..Len(update) : update[i].val = LastPut(update, k)
      BY <1>3, LastPutIsLast
    <3> QED
      BY <2>1, <3>1 DEF Row
  <2> QED
    BY <2>2, <2>3
<1>5. /\ \A k \in Range(delete) : may'[k] = {}
      /\ \A k \in KeysOf(update) \ Range(delete) : may'[k] = {LastPut(update, k)}
      /\ \A k \in Keys : k \notin Range(delete) /\ k \notin KeysOf(update) => may'[k] = may[k]
  <2>1. Range(delete) \subseteq Keys
    BY <1>3 DEF Range
  <2> QED
    BY <1>2, <1>4, <2>1
<1>6. \A k : ElementKey(k)' = ElementKey(k) /\ (Listed(k)' <=> Listed(k))
  BY <1>2, SameTableSameKeys DEF Listed, PaserList, Index
<1> HIDE DEF update, delete
<1>7. TypeOK'
  <2>1. \A k \in Keys : may'[k] \in SUBSET (Vals \cup {Default})
    BY <1>1, <1>4, <1>5 DEF TypeOK
  <2>2. may' \in [Keys -> SUBSET (Vals \cup {Default})]
    BY <1>2, <2>1
  <2>3. alone' \subseteq Keys
    BY <1>1, <1>2, <1>4 DEF TypeOK
  <2> QED
    BY <1>1, <1>2, <2>2, <2>3 DEF TypeOK, StoreKeys, Stored
<1>8. BackendInv' /\ SqlInv' /\ NothingInMysql'
  BY <1>1, <1>2, RocksFrame DEF BackendInv
<1>9. RowsInv'
  <2> SUFFICES ASSUME table # "keyless" PROVE RowsInv'
    BY <1>2 DEF RowsInv
  <2>1. \A k \in Range(delete) : store[ElementKey(k)] = Missing /\ ~Listed(k)
    <3>1. \A i \in 1..Len(delete) : store[ElementKey(delete[i])] = Missing
      BY <1>2 DEF IInv, DeleteInv, Made, delete
    <3>2. \A k \in Range(delete) : \E i \in 1..Len(delete) : k = delete[i]
      BY <1>3 DEF Range
    <3>3. \A k \in Range(delete) : ~Listed(k)
      BY <1>2 DEF IInv, DeleteInv, delete
    <3> QED
      BY <3>1, <3>2, <3>3
  <2>2. \A k \in KeysOf(update) \ Range(delete) :
            store[ElementKey(k)] = SerializeAsString(LastPut(update, k))
    BY <1>2 DEF IInv, DeleteInv, update, delete
  <2>3. Len(update) = 1 => \A k \in KeysOf(update) \ Range(delete) : Listed(k)
    <3>1. Len(update) = 1 => \A k \in KeysOf(update) : k = update[1].key
      BY DEF KeysOf
    <3>2. Len(update) = 1 /\ update[1].key \notin Range(delete) => Listed(update[1].key)
      BY <1>2 DEF IInv, DeleteInv, update, delete
    <3> QED
      BY <3>1, <3>2
  <2>4. ASSUME NEW k \in Keys
        PROVE  /\ store[ElementKey(k)] \in {Missing} \cup {SerializeAsString(x) : x \in may'[k]}
               /\ Listed(k) /\ store[ElementKey(k)] = Missing => Default \in may'[k]
    <3>1. CASE k \in Range(delete)
      BY <2>1, <3>1
    <3>2. CASE k \in KeysOf(update) \ Range(delete)
      <4>1. SerializeAsString(LastPut(update, k)) # Missing
        BY DEF SerializeAsString, Missing
      <4> QED
        BY <1>5, <2>2, <3>2, <4>1
    <3>3. CASE k \notin Range(delete) /\ k \notin KeysOf(update)
      BY <1>5, <3>3 DEF IInv, RowsInv
    <3> QED
      BY <3>1, <3>2, <3>3
  <2>5. \A k \in alone' : Listed(k)
    BY <1>2, <2>3 DEF IInv, RowsInv
  <2> QED
    BY <1>2, <1>6, <2>4, <2>5 DEF RowsInv, SerializeAsString, Missing
<1>10. RequestInv' /\ UpdateInv' /\ DeleteInv'
  BY <1>2 DEF RequestInv, UpdateInv, DeleteInv, Saving
<1>12. AnswerInv'
  BY <1>1, <1>2 DEF AnswerInv, BackendInv, Saving
<1> QED
  BY <1>7, <1>8, <1>9, <1>10, <1>12 DEF IInv

\* In the same table the same store gives the same answers.
LEMMA SameAnswers ==
    ASSUME table' = table, NEW st
    PROVE  MessageLoadOnKV(st, {})' = MessageLoadOnKV(st, {})
  BY DEF MessageLoadOnKV, PaserList, ParseFromString, Index, ElementKey

\* A query changes the answer only.
LEMMA QueryIInv ==
    ASSUME RocksStep, OnHandleSSQueryDataReq
    PROVE  IInv'
<1> USE DEF RocksStep
<1>1. TypeOK /\ BackendInv /\ NothingInMysql
  BY DEF IInv
<1>2. /\ request = NoRequest /\ answer' \in MessageLoadOnKV(store, {})
      /\ UNCHANGED <<table, store, request, pending, deleting, may, alone>>
  BY DEF OnHandleSSQueryDataReq
<1>3. TypeOK'
  BY <1>1, <1>2 DEF TypeOK, StoreKeys, Stored
<1>4. BackendInv' /\ SqlInv' /\ NothingInMysql'
  BY <1>1, <1>2, RocksFrame DEF BackendInv
<1>5. RowsInv'
  BY <1>2, SameTableSameKeys DEF IInv, RowsInv, Listed, PaserList, Index, SerializeAsString, Missing
<1>6. RequestInv' /\ UpdateInv' /\ DeleteInv'
  BY <1>2 DEF RequestInv, UpdateInv, DeleteInv, Saving
<1>8. AnswerInv'
  <2>1. MessageLoadOnKV(store, {})' = MessageLoadOnKV(store, {})
    BY <1>2, SameAnswers
  <2> QED
    BY <1>2, <2>1 DEF AnswerInv
<1> QED
  BY <1>3, <1>4, <1>5, <1>6, <1>8 DEF IInv

\* A crash leaves what is stored, and what it may be.
LEMMA CrashIInv ==
    ASSUME RocksStep, Crash
    PROVE  IInv'
<1> USE DEF RocksStep
<1>1. TypeOK /\ BackendInv /\ NothingInMysql
  BY DEF IInv
<1>2. /\ request # NoRequest /\ request' = NoRequest /\ pending' = <<>> /\ deleting' = FALSE
      /\ UNCHANGED <<table, store, answer, may, alone>>
  BY DEF Crash
<1>3. TypeOK'
  BY <1>1, <1>2, EmptySeq DEF TypeOK, StoreKeys, Stored
<1>4. BackendInv' /\ SqlInv' /\ NothingInMysql'
  BY <1>1, <1>2, RocksFrame DEF BackendInv
<1>5. RowsInv'
  BY <1>2, SameTableSameKeys DEF IInv, RowsInv, Listed, PaserList, Index, SerializeAsString, Missing
<1>6. RequestInv' /\ UpdateInv' /\ DeleteInv'
  BY <1>2 DEF RequestInv, UpdateInv, DeleteInv, Saving
<1>8. AnswerInv'
  BY <1>1, <1>2 DEF AnswerInv, BackendInv
<1> QED
  BY <1>3, <1>4, <1>5, <1>6, <1>8 DEF IInv

\* Every step over RocksDB.
LEMMA RocksDbIInv ==
    ASSUME IInv, RocksDb
    PROVE  IInv'
<1>1. RocksStep /\ Next
  BY DEF RocksDb, RocksStep
<1> QED
  BY <1>1, SaveBeginsIInv, DeleteBeginsIInv, WriteStepIInv, SaveAnsweredIInv, QueryIInv, CrashIInv
  DEF Next
-----------------------------------------------------------------------------
(* What the statements are                                                 *)

\* The places of three values each.
LEMMA Thirds ==
    ASSUME NEW n \in Nat
    PROVE  /\ (n * 3) \div 3 = n
           /\ \A i \in 1..n :
                  /\ {3 * i - 2, 3 * i - 1, 3 * i} \subseteq 1..(n * 3)
                  /\ ((3 * i - 2 - 1) \div 3) + 1 = i /\ ((3 * i - 2 - 1) % 3) + 1 = 1
                  /\ ((3 * i - 1 - 1) \div 3) + 1 = i /\ ((3 * i - 1 - 1) % 3) + 1 = 2
                  /\ ((3 * i - 1) \div 3) + 1 = i /\ ((3 * i - 1) % 3) + 1 = 3
<1>1. (n * 3) \div 3 = n
  OBVIOUS
<1>2. ASSUME NEW i \in 1..n
      PROVE  /\ {3 * i - 2, 3 * i - 1, 3 * i} \subseteq 1..(n * 3)
             /\ ((3 * i - 2 - 1) \div 3) + 1 = i /\ ((3 * i - 2 - 1) % 3) + 1 = 1
             /\ ((3 * i - 1 - 1) \div 3) + 1 = i /\ ((3 * i - 1 - 1) % 3) + 1 = 2
             /\ ((3 * i - 1) \div 3) + 1 = i /\ ((3 * i - 1) % 3) + 1 = 3
  OBVIOUS
<1> QED
  BY <1>1, <1>2

\* One value and two more.
LEMMA OneAndTwo ==
    ASSUME NEW a, NEW b, NEW c
    PROVE  LET s == <<a>> \o <<b, c>> IN s[1] = a /\ s[2] = b /\ s[3] = c
<1> DEFINE S == {a, b, c}
<1>1. ASSUME NEW x \in Seq(S), NEW y \in Seq(S), Len(x) = 1, Len(y) = 2
      PROVE  (x \o y)[1] = x[1] /\ (x \o y)[2] = y[1] /\ (x \o y)[3] = y[2]
  <2> HIDE DEF S
  <2> DEFINE z == x \o y
  <2>1. \A i \in 1..Len(x) + Len(y) : z[i] = IF i <= Len(x) THEN x[i] ELSE y[i - Len(x)]
    BY ConcatProperties, Zenon
  <2> HIDE DEF z
  <2>2. z[1] = x[1]
    BY <1>1, <2>1
  <2>3. z[2] = y[1]
    BY <1>1, <2>1
  <2>4. z[3] = y[2]
    BY <1>1, <2>1
  <2> QED
    BY <2>2, <2>3, <2>4 DEF z
<1>2. a \in S /\ b \in S /\ c \in S
  OBVIOUS
<1> HIDE DEF S
<1>3. <<a>> \in Seq(S) /\ <<b, c>> \in Seq(S)
  BY <1>2
<1> QED
  BY <1>1, <1>3

\* One value and another.
LEMMA OneAndOne ==
    ASSUME NEW a, NEW t, t = [i \in 1..1 |-> t[i]]
    PROVE  LET s == <<a>> \o t IN Len(s) = 2 /\ s[1] = a /\ s[2] = t[1]
<1> DEFINE S == {a, t[1]}
<1>1. ASSUME NEW x \in Seq(S), NEW y \in Seq(S), Len(x) = 1, Len(y) = 1
      PROVE  Len(x \o y) = 2 /\ (x \o y)[1] = x[1] /\ (x \o y)[2] = y[1]
  <2> HIDE DEF S
  <2> DEFINE z == x \o y
  <2>1. /\ Len(z) = Len(x) + Len(y)
        /\ \A i \in 1..Len(x) + Len(y) : z[i] = IF i <= Len(x) THEN x[i] ELSE y[i - Len(x)]
    BY ConcatProperties, Zenon
  <2> HIDE DEF z
  <2>2. z[1] = x[1]
    BY <1>1, <2>1
  <2>3. z[2] = y[1]
    BY <1>1, <2>1
  <2>4. Len(z) = 2
    BY <1>1, <2>1
  <2> QED
    BY <2>2, <2>3, <2>4 DEF z
<1>2. a \in S /\ t[1] \in S
  OBVIOUS
<1> HIDE DEF S
<1>3. <<a>> \in Seq(S) /\ t \in Seq(S) /\ Len(t) = 1
  BY <1>2
<1> QED
  BY <1>1, <1>3

\* s is an insert of rows rs with three places to a row, the third of them for the
\* data, and its arguments, which fill the places unless the table is single.
IsInsertOf(s, tb, u, rs) ==
    /\ s.op = "insert" /\ s.sql
    /\ Len(s.holes) = Len(rs) * 3 /\ s.holes[3] = "data"
    /\ Len(s.args) \in Nat \ {0}
    /\ tb # "single" =>
          /\ Len(s.args) = Len(rs) * 3
          /\ \A i \in 1..Len(rs) : /\ s.args[3 * i - 2] = <<u>>
                                   /\ s.args[3 * i - 1] = <<rs[i].key>>
                                   /\ s.args[3 * i] = <<rs[i].val>>

\* s is a delete of rows ks: of one row with keys it has its user and its key, of
\* a table without keys its user. Of a single field with keys it need not be SQL.
IsDeleteOf(s, tb, u, ks) ==
    /\ s.op = "delete"
    /\ tb = "repeated" /\ Len(ks) = 1 =>
          Len(s.args) = 2 /\ s.args[1] = <<u>> /\ s.args[2] = <<ks[1]>>
    /\ tb = "keyless" => Len(s.args) = 1 /\ s.args[1] = <<u>>
    /\ tb # "single" => s.sql

\* s is a select of everything: it has its user only.
IsSelectOf(s, u) == s.op = "select" /\ s.sql /\ Len(s.args) = 1 /\ s.args[1] = <<u>>

\* MessageUpdate makes one insert, if there are rows.
LEMMA InsertShape ==
    ASSUME NEW tb \in Kinds, NEW u, NEW rs \in Seq(Row), rs # <<>>
    PROVE  \E s : MessageUpdate(tb, u, rs) = <<s>> /\ IsInsertOf(s, tb, u, rs)
<1> DEFINE n == Len(rs)
           width == IF tb = "single" THEN 2 ELSE 3
           args(row) == IF tb = "repeated" THEN Fields(row) ELSE KeysLeftOut(tb, row)
           H(i) == <<"user">> \o Columns(tb)
           A(i) == <<DBProtoMessageToString(u)>> \o args(rs[i])
           holes == [i \in 1..(n * 3) |-> H(((i - 1) \div 3) + 1)[((i - 1) % 3) + 1]]
           vals == [i \in 1..(n * width) |-> A(((i - 1) \div width) + 1)[((i - 1) % width) + 1]]
           s == Statement("insert", holes, vals, TRUE)
<1>1. n \in Nat \ {0}
  BY EmptySeq
<1>2. MessageUpdate(tb, u, rs) = <<s>>
  BY DEF MessageUpdate, Joined
<1>3. s.op = "insert" /\ s.sql /\ s.holes = holes /\ s.args = vals
  BY DEF Statement
<1>4. Len(holes) = n * 3 /\ Len(vals) = n * width
  <2>1. n * 3 \in Nat /\ n * width \in Nat
    BY <1>1
  <2> HIDE DEF H, A, n, width
  <2> QED
    BY <2>1
<1>5. n * width # 0 /\ n * width \in Nat
  BY <1>1
<1>6. holes[3] = "data"
  <2>1. 3 \in 1..(n * 3) /\ ((3 - 1) % 3) + 1 = 3
    BY <1>1
  <2>2. \A i : H(i)[3] = "data"
    BY DEF Columns
  <2> HIDE DEF H, n
  <2> QED
    BY <2>1, <2>2
<1>7. ASSUME tb # "single", NEW i \in 1..n
      PROVE  vals[3 * i - 2] = <<u>> /\ vals[3 * i - 1] = <<rs[i].key>> /\ vals[3 * i] = <<rs[i].val>>
  <2>1. width = 3
    BY <1>7
  <2>2. \A row : args(row) = <<<<row.key>>, <<row.val>>>>
    BY <1>7 DEF Kinds, Fields, KeysLeftOut, Columns, IsDBKey, DBProtoMessageToString
  <2>3. A(i)[1] = <<u>> /\ A(i)[2] = <<rs[i].key>> /\ A(i)[3] = <<rs[i].val>>
    <3>1. A(i) = <<<<u>>>> \o args(rs[i])
      BY DEF DBProtoMessageToString
    <3>2. args(rs[i]) = <<<<rs[i].key>>, <<rs[i].val>>>>
      BY <2>2
    <3> HIDE DEF A, args
    <3>3. A(i) = <<<<u>>>> \o <<<<rs[i].key>>, <<rs[i].val>>>>
      BY <3>1, <3>2
    <3> QED
      BY <3>3, OneAndTwo
  <2> HIDE DEF A, n, width
  <2>4. \A j \in 1..(n * 3) : vals[j] = A(((j - 1) \div 3) + 1)[((j - 1) % 3) + 1]
    BY <2>1
  <2> HIDE DEF vals
  <2>5. n \in Nat /\ i \in 1..n
    BY <1>1 DEF n
  <2>6. /\ vals[3 * i - 2] = A(((3 * i - 2 - 1) \div 3) + 1)[((3 * i - 2 - 1) % 3) + 1]
        /\ vals[3 * i - 1] = A(((3 * i - 1 - 1) \div 3) + 1)[((3 * i - 1 - 1) % 3) + 1]
        /\ vals[3 * i] = A(((3 * i - 1) \div 3) + 1)[((3 * i - 1) % 3) + 1]
    BY <2>4, <2>5, Thirds, ZenonT(60)
  <2>7. vals[3 * i - 2] = A(i)[1] /\ vals[3 * i - 1] = A(i)[2] /\ vals[3 * i] = A(i)[3]
    BY <2>5, <2>6, Thirds, ZenonT(60)
  <2> QED
    BY <2>3, <2>7
<1> HIDE DEF s, holes, vals
<1>8. IsInsertOf(s, tb, u, rs)
  BY <1>1, <1>3, <1>4, <1>5, <1>6, <1>7 DEF IsInsertOf
<1> QED
  BY <1>2, <1>8

\* The condition on the user.
LEMMA ConditionOfUser ==
    ASSUME NEW u
    PROVE  OfUser(u) = [holes |-> <<"user">>, args |-> <<<<u>>>>, ands |-> <<FALSE>>]
<1>1. \A x : Append(<<>>, x) = <<x>>
  OBVIOUS
<1>2. NoCondition = [holes |-> <<>>, args |-> <<>>, ands |-> <<>>]
  BY DEF NoCondition
<1>3. OfUser(u) = [holes |-> Append(<<>>, "user"), args |-> Append(<<>>, <<u>>),
                   ands |-> Append(<<>>, <<>> # <<>>)]
  BY <1>2 DEF OfUser, AddQueryItemCondition, DBProtoMessageToString
<1>4. (<<>> # <<>>) = FALSE
  OBVIOUS
<1> QED
  BY <1>1, <1>3, <1>4, Zenon

\* MessageDelete makes one delete, if there are rows.
LEMMA DeleteShape ==
    ASSUME NEW tb \in Kinds, NEW u, NEW ks \in Seq(Keys), ks # <<>>
    PROVE  \E s : MessageDelete(tb, u, ks) = <<s>> /\ IsDeleteOf(s, tb, u, ks)
<1> DEFINE n == Len(ks)
           own == OfUser(u)
           q == IF tb = "repeated" THEN NoCondition ELSE own
           c == [i \in 1..n |-> AddQueryMessageCondition(q, tb, ks[i])]
           keys == [i \in 1..(n * 1) |-> c[((i - 1) \div 1) + 1].args[((i - 1) % 1) + 1]]
           s == IF tb = "repeated"
                THEN Statement("delete", own.holes \o Joined(n, 1, LAMBDA i : c[i].holes),
                               own.args \o keys, TRUE)
                ELSE Statement("delete", c[1].holes, c[1].args, TRUE \notin Range(c[1].ands))
<1>1. n \in Nat \ {0} /\ 1 \in 1..n
  BY EmptySeq
<1>2. MessageDelete(tb, u, ks) = <<s>>
  <2>1. CASE tb = "repeated"
    BY <2>1, Zenon DEF MessageDelete, Joined
  <2>2. CASE tb # "repeated"
    <3>1. s = Statement("delete", c[1].holes, c[1].args, TRUE \notin Range(c[1].ands))
      BY <2>2
    <3>2. MessageDelete(tb, u, ks) =
              <<Statement("delete", c[1].holes, c[1].args, TRUE \notin Range(c[1].ands))>>
      BY <2>2 DEF MessageDelete, Joined
    <3> HIDE DEF s
    <3> QED
      BY <3>1, <3>2
  <2> QED
    BY <2>1, <2>2
<1>3. s.op = "delete"
  BY DEF Statement
<1>4. own = [holes |-> <<"user">>, args |-> <<<<u>>>>, ands |-> <<FALSE>>]
  BY ConditionOfUser
<1>5. c[1] = AddQueryMessageCondition(q, tb, ks[1])
  BY <1>1
<1>6. ASSUME tb = "repeated", n = 1
      PROVE  Len(s.args) = 2 /\ s.args[1] = <<u>> /\ s.args[2] = <<ks[1]>>
  <2>1. c[1].args = <<<<ks[1]>>>>
    BY <1>5, <1>6
    DEF AddQueryMessageCondition, AddQueryItemCondition, IsDBKey, Columns, NoCondition, DBProtoMessageToString
  <2>2. s.args = <<<<u>>>> \o keys
    BY <1>4, <1>6 DEF Statement
  <2>3. keys = [i \in 1..1 |-> keys[i]] /\ keys[1] = c[1].args[1]
    BY <1>6
  <2> HIDE DEF keys, s, c
  <2> QED
    BY <2>1, <2>2, <2>3, OneAndOne
<1>7. ASSUME tb # "single" PROVE s.sql
  <2>1. CASE tb = "repeated"
    BY <2>1 DEF Statement
  <2>2. CASE tb = "keyless"
    <3>1. c[1] = own
      BY <1>5, <2>2 DEF AddQueryMessageCondition, IsDBKey, Columns
    <3>2. DOMAIN <<FALSE>> = {1} /\ <<FALSE>>[1] = FALSE
      OBVIOUS
    <3>3. TRUE \notin Range(c[1].ands)
      <4>1. own.ands = <<FALSE>>
        <5> HIDE DEF own
        <5> QED
          BY <1>4
      <4>2. \A f : f = <<FALSE>> => TRUE \notin Range(f)
        BY <3>2, Zenon DEF Range
      <4> HIDE DEF own, c
      <4> QED
        BY <3>1, <4>1, <4>2, Zenon
    <3>4. s.sql = (TRUE \notin Range(c[1].ands))
      BY <2>2, Zenon DEF Statement
    <3> QED
      BY <3>3, <3>4
  <2> QED
    BY <1>7, <2>1, <2>2 DEF Kinds
<1>8. ASSUME tb = "keyless" PROVE Len(s.args) = 1 /\ s.args[1] = <<u>>
  <2>1. c[1] = own
    BY <1>5, <1>8 DEF AddQueryMessageCondition, IsDBKey, Columns
  <2>2. s = Statement("delete", c[1].holes, c[1].args, TRUE \notin Range(c[1].ands))
    BY <1>8
  <2>3. s.args = c[1].args
    BY <2>2, Zenon DEF Statement
  <2>4. s.args = <<<<u>>>>
    <3> HIDE DEF s, c, own
    <3> QED
      BY <1>4, <2>1, <2>3
  <2> HIDE DEF s
  <2> QED
    BY <2>4
<1> HIDE DEF s
<1>9. IsDeleteOf(s, tb, u, ks)
  BY <1>3, <1>6, <1>7, <1>8 DEF IsDeleteOf
<1> QED
  BY <1>2, <1>9

\* MessageLoad, without rows asked for, selects everything.
LEMMA SelectShape ==
    ASSUME NEW tb, NEW u
    PROVE  IsSelectOf(MessageLoad(tb, u, <<>>), u)
<1> DEFINE s == MessageLoad(tb, u, <<>>)
           none == [i \in 1..0 |-> DBProtoMessageToString((<<>>)[i])]
<1>1. OfUser(u).args = <<<<u>>>>
  BY ConditionOfUser
<1>2. s.op = "select" /\ s.sql /\ s.args = <<<<u>>>> \o none
  BY <1>1, EmptySeq DEF MessageLoad, Statement
<1>3. none = <<>>
  OBVIOUS
<1> HIDE DEF s, none
<1>4. s.args = <<<<u>>>>
  BY <1>2, <1>3
<1> QED
  BY <1>2, <1>4 DEF s, IsSelectOf

\* A sequence of at most one statement has no other than its own.
LEMMA AtMostOne ==
    ASSUME NEW t, t = <<>> \/ \E s : t = <<s>>
    PROVE  t \in Seq(Range(t)) /\ (t = <<>> => Range(t) = {}) /\ \A s : t = <<s>> => Range(t) = {s}
<1>1. CASE t = <<>>
  <2>1. Range(<<>>) = {}
    BY DEF Range
  <2> QED
    BY <1>1, <2>1, EmptySeq
<1>2. ASSUME NEW s, t = <<s>>
      PROVE  t \in Seq(Range(t)) /\ Range(t) = {s}
  <2>1. Range(<<s>>) = {s}
    BY DEF Range
  <2>2. <<s>> \in Seq({s})
    OBVIOUS
  <2> QED
    BY <1>2, <2>1, <2>2
<1>3. \A s : <<s>> # <<>>
  OBVIOUS
<1> QED
  BY <1>1, <1>2, <1>3

\* A save has at most one insert and one delete.
LEMMA StatementsOfRequest ==
    ASSUME NEW tb \in Kinds, NEW u, NEW rs \in Seq(Row), NEW ks \in Seq(Keys)
    PROVE  /\ MessageUpdate(tb, u, rs) \in Seq(Range(MessageUpdate(tb, u, rs)))
           /\ MessageDelete(tb, u, ks) \in Seq(Range(MessageDelete(tb, u, ks)))
           /\ rs = <<>> => Range(MessageUpdate(tb, u, rs)) = {}
           /\ ks = <<>> => Range(MessageDelete(tb, u, ks)) = {}
           /\ \A s : MessageUpdate(tb, u, rs) = <<s>> => Range(MessageUpdate(tb, u, rs)) = {s}
           /\ \A s : MessageDelete(tb, u, ks) = <<s>> => Range(MessageDelete(tb, u, ks)) = {s}
<1>1. rs = <<>> => MessageUpdate(tb, u, rs) = <<>>
  BY DEF MessageUpdate, Joined
<1>2. ks = <<>> => MessageDelete(tb, u, ks) = <<>>
  BY DEF MessageDelete, Joined
<1>3. rs # <<>> => \E s : MessageUpdate(tb, u, rs) = <<s>>
  BY InsertShape
<1>4. ks # <<>> => \E s : MessageDelete(tb, u, ks) = <<s>>
  BY DeleteShape
<1>5. \A t : t = <<>> \/ (\E s : t = <<s>>) =>
          /\ t \in Seq(Range(t)) /\ (t = <<>> => Range(t) = {})
          /\ \A s : t = <<s>> => Range(t) = {s}
  BY AtMostOne
<1> DEFINE upd == MessageUpdate(tb, u, rs)
           del == MessageDelete(tb, u, ks)
<1>6. /\ upd = <<>> \/ \E s : upd = <<s>>
      /\ del = <<>> \/ \E s : del = <<s>>
  BY <1>1, <1>2, <1>3, <1>4
<1>7. (rs = <<>> => upd = <<>>) /\ (ks = <<>> => del = <<>>)
  BY <1>1, <1>2
<1> HIDE DEF upd, del
<1>8. /\ upd \in Seq(Range(upd)) /\ (upd = <<>> => Range(upd) = {})
      /\ \A s : upd = <<s>> => Range(upd) = {s}
  BY <1>5, <1>6
<1>9. /\ del \in Seq(Range(del)) /\ (del = <<>> => Range(del) = {})
      /\ \A s : del = <<s>> => Range(del) = {s}
  BY <1>5, <1>6
<1> QED
  BY <1>7, <1>8, <1>9 DEF upd, del

\* A statement that is due is the insert, the delete or the select of the
\* request under way.
LEMMA DueShape ==
    ASSUME TypeOK, NEW s \in Due
    PROVE  /\ request.update \in Seq(Row) /\ request.delete \in Seq(Keys)
           /\ \/ request.update # <<>> /\ IsInsertOf(s, table, who, request.update)
              \/ IsDeleteOf(s, table, who, request.delete)
              \/ IsSelectOf(s, who)
<1> DEFINE update == request.update
           delete == request.delete
           upd == MessageUpdate(table, who, update)
           del == MessageDelete(table, who, delete)
<1>1. table \in Kinds /\ update \in Seq(Row) /\ delete \in Seq(Keys)
  BY RequestType DEF TypeOK
<1>2. s \in Range(upd) \/ s \in Range(del) \/ s = MessageLoad(table, who, <<>>)
  BY DEF Due
<1> HIDE DEF update, delete
<1>3. CASE s \in Range(upd)
  <2>1. update # <<>>
    BY <1>1, <1>3, StatementsOfRequest
  <2>2. PICK t : upd = <<t>> /\ IsInsertOf(t, table, who, update)
    BY <1>1, <2>1, InsertShape
  <2>3. s = t
    <3>1. Range(upd) = {t}
      BY <1>1, <2>2, StatementsOfRequest
    <3> QED
      BY <1>3, <3>1
  <2> QED
    BY <1>1, <2>1, <2>2, <2>3 DEF update, delete
<1>4. CASE s \in Range(del)
  <2>1. delete # <<>>
    BY <1>1, <1>4, StatementsOfRequest
  <2>2. PICK t : del = <<t>> /\ IsDeleteOf(t, table, who, delete)
    BY <1>1, <2>1, DeleteShape
  <2>3. s = t
    <3>1. Range(del) = {t}
      BY <1>1, <2>2, StatementsOfRequest
    <3> QED
      BY <1>4, <3>1
  <2> QED
    BY <1>1, <2>2, <2>3 DEF update, delete
<1>5. CASE s = MessageLoad(table, who, <<>>)
  BY <1>1, <1>5, SelectShape DEF update, delete
<1> QED
  BY <1>2, <1>3, <1>4, <1>5

\* No insert is accepted: its placeholder of the data is left in, without quotes.
LEMMA InsertRefused ==
    ASSUME TypeOK, NEW s \in Due, s.op = "insert"
    PROVE  ~Acceptable(s)
<1> DEFINE n == Len(request.update)
<1>1. /\ Len(s.holes) = n * 3 /\ n \in Nat \ {0} /\ s.holes[3] = "data"
      /\ Len(s.args) \in Nat \ {0}
  <2>1. request.update \in Seq(Row) /\ request.update # <<>> /\ IsInsertOf(s, table, who, request.update)
    BY DueShape DEF IsDeleteOf, IsSelectOf
  <2> QED
    BY <2>1, EmptySeq DEF IsInsertOf
<1>2. s.args # <<>>
  BY <1>1, EmptySeq
<1>3. 3 \in 1..Len(s.holes) /\ Len(s.holes) \in Nat
  BY <1>1
<1> DEFINE v == QueryStringReplace(s)
<1>4. v = [i \in 1..Len(s.holes) |-> Unfilled]
  BY <1>2 DEF QueryStringReplace
<1> HIDE DEF n, v
<1>5. 3 \in 1..Len(v) /\ v[3] = Unfilled
  BY <1>3, <1>4
<1>6. ~Quoted(s.holes[3])
  BY <1>1 DEF Quoted
<1> QED
  BY <1>5, <1>6 DEF Acceptable, v
-----------------------------------------------------------------------------
(* The steps over MySQL                                                    *)

\* What the steps over MySQL leave alone of the store keeps its invariants.
LEMMA MysqlFrame ==
    ASSUME IInv, backend = "mysql",
           UNCHANGED <<table, store, pending, deleting, may, alone, backend>>
    PROVE  RowsInv' /\ RequestInv' /\ UpdateInv' /\ DeleteInv' /\ AnswerInv'
<1>1. RowsInv'
  BY SameTableSameKeys DEF IInv, RowsInv, Listed, PaserList, Index, SerializeAsString, Missing
<1>2. RequestInv' /\ UpdateInv' /\ DeleteInv' /\ AnswerInv'
  BY DEF RequestInv, UpdateInv, DeleteInv, AnswerInv, Saving
<1> QED
  BY <1>1, <1>2

\* A save replaces the request and makes its statements.
LEMMA MysqlSaveIInv ==
    ASSUME IInv, NEW u \in Users, NEW r \in Requests, MysqlSave(u, r)
    PROVE  IInv'
<1>1. /\ backend = "mysql" /\ request' = r /\ who' = u /\ answer' = NoAnswer
      /\ sql' = MessageUpdate(table, u, r.update) \o MessageDelete(table, u, r.delete)
      /\ UNCHANGED <<table, store, pending, deleting, may, alone, backend, link, rows>>
  BY DEF MysqlSave, DBLoopExec
<1>2. TypeOK /\ BackendInv /\ NothingInMysql
  BY DEF IInv
<1>3. TypeOK'
  BY <1>1, <1>2 DEF TypeOK, StoreKeys, Stored
<1>4. BackendInv' /\ NothingInMysql'
  BY <1>1, <1>2 DEF BackendInv, NothingInMysql
<1>5. SqlInv'
  <2> DEFINE upd == MessageUpdate(table, u, r.update)
             del == MessageDelete(table, u, r.delete)
  <2>1. upd \in Seq(Range(upd)) /\ del \in Seq(Range(del))
    <3>1. table \in Kinds /\ r.update \in Seq(Row) /\ r.delete \in Seq(Keys)
      BY <1>2, RequestType DEF TypeOK
    <3> QED
      BY <3>1, StatementsOfRequest
  <2>2. sql' = upd \o del
    BY <1>1
  <2>3. Due' = Range(upd) \cup Range(del) \cup {MessageLoad(table, u, <<>>)}
    BY <1>1, Zenon DEF Due
  <2> DEFINE all == Range(upd) \cup Range(del) \cup {MessageLoad(table, u, <<>>)}
  <2> HIDE DEF upd, del
  <2>4. upd \in Seq(all) /\ del \in Seq(all)
    BY <2>1
  <2> HIDE DEF all
  <2>5. upd \o del \in Seq(all)
    BY <2>4, ConcatProperties, Zenon
  <2> QED
    BY <2>2, <2>3, <2>5 DEF SqlInv, all
<1> QED
  BY <1>1, <1>3, <1>4, <1>5, MysqlFrame DEF IInv

\* A query makes its select.
LEMMA MysqlLoadIInv ==
    ASSUME IInv, NEW u \in Users, MysqlLoad(u)
    PROVE  IInv'
<1>1. /\ backend = "mysql" /\ who' = u
      /\ sql' = <<MessageLoad(table, u, <<>>)>>
      /\ UNCHANGED <<vars, backend, link, rows>>
  BY DEF MysqlLoad, DBLoopExec
<1>2. UNCHANGED <<table, store, request, pending, deleting, answer, may, alone, backend>>
  BY <1>1 DEF vars
<1>3. TypeOK /\ BackendInv /\ NothingInMysql
  BY DEF IInv
<1>4. TypeOK'
  BY <1>2, <1>3 DEF TypeOK, StoreKeys, Stored
<1>5. BackendInv' /\ NothingInMysql'
  BY <1>1, <1>2, <1>3 DEF BackendInv, NothingInMysql
<1>6. SqlInv'
  <2>1. MessageLoad(table, u, <<>>) \in Due'
    BY <1>1, <1>2 DEF Due
  <2> QED
    BY <1>1, <2>1 DEF SqlInv
<1> QED
  BY <1>1, <1>2, <1>4, <1>5, <1>6, MysqlFrame DEF IInv

\* What a statement leaves: a step of one does no more than to take it away, to
\* answer with nothing, and to keep the table empty.
LEMMA StatementIInv ==
    ASSUME IInv, sql # <<>>, sql' = Tail(sql), answer' \in {answer, {}}, rows' = {},
           UNCHANGED <<table, store, request, pending, deleting, may, alone, backend, who, link>>
    PROVE  IInv'
<1>1. TypeOK /\ BackendInv /\ NothingInMysql /\ SqlInv
  BY DEF IInv
<1>2. backend = "mysql"
  BY <1>1 DEF BackendInv
<1>3. TypeOK'
  BY <1>1 DEF TypeOK, StoreKeys, Stored
<1>4. BackendInv' /\ NothingInMysql'
  BY <1>1, <1>2 DEF BackendInv, NothingInMysql
<1>5. SqlInv'
  <2>1. Due' = Due
    BY Zenon DEF Due
  <2>2. Tail(sql) \in Seq(Due)
    BY <1>1 DEF SqlInv
  <2> QED
    BY <2>1, <2>2 DEF SqlInv
<1> QED
  BY <1>2, <1>3, <1>4, <1>5, MysqlFrame DEF IInv

\* The first statement is due.
LEMMA FirstIsDue ==
    ASSUME IInv, sql # <<>>
    PROVE  backend = "mysql" /\ TypeOK /\ rows = {} /\ Head(sql) \in Due
  BY DEF IInv, BackendInv, NothingInMysql, SqlInv

\* Of what modifies the table only a delete is executed, and there is nothing to
\* delete.
LEMMA MysqlModifiesIInv ==
    ASSUME IInv, MysqlModifies
    PROVE  IInv'
<1> DEFINE s == Head(sql)
<1>1. /\ sql # <<>> /\ s.op # "select" /\ Acceptable(s)
      /\ rows' = Modified(rows, s, QueryStringReplace(s))
      /\ sql' = Tail(sql)
      /\ UNCHANGED <<vars, backend, who, link>>
  BY DEF MysqlModifies
<1>2. TypeOK /\ rows = {} /\ s \in Due
  BY <1>1, FirstIsDue
<1>3. s.op # "insert"
  BY <1>1, <1>2, InsertRefused
<1>4. rows' = {}
  BY <1>1, <1>2, <1>3 DEF Modified
<1> QED
  BY <1>1, <1>4, StatementIInv DEF vars

\* A select finds nothing.
LEMMA MysqlSelectsIInv ==
    ASSUME IInv, MysqlSelects
    PROVE  IInv'
<1> DEFINE s == Head(sql)
           v == QueryStringReplace(s)
<1>1. /\ sql # <<>> /\ answer' \in Found(s, v) /\ sql' = Tail(sql)
      /\ UNCHANGED <<table, store, request, pending, deleting, may, alone, backend, who, link, rows>>
  BY DEF MysqlSelects
<1>2. rows = {}
  BY <1>1, FirstIsDue
<1>3. answer' = {}
  <2>1. {r \in {q \in rows : Matches(s, v, q.user, q.key)} : TRUE} = {}
    BY <1>2
  <2> QED
    BY <1>1, <1>2 DEF Found
<1> QED
  BY <1>1, <1>2, <1>3, StatementIInv

\* What is refused changes nothing, and of a select the answer is empty.
LEMMA MysqlRefusesIInv ==
    ASSUME IInv, MysqlRefuses
    PROVE  IInv'
<1>1. /\ sql # <<>> /\ answer' \in {answer, {}} /\ sql' = Tail(sql)
      /\ UNCHANGED <<table, store, request, pending, deleting, may, alone, backend, who, link, rows>>
  BY DEF MysqlRefuses
<1>2. rows = {}
  BY <1>1, FirstIsDue
<1> QED
  BY <1>1, <1>2, StatementIInv

\* The answer to a save ends its request.
LEMMA MysqlAnswersIInv ==
    ASSUME IInv, MysqlAnswers
    PROVE  IInv'
<1>1. /\ backend = "mysql" /\ sql = <<>> /\ request' = NoRequest
      /\ UNCHANGED <<table, store, pending, deleting, answer, may, alone, backend, who, link, sql, rows>>
  BY DEF MysqlAnswers
<1>2. TypeOK /\ BackendInv /\ NothingInMysql
  BY DEF IInv
<1>3. TypeOK'
  BY <1>1, <1>2 DEF TypeOK, StoreKeys, Stored
<1>4. BackendInv' /\ NothingInMysql' /\ SqlInv'
  BY <1>1, <1>2, EmptySeq DEF BackendInv, NothingInMysql, SqlInv
<1> QED
  BY <1>1, <1>3, <1>4, MysqlFrame DEF IInv

\* Nothing changes.
LEMMA DbStutterIInv ==
    ASSUME IInv, UNCHANGED dbVars
    PROVE  IInv'
<1>1. UNCHANGED <<table, store, request, pending, deleting, answer, may, alone,
                  backend, who, link, sql, rows>>
  BY DEF dbVars, vars, mysqlVars
<1>2. TypeOK' /\ BackendInv' /\ NothingInMysql'
  BY <1>1 DEF IInv, TypeOK, StoreKeys, Stored, BackendInv, NothingInMysql
<1>3. SqlInv'
  <2>1. Due' = Due
    BY <1>1, Zenon DEF Due
  <2> QED
    BY <1>1, <2>1 DEF IInv, SqlInv
<1>4. RowsInv'
  BY <1>1, SameTableSameKeys DEF IInv, RowsInv, Listed, PaserList, Index, SerializeAsString, Missing
<1>5. RequestInv'
  BY <1>1 DEF IInv, RequestInv, Saving
<1>6. AnswerInv'
  <2>1. MessageLoadOnKV(store, {})' = MessageLoadOnKV(store, {})
    BY <1>1, SameAnswers
  <2> QED
    BY <1>1, <2>1 DEF IInv, AnswerInv
<1>7. UpdateInv'
  <2>1. MessageUpdateOnKV(store, request.update)' = MessageUpdateOnKV(store, request.update)
    BY <1>1, SameTableSameWrites
  <2>2. (\A k : ElementKey(k)' = ElementKey(k)) /\ Saving' = Saving
    BY <1>1, SameTableSameKeys DEF Saving
  <2> QED
    BY <1>1, <2>1, <2>2
    DEF IInv, UpdateInv, IsRestOf, Done, Made, Listed, PaserList, Index, Missing, SerializeAsString
<1>8. DeleteInv'
  <2>1. MessageDeleteOnKV(store, request.delete)' = MessageDeleteOnKV(store, request.delete)
    BY <1>1, SameTableSameWrites
  <2>2. (\A k : ElementKey(k)' = ElementKey(k)) /\ Saving' = Saving
    BY <1>1, SameTableSameKeys DEF Saving
  <2> QED
    BY <1>1, <2>1, <2>2
    DEF IInv, DeleteInv, IsRestOf, Done, Made, Listed, PaserList, Index, Missing
<1> QED
  BY <1>2, <1>3, <1>4, <1>5, <1>6, <1>7, <1>8 DEF IInv

\* Every step keeps the invariant.
LEMMA NextIInv ==
    ASSUME IInv, [DbNext]_dbVars
    PROVE  IInv'
<1>1. CASE DbNext
  <2>1. CASE RocksDb
    BY <2>1, RocksDbIInv
  <2>2. CASE \E u \in Users, r \in Requests : MysqlSave(u, r)
    BY <2>2, MysqlSaveIInv
  <2>3. CASE \E u \in Users : MysqlLoad(u)
    BY <2>3, MysqlLoadIInv
  <2>4. CASE MysqlModifies
    BY <2>4, MysqlModifiesIInv
  <2>5. CASE MysqlSelects
    BY <2>5, MysqlSelectsIInv
  <2>6. CASE MysqlRefuses
    BY <2>6, MysqlRefusesIInv
  <2>7. CASE MysqlAnswers
    BY <2>7, MysqlAnswersIInv
  <2>8. CASE MysqlDrops
    BY <2>8, DbStutterIInv DEF MysqlDrops
  <2> QED
    BY <1>1, <2>1, <2>2, <2>3, <2>4, <2>5, <2>6, <2>7, <2>8 DEF DbNext
<1>2. CASE UNCHANGED dbVars
  BY <1>2, DbStutterIInv
<1> QED
  BY <1>1, <1>2

\* IInv is an invariant of the database server.
THEOREM Inductive == DbSpec => []IInv
<1>1. DbInit => IInv
  BY InitIInv
<1>2. IInv /\ [DbNext]_dbVars => IInv'
  BY NextIInv
<1> QED
  BY <1>1, <1>2, PTL DEF DbSpec
-----------------------------------------------------------------------------
(* What follows                                                            *)

\* All that a query can find in the store.
Listing == {<<key, ParseFromString(store[key])>> : key \in PaserList(store[Index])}

\* An answer over RocksDB is taken from the listing, and is all of it or, of a
\* single field, one row of it if there is any.
LEMMA AnswerShape ==
    ASSUME IInv, answer # NoAnswer, backend = "rocksdb"
    PROVE  /\ answer \subseteq Listing
           /\ table = "repeated" => answer = Listing
           /\ Listing # {} => answer # {}
<1>1. answer \in MessageLoadOnKV(store, {})
  BY DEF IInv, AnswerInv
<1>2. MessageLoadOnKV(store, {}) =
          IF table = "repeated" \/ Listing = {} THEN {Listing} ELSE {{r} : r \in Listing}
  BY DEF MessageLoadOnKV, Listing
<1> HIDE DEF Listing
<1>3. CASE table = "repeated" \/ Listing = {}
  <2>1. answer = Listing
    BY <1>1, <1>2, <1>3
  <2> QED
    BY <2>1
<1>4. CASE ~(table = "repeated" \/ Listing = {})
  <2>1. PICK r \in Listing : answer = {r}
    BY <1>1, <1>2, <1>4
  <2> QED
    BY <1>4, <2>1
<1> QED
  BY <1>3, <1>4

\* An answer over MySQL is empty.
LEMMA MysqlAnswerIsEmpty ==
    ASSUME IInv, answer # NoAnswer
    PROVE  backend \in {"rocksdb", "mysql"} /\ (backend = "mysql" => answer = {})
  BY DEF IInv, BackendInv, NothingInMysql

\* Every variable of the store keeps its type.
THEOREM TypeCorrect == DbSpec => []TypeOK
<1>1. IInv => TypeOK
  BY DEF IInv
<1> QED
  BY <1>1, Inductive, PTL

\* A query over either store never returns of a row with a key anything but what
\* the last completed save has left, or what one cut by a crash was writing
\* (MessageUpdateOnKV, MessageDeleteOnKV and MessageLoadOnKV).
THEOREM LoadsAreFaithful == DbSpec => []LoadIsFaithful
<1>1. ASSUME IInv, answer # NoAnswer, table # "keyless", NEW k \in Keys
      PROVE  Loaded(k) \subseteq may[k]
  <2>1. CASE answer = {}
    BY <2>1 DEF Loaded
  <2>2. CASE backend = "rocksdb"
    <3> SUFFICES ASSUME NEW r \in answer, r[1] = ElementKey(k)
                 PROVE  r[2] \in may[k]
      BY DEF Loaded
    <3>1. PICK key \in PaserList(store[Index]) : r = <<key, ParseFromString(store[key])>>
      BY <1>1, <2>2, AnswerShape DEF Listing
    <3>2. key = ElementKey(k) /\ r[2] = ParseFromString(store[key])
      BY <3>1
    <3>3. Listed(k)
      BY <3>2 DEF Listed
    <3>4. /\ store[key] \in {Missing} \cup {SerializeAsString(v) : v \in may[k]}
          /\ store[key] = Missing => Default \in may[k]
      BY <1>1, <3>2, <3>3 DEF IInv, RowsInv
    <3>5. CASE store[key] = Missing
      <4>1. ParseFromString(Missing) = Default
        BY DEF ParseFromString, Missing
      <4> QED
        BY <3>2, <3>4, <3>5, <4>1
    <3>6. ASSUME NEW v \in may[k], store[key] = SerializeAsString(v)
          PROVE  r[2] \in may[k]
      <4>1. ParseFromString(SerializeAsString(v)) = v
        BY DEF ParseFromString, SerializeAsString
      <4> QED
        BY <3>2, <3>6, <4>1
    <3> QED
      BY <3>4, <3>5, <3>6
  <2> QED
    BY <1>1, <2>1, <2>2, MysqlAnswerIsEmpty
<1>2. IInv => LoadIsFaithful
  BY <1>1 DEF LoadIsFaithful
<1> QED
  BY <1>2, Inductive, PTL

\* A row that was saved alone is found until it is deleted, whatever saves and
\* crashes come between (the index of MessageUpdateOnKV never loses it).
THEOREM AloneIsFound == DbSpec => []SavedAloneIsLoaded
<1>1. ASSUME IInv, answer # NoAnswer, table # "keyless", NEW k \in alone
      PROVE  backend = "rocksdb" /\ <<ElementKey(k), ParseFromString(store[ElementKey(k)])>> \in Listing
  <2>1. backend = "rocksdb"
    BY <1>1 DEF IInv, BackendInv
  <2>2. Listed(k)
    BY <1>1 DEF IInv, RowsInv
  <2> QED
    BY <2>1, <2>2 DEF Listed, Listing
<1>2. ASSUME IInv, answer # NoAnswer, table = "repeated", NEW k \in alone
      PROVE  Loaded(k) # {}
  <2> DEFINE r == <<ElementKey(k), ParseFromString(store[ElementKey(k)])>>
  <2>1. r \in answer
    BY <1>1, <1>2, AnswerShape
  <2>2. r[1] = ElementKey(k)
    OBVIOUS
  <2> HIDE DEF r
  <2>3. r[2] \in Loaded(k)
    BY <2>1, <2>2 DEF Loaded
  <2> QED
    BY <2>3
<1>3. ASSUME IInv, answer # NoAnswer, table = "single", NEW k \in alone
      PROVE  answer # {}
  BY <1>1, <1>3, AnswerShape
<1>4. IInv => SavedAloneIsLoaded
  <2> SUFFICES ASSUME IInv, answer # NoAnswer
               PROVE  /\ table = "repeated" => \A k \in alone : Loaded(k) # {}
                      /\ table = "single" /\ alone # {} => answer # {}
    BY DEF SavedAloneIsLoaded
  <2>1. table = "repeated" => \A k \in alone : Loaded(k) # {}
    BY <1>2
  <2>2. table = "single" /\ alone # {} => answer # {}
    BY <1>3
  <2> QED
    BY <2>1, <2>2
<1> QED
  BY <1>4, Inductive, PTL

\* With its arguments in their places every statement of MessageUpdate,
\* MessageDelete and MessageLoad means what the request says, for any number of
\* rows of an insert; see StatementsMeanIt for the three that are excepted.
THEOREM StatementsAreMeant == DbSpec => []StatementsMeanIt
<1>1. ASSUME IInv, NEW i \in 1..Len(sql)
      PROVE  TypeOK /\ sql[i] \in Due
  BY <1>1 DEF IInv, SqlInv
<1>2. ASSUME TypeOK, NEW s \in Due, s.op = "insert", table # "single"
      PROVE  /\ s.sql
             /\ Len(s.holes) = Len(s.args)
             /\ Inserted(s.args) =
                   {[user |-> DBProtoMessageToString(who),
                     key  |-> DBProtoMessageToString(request.update[j].key),
                     val  |-> DBProtoMessageToString(request.update[j].val)] :
                       j \in 1..Len(request.update)}
  <2> DEFINE v == s.args
             n == Len(request.update)
  <2>1. /\ s.sql
        /\ Len(s.holes) = n * 3 /\ n \in Nat
        /\ Len(v) = n * 3
        /\ \A j \in 1..n : /\ v[3 * j - 2] = <<who>>
                            /\ v[3 * j - 1] = <<request.update[j].key>>
                            /\ v[3 * j] = <<request.update[j].val>>
    <3>1. request.update \in Seq(Row) /\ IsInsertOf(s, table, who, request.update)
      BY <1>2, DueShape DEF IsDeleteOf, IsSelectOf
    <3>2. n \in Nat
      BY <3>1
    <3>3. /\ s.sql
          /\ Len(s.holes) = n * 3 /\ Len(v) = n * 3
          /\ \A j \in 1..n : /\ v[3 * j - 2] = <<who>>
                              /\ v[3 * j - 1] = <<request.update[j].key>>
                              /\ v[3 * j] = <<request.update[j].val>>
      BY <1>2, <3>1, Zenon DEF IsInsertOf
    <3> QED
      BY <3>2, <3>3
  <2>2. Len(v) \div 3 = n
    BY <2>1, Thirds
  <2> HIDE DEF v, n
  <2>3. Inserted(v) = {[user |-> v[3 * j - 2], key |-> v[3 * j - 1], val |-> v[3 * j]] : j \in 1..n}
    BY <2>2 DEF Inserted
  <2>4. \A j \in 1..n : [user |-> v[3 * j - 2], key |-> v[3 * j - 1], val |-> v[3 * j]] =
           [user |-> <<who>>, key |-> <<request.update[j].key>>, val |-> <<request.update[j].val>>]
    BY <2>1
  <2>5. Inserted(v) = {[user |-> <<who>>, key |-> <<request.update[j].key>>,
                        val |-> <<request.update[j].val>>] : j \in 1..n}
    <3> DEFINE F(j) == [user |-> v[3 * j - 2], key |-> v[3 * j - 1], val |-> v[3 * j]]
               G(j) == [user |-> <<who>>, key |-> <<request.update[j].key>>,
                        val |-> <<request.update[j].val>>]
    <3>1. \A j \in 1..n : F(j) = G(j)
      BY <2>4
    <3>2. Inserted(v) = {F(j) : j \in 1..n}
      BY <2>3
    <3> HIDE DEF F, G
    <3>3. Inserted(v) = {G(j) : j \in 1..n}
      BY <3>1, <3>2
    <3> QED
      BY <3>3 DEF G
  <2> QED
    BY <2>1, <2>5 DEF DBProtoMessageToString, v, n
<1>3. ASSUME TypeOK, NEW s \in Due, s.op = "delete", table # "single", Len(request.delete) = 1
      PROVE  /\ s.sql
             /\ \A u \in Users, k \in Keys :
                    Matches(s, s.args, DBProtoMessageToString(u), DBProtoMessageToString(k)) <=>
                        u = who /\ (table = "keyless" \/ k = request.delete[1])
  <2> DEFINE v == s.args
  <2>0. IsDeleteOf(s, table, who, request.delete)
    BY <1>3, DueShape DEF IsInsertOf, IsSelectOf
  <2>1. table \in {"repeated", "keyless"}
    BY <1>3 DEF TypeOK, Kinds
  <2>. SUFFICES ASSUME NEW u \in Users, NEW k \in Keys
                PROVE  Matches(s, s.args, DBProtoMessageToString(u), DBProtoMessageToString(k)) <=>
                           u = who /\ (table = "keyless" \/ k = request.delete[1])
    BY <1>3, <2>0 DEF IsDeleteOf
  <2>2. CASE table = "repeated"
    <3>1. Len(v) = 2 /\ v[1] = <<who>> /\ v[2] = <<request.delete[1]>>
      BY <1>3, <2>0, <2>2 DEF IsDeleteOf
    <3> HIDE DEF v
    <3>2. Matches(s, v, <<u>>, <<k>>) <=> <<u>> = <<who>> /\ <<k>> = <<request.delete[1]>>
      BY <1>3, <3>1 DEF Matches
    <3> QED
      BY <2>2, <3>2 DEF DBProtoMessageToString, v
  <2>3. CASE table = "keyless"
    <3>1. Len(v) = 1 /\ v[1] = <<who>>
      BY <1>3, <2>0, <2>3 DEF IsDeleteOf
    <3> HIDE DEF v
    <3>2. Matches(s, v, <<u>>, <<k>>) <=> <<u>> = <<who>>
      BY <1>3, <3>1 DEF Matches
    <3> QED
      BY <2>3, <3>2 DEF DBProtoMessageToString, v
  <2> QED
    BY <2>1, <2>2, <2>3
<1>4. ASSUME TypeOK, NEW s \in Due, s.op # "insert", s.op # "delete"
      PROVE  /\ s.sql
             /\ \A u \in Users, k \in Keys :
                    Matches(s, s.args, DBProtoMessageToString(u), DBProtoMessageToString(k)) <=> u = who
  <2> DEFINE v == s.args
  <2>1. s.sql /\ Len(v) = 1 /\ v[1] = <<who>>
    BY <1>4, DueShape DEF IsInsertOf, IsDeleteOf, IsSelectOf
  <2>. SUFFICES ASSUME NEW u \in Users, NEW k \in Keys
                PROVE  Matches(s, v, DBProtoMessageToString(u), DBProtoMessageToString(k)) <=> u = who
    BY <2>1
  <2> HIDE DEF v
  <2>2. {v[i] : i \in 2..Len(v)} = {}
    BY <2>1
  <2>3. Matches(s, v, <<u>>, <<k>>) <=> <<u>> = <<who>>
    BY <1>4, <2>1, <2>2 DEF Matches
  <2> QED
    BY <2>3 DEF DBProtoMessageToString
<1>5. IInv => StatementsMeanIt
  BY <1>1, <1>2, <1>3, <1>4, Zenon DEF StatementsMeanIt
<1> QED
  BY <1>5, Inductive, PTL
=============================================================================
