------------------------------ MODULE ShardRemap ------------------------------
(***************************************************************************)
(* The shards of the database server: at start the number of shards of the  *)
(* configuration and the salt of the checksum are compared with those the   *)
(* data were stored with, and if they differ all rows are copied to new     *)
(* databases, the old ones are removed, the new ones take their names and   *)
(* number and salt are written down. The process may die between any two    *)
(* steps that change the disk, and may be started again with another        *)
(* configuration.                                                          *)
(*                                                                         *)
(* A database is a directory; what is kept of it is the content of every    *)
(* row it holds. A row may lie in several of them, with different contents: *)
(* the remap and the requests compute different checksums.                  *)
(***************************************************************************)
EXTENDS Naturals, FiniteSets, FiniteSetsExt

CONSTANTS Rows,         \* keys of the store
          Contents,     \* contents of a row
          NoRow,        \* the content of a row that is not there
          Nums,         \* numbers of shards that may be configured
          Slats,        \* names of the instance, the salts of the checksums
          NoSlat,       \* no salt is written down
          Place,        \* the loop of the remap's checksum, Place[number][salt][row]
          Route,        \* the loop of a request's checksum, Route[number][salt][row]
          NoDir,        \* there is no such directory
          Broken,       \* a directory of which a part has been removed
          MaxCrashes    \* bound: crashes outside of service

Indexes == 0..(Max(Nums) - 1)
Databases == [Rows -> Contents \cup {NoRow}]
Confs == [num : Nums, slat : Slats]

ASSUME RemapAssumption ==
    /\ Nums \subseteq Nat /\ \E m \in Nums : m > 0 /\ \A n \in Nums : m >= n
    /\ \A n \in Nums \ {0}, s \in Slats, k \in Rows :
           Place[n][s][k] \in 0..(n - 1) /\ Route[n][s][k] \in 0..(n - 1)
    /\ \A db \in Databases : NoDir # db /\ Broken # db
    /\ NoDir # Broken
    /\ NoRow \notin Contents
    /\ MaxCrashes \in Nat

VARIABLES shard,        \* [index -> the database shard_<index>, or NoDir, or Broken]
          tmp,          \* [index -> the database tmp_remap<index>, or NoDir]
          meta,         \* shared_num, 0 if it is not there, and shared_hash_slat
          pc,           \* where the process is
          conf,         \* nShardNum and GetCurrentHashSlat of the process, NoConf if it is down
          old,          \* nOldShardNum of the remap
          step,         \* index of the next directory to remove or to rename
          unread,       \* <<old shard, row>> not yet read
          queued,       \* <<old shard, row>> read whose put is queued
          returned,     \* InitRocksDb has returned
          saved,        \* history: what the requests made of each row
          split,        \* history: rows a request changed while a copy lay elsewhere
          cut,          \* history: {the configuration of a switch that was cut short}, or {}
          astray,       \* history: the process was then started with another configuration
          crashes       \* crashes so far

disk == <<shard, tmp, meta>>
copying == <<old, step, unread, queued>>
history == <<saved, split, cut, astray>>
vars == <<disk, pc, conf, copying, returned, history, crashes>>

Switching == {"remove", "rename", "meta_num", "meta_slat"}
Empty == [k \in Rows |-> NoRow]
NoConf == [num |-> 0, slat |-> NoSlat]

\* Row k is in a directory.
Holds(dir, k) == dir \notin {NoDir, Broken} /\ dir[k] # NoRow

Init ==
    /\ shard = [i \in Indexes |-> NoDir]
    /\ tmp = [i \in Indexes |-> NoDir]
    /\ meta = NoConf
    /\ pc = "down"
    /\ conf = NoConf
    /\ old = 0
    /\ step = 0
    /\ unread = {}
    /\ queued = {}
    /\ returned = FALSE
    /\ saved = Empty
    /\ split = {}
    /\ cut = {}
    /\ astray = FALSE
    /\ crashes = 0

\* CreateDBToc: create_if_missing.
CreateDBToc(dirs, n) == [i \in Indexes |-> IF i < n /\ dirs[i] = NoDir THEN Empty ELSE dirs[i]]

\* The process ends, and what it remembers is gone.
Down ==
    /\ pc' = "down"
    /\ conf' = NoConf
    /\ old' = 0
    /\ step' = 0
    /\ unread' = {}
    /\ queued' = {}
    /\ returned' = FALSE

\* CheckDBBaseData.
CheckDBBaseData(c) == meta.num # 0 /\ meta.num = c.num /\ meta.slat = c.slat
-----------------------------------------------------------------------------
(* Start                                                                   *)

\* The configuration may have been changed while the process was down.
Configured(c) ==
    /\ pc = "down"
    /\ conf' = c
    /\ astray' = (astray \/ cut \notin {{}, {c}})

\* StartRocksDb: the loops of the pool open their shards.
StartRocksDb(dirs, n) ==
    /\ shard' = CreateDBToc(dirs, n)
    /\ pc' = "serving"

\* InitRocksDb without a remap.
InitRocksDb(c) ==
    /\ CheckDBBaseData(c)
    /\ Configured(c)
    /\ StartRocksDb(shard, c.num)
    /\ returned' = TRUE
    /\ cut' = {}
    /\ UNCHANGED <<tmp, meta, copying, saved, split, crashes>>

\* RemapDBDataAndStart of no shards: the process runs without a database.
RemapRefused(c) ==
    /\ pc = "down"
    /\ c.num = 0
    /\ conf' = c
    /\ pc' = "idle"
    /\ returned' = TRUE
    /\ UNCHANGED <<disk, copying, history, crashes>>

\* What an earlier remap has left in the directories is cleared away first.
RemapDBDataClears(c) ==
    /\ ~CheckDBBaseData(c)
    /\ c.num > 0
    /\ Configured(c)
    /\ tmp' = [i \in Indexes |-> IF i < c.num THEN Empty ELSE tmp[i]]
    /\ shard' = CreateDBToc(shard, meta.num)
    /\ old' = meta.num
    /\ unread' = {r \in Indexes \X Rows : r[1] < meta.num /\ Holds(shard[r[1]], r[2])}
    /\ pc' = "copy"
    /\ UNCHANGED <<meta, step, queued, returned, saved, split, cut, crashes>>

\* InitRocksDb with a remap: RemapDBDataAndStart opens the new databases, which
\* may be there from an earlier attempt, and the old ones.
RemapDBData(c) ==
    /\ ~CheckDBBaseData(c)
    /\ c.num > 0
    /\ Configured(c)
    /\ tmp' = CreateDBToc(tmp, c.num)
    /\ shard' = CreateDBToc(shard, meta.num)
    /\ old' = meta.num
    /\ unread' = {r \in Indexes \X Rows : r[1] < meta.num /\ Holds(shard[r[1]], r[2])}
    /\ pc' = "copy"
    /\ UNCHANGED <<meta, step, queued, returned, saved, split, cut, crashes>>

\* The loop of old shard i reads a row and queues its put. The loops of the old
\* shards run beside one another.
ReadRow(i, k) ==
    /\ <<i, k>> \in unread
    /\ unread' = unread \ {<<i, k>>}
    /\ queued' = queued \cup {<<i, k>>}
    /\ UNCHANGED <<disk, pc, conf, old, step, returned, history, crashes>>

\* The content is a slice of the iterator, which has gone on to another row.
PutRowSlice(i, k) ==
    /\ <<i, k>> \in queued
    /\ queued' = queued \ {<<i, k>>}
    /\ \E r \in Rows :
           /\ <<i, r>> \notin unread
           /\ tmp' = [tmp EXCEPT ![Place[conf.num][conf.slat][k]] = [@ EXCEPT ![k] = shard[i][r]]]
    /\ UNCHANGED <<shard, meta, pc, conf, old, step, unread, returned, history, crashes>>


\* The loop of a new shard puts it, over the copy another old shard had. (Copies
\* of one row are put in the order they were read in, which is any. A build that
\* moves strKey into the functor before its checksum is taken, the order of the two
\* arguments being unspecified, has one Place for all rows.)
PutRow(i, k) ==
    /\ <<i, k>> \in queued
    /\ queued' = queued \ {<<i, k>>}
    /\ tmp' = [tmp EXCEPT ![Place[conf.num][conf.slat][k]] = [@ EXCEPT ![k] = shard[i][k]]]
    /\ UNCHANGED <<shard, meta, pc, conf, old, step, unread, returned, history, crashes>>

\* The loop of an old shard aborts the process when it cannot open it; the others
\* may have read by then.
RemapAborts ==
    /\ pc = "copy"
    /\ \E i \in Indexes : i < old /\ shard[i] = Broken
    /\ Down
    /\ UNCHANGED <<disk, history, crashes>>

\* The latch: all is read, and InitRocksDb returns while puts may be queued.
ReadDone ==
    /\ pc = "copy"
    /\ \A i \in Indexes : i < old => shard[i] # Broken
    /\ unread = {}
    /\ ~returned
    /\ returned' = TRUE
    /\ UNCHANGED <<disk, pc, conf, copying, history, crashes>>

\* BroadcastAndDone: the loops of the new shards have closed their databases,
\* each after its puts, and the main loop goes on.
CopyDone ==
    /\ pc = "copy"
    /\ returned
    /\ queued = {}
    /\ pc' = "remove"
    /\ step' = 0
    /\ UNCHANGED <<disk, conf, old, unread, queued, returned, history, crashes>>
-----------------------------------------------------------------------------
(* The switch, on the main loop                                            *)

\* Old shards beyond the new number are left.
RemoveOldFew ==
    /\ pc = "remove"
    /\ IF step < old /\ step < conf.num
       THEN /\ shard' = [shard EXCEPT ![step] = NoDir]
            /\ step' = step + 1
            /\ UNCHANGED pc
       ELSE /\ pc' = "rename"
            /\ step' = 0
            /\ UNCHANGED shard
    /\ UNCHANGED <<tmp, meta, conf, old, unread, queued, returned, history, crashes>>

RemoveOld ==
    /\ pc = "remove"
    /\ IF step < old
       THEN /\ shard' = [shard EXCEPT ![step] = NoDir]
            /\ step' = step + 1
            /\ UNCHANGED pc
       ELSE /\ pc' = "rename"
            /\ step' = 0
            /\ UNCHANGED shard
    /\ UNCHANGED <<tmp, meta, conf, old, unread, queued, returned, history, crashes>>

\* The number is written down before the directories have their names.
SwitchNewMetaFirst ==
    /\ pc = "rename"
    /\ meta' = [meta EXCEPT !.num = conf.num]
    /\ IF step < conf.num
       THEN /\ shard[step] = NoDir
            /\ shard' = [shard EXCEPT ![step] = tmp[step]]
            /\ tmp' = [tmp EXCEPT ![step] = NoDir]
            /\ step' = step + 1
            /\ UNCHANGED pc
       ELSE /\ pc' = "meta_num"
            /\ UNCHANGED <<shard, tmp, step>>
    /\ UNCHANGED <<conf, old, unread, queued, returned, history, crashes>>

SwitchNew ==
    /\ pc = "rename"
    /\ IF step < conf.num
       THEN /\ shard[step] = NoDir
            /\ shard' = [shard EXCEPT ![step] = tmp[step]]
            /\ tmp' = [tmp EXCEPT ![step] = NoDir]
            /\ step' = step + 1
            /\ UNCHANGED pc
       ELSE /\ pc' = "meta_num"
            /\ UNCHANGED <<shard, tmp, step>>
    /\ UNCHANGED <<meta, conf, old, unread, queued, returned, history, crashes>>

\* rename throws when the name is taken, and nobody catches it.
SwitchThrows ==
    /\ pc = "rename"
    /\ step < conf.num
    /\ shard[step] # NoDir
    /\ Down
    /\ cut' = {conf}
    /\ UNCHANGED <<disk, saved, split, astray, crashes>>

PutSharedNum ==
    /\ pc = "meta_num"
    /\ meta' = [meta EXCEPT !.num = conf.num]
    /\ pc' = "meta_slat"
    /\ UNCHANGED <<shard, tmp, conf, copying, returned, history, crashes>>

PutSharedHashSlat ==
    /\ pc = "meta_slat"
    /\ meta' = [meta EXCEPT !.slat = conf.slat]
    /\ StartRocksDb(shard, conf.num)
    /\ old' = 0
    /\ step' = 0
    /\ cut' = {}
    /\ UNCHANGED <<tmp, conf, unread, queued, returned, saved, split, astray, crashes>>
-----------------------------------------------------------------------------
(* Service                                                                 *)

\* DBLoopExec: the loop, and with it the shard, of a request.
DBLoopExec(k) == Route[conf.num][conf.slat][k]

\* A copy of the row lies in a directory other than the one of its requests.
CopyElsewhere(k) ==
    \E i \in Indexes : Holds(tmp[i], k) \/ (i # DBLoopExec(k) /\ Holds(shard[i], k))

\* What a save or a delete makes of a row. While the pool has no loops
\* LoopPool::Exec drops the request, which changes nothing.
Put(k, content) ==
    /\ pc = "serving"
    /\ shard[DBLoopExec(k)] # Broken
    /\ shard' = [shard EXCEPT ![DBLoopExec(k)] = [@ EXCEPT ![k] = content]]
    /\ saved' = [saved EXCEPT ![k] = content]
    /\ split' = IF CopyElsewhere(k) THEN split \cup {k} ELSE split
    /\ UNCHANGED <<tmp, meta, pc, conf, copying, returned, cut, astray, crashes>>

MessageUpdate(k, content) == Put(k, content)
MessageDelete(k) == Put(k, NoRow)

\* StartRocksDb does not look at the outcome of Open: the first request to a
\* shard that could not be opened follows a null pointer.
NoThreadRocksDB(k) ==
    /\ pc = "serving"
    /\ shard[DBLoopExec(k)] = Broken
    /\ Down
    /\ UNCHANGED <<disk, history, crashes>>

\* AfterStop, or the process dies while it serves.
AfterStop ==
    /\ pc \in {"serving", "idle"}
    /\ Down
    /\ UNCHANGED <<disk, history, crashes>>

\* The process dies during a remap. remove_all removes file by file: what it was
\* at may open as an empty database or not open at all.
Crash ==
    /\ pc \notin {"down", "serving", "idle"}
    /\ crashes < MaxCrashes
    /\ crashes' = crashes + 1
    /\ Down
    /\ \/ UNCHANGED shard
       \/ /\ pc = "remove" /\ step < old
          /\ \E left \in {Empty, Broken} : shard' = [shard EXCEPT ![step] = left]
    /\ cut' = IF pc \in Switching THEN {conf} ELSE cut
    /\ UNCHANGED <<tmp, meta, saved, split, astray>>
-----------------------------------------------------------------------------
Start == \E c \in Confs : InitRocksDb(c) \/ RemapRefused(c) \/ RemapDBData(c)
Remap ==
    \/ \E i \in Indexes, k \in Rows : ReadRow(i, k) \/ PutRow(i, k)
    \/ RemapAborts
    \/ ReadDone
    \/ CopyDone
    \/ RemoveOld
    \/ SwitchNew
    \/ SwitchThrows
    \/ PutSharedNum
    \/ PutSharedHashSlat
Request ==
    \E k \in Rows :
        \/ \E content \in Contents : MessageUpdate(k, content)
        \/ MessageDelete(k)
        \/ NoThreadRocksDB(k)

Next == Start \/ Remap \/ Request \/ AfterStop \/ Crash

Spec == Init /\ [][Next]_vars

\* Somebody starts the process, and its loops run what is queued.
FairSpec == Spec /\ WF_vars(Start) /\ WF_vars(Remap)
-----------------------------------------------------------------------------
(* Properties                                                              *)

\* Every variable has its type.
TypeOK ==
    /\ shard \in [Indexes -> Databases \cup {NoDir, Broken}]
    /\ tmp \in [Indexes -> Databases \cup {NoDir}]
    /\ meta \in [num : Nums \cup {0}, slat : Slats \cup {NoSlat}]
    /\ pc \in Switching \cup {"down", "copy", "serving", "idle"}
    /\ conf \in [num : Nums \cup {0}, slat : Slats \cup {NoSlat}]
    /\ old \in Nums \cup {0}
    /\ step \in 0..Max(Nums)
    /\ unread \subseteq Indexes \X Rows
    /\ queued \subseteq Indexes \X Rows
    /\ returned \in BOOLEAN
    /\ saved \in Databases
    /\ split \subseteq Rows
    /\ cut \in {{}} \cup {{c} : c \in Confs}
    /\ astray \in BOOLEAN
    /\ crashes \in 0..MaxCrashes

\* The rows that were saved and not deleted.
Saved == {k \in Rows : saved[k] # NoRow}

\* The two checksums take row k to the same shard in every configuration.
Agree(k) == \A n \in Nums \ {0}, s \in Slats : Place[n][s][k] = Route[n][s][k]

(***************************************************************************)
(* The remap puts a row where its checksum says and a request looks where   *)
(* its own says. A request that changes a row of which a copy lies elsewhere *)
(* leaves that copy as it is, and the next remap reads both in any order:    *)
(* what it keeps of such a row, one of split, is one of its contents and not *)
(* surely the last, and it may bring back one that was deleted. Nothing is   *)
(* said of the content of these rows.                                       *)
(***************************************************************************)
\* Wherever a remap is cut short, and whatever configuration the process is
\* started with after it, every copy of an unsplit row on the disk is the one saved
\* last, and of a deleted one there is none: no remap can bring an old content back.
NothingStale ==
    \A k \in Rows \ split, i \in Indexes :
        /\ Holds(shard[i], k) => shard[i][k] = saved[k]
        /\ Holds(tmp[i], k) => tmp[i][k] = saved[k]

\* Every row that was saved is in some directory on the disk (as it was saved last,
\* if it is not split: NothingStale), whatever copies of it overwrite one another:
\* the old shards are given up only for complete new ones.
NothingLost ==
    \A k \in Saved : \E i \in Indexes : Holds(shard[i], k) \/ Holds(tmp[i], k)

\* A process that serves has every saved row in one of the shards it has opened,
\* in the one its requests look in if the checksums agree on it, and with the
\* content saved last if it is not split, through any number of remaps and of
\* crashes in them, unless it was started with another configuration after a
\* switch that was cut short.
ServesAll ==
    pc = "serving" /\ ~astray =>
        \A k \in Saved : \E i \in 0..(conf.num - 1) :
            /\ Holds(shard[i], k)
            /\ Agree(k) => i = DBLoopExec(k)
            /\ k \notin split => shard[i][k] = saved[k]


(***************************************************************************)
(* What no restart gets over: a directory that cannot be opened, or one with *)
(* the name of a new shard, of which the number written down does not know,  *)
(* found by a process that starts.                                         *)
(***************************************************************************)
Wedged ==
    \/ \E i \in Indexes : shard[i] = Broken
    \/ pc = "down" /\ \E i \in Indexes : i >= meta.num /\ shard[i] # NoDir

\* A process that is started again, with whatever configuration that has shards,
\* serves in the end, through any number of remaps, unless it meets such a
\* directory, which only a crash in a switch leaves.
ServesInTheEnd ==
    pc = "down" ~> (pc \in {"serving", "idle"} \/ (crashes > 0 /\ Wedged))
=============================================================================
