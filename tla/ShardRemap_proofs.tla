-------------------------- MODULE ShardRemap_proofs --------------------------
(***************************************************************************)
(* Proofs that the remap of the shards loses no row and brings no old        *)
(* content back, wherever it is cut short, and that a process which serves   *)
(* has all rows, for every set of rows and contents, all numbers of shards   *)
(* and salts and every placement of rows.                                    *)
(***************************************************************************)
EXTENDS ShardRemap, TLAPS

Dirs == [Indexes -> Databases \cup {NoDir, Broken}]
Tmps == [Indexes -> Databases \cup {NoDir}]
AnyConf == [num : Nums \cup {0}, slat : Slats \cup {NoSlat}]

\* Row k is in one of the first directories of dirs, as many as configuration c
\* says: in the one its requests look in if the checksums agree on it.
Found(dirs, c, k) ==
    \E i \in 0..(c.num - 1) : Holds(dirs[i], k) /\ (Agree(k) => i = Route[c.num][c.slat][k])

\* What the process remembers fits where it is.
PhaseInv ==
    /\ pc # "copy" => unread = {} /\ queued = {}
    /\ pc = "down" => ~returned
    /\ pc = "copy" /\ returned => unread = {}
    /\ pc \in Switching \cup {"copy", "serving"} => conf \in Confs /\ conf.num > 0
    /\ pc = "copy" => \A i \in 0..(conf.num - 1) : tmp[i] # NoDir
    /\ pc = "serving" => \A i \in 0..(conf.num - 1) : shard[i] # NoDir
    /\ pc \in {"meta_slat", "serving"} => meta.num = conf.num
    /\ pc = "serving" => cut = {} /\ meta.slat = conf.slat
    /\ pc \in {"copy", "remove", "rename", "meta_num"} => ~CheckDBBaseData(conf)
    /\ pc \in {"copy", "remove"} => old = meta.num

\* A new database that has taken its name is no longer under the old one.
MovedInv ==
    /\ pc = "rename" => \A i \in 0..(conf.num - 1) : i < step => tmp[i] = NoDir
    /\ pc \in {"meta_num", "meta_slat"} => \A i \in 0..(conf.num - 1) : tmp[i] = NoDir

\* What is read and put is there, no row of an old shard is forgotten between the
\* read and the put, and when the old shards are removed all their rows have
\* been put.
CopiedInv ==
    /\ \A i \in Indexes, k \in Rows :
           <<i, k>> \in unread \cup queued => pc = "copy" /\ Holds(shard[i], k)
    /\ pc = "copy" =>
           \A i \in 0..(old - 1), k \in Rows :
               Holds(shard[i], k) => <<i, k>> \in unread \cup queued \/ Found(tmp, conf, k)
    /\ pc = "remove" =>
           \A i \in 0..(old - 1), k \in Rows :
               Holds(shard[i], k) => Found(tmp, conf, k)

\* Where the rows are if the process was never started with another configuration
\* after a switch that was cut short.
KeptInv ==
    ~astray =>
        /\ pc = "serving" => \A k \in Saved : Found(shard, conf, k)
        /\ pc \in {"down", "idle", "copy"} /\ cut = {} =>
               \A k \in Saved : Found(shard, meta, k)
        /\ pc \in {"down", "idle", "copy"} =>
               \A c \in cut : \A k \in Saved : Found(shard, c, k) \/ Found(tmp, c, k)
        /\ pc = "copy" => cut \in {{}, {conf}}
        /\ pc \in Switching =>
               \A k \in Saved : Found(shard, conf, k) \/ Found(tmp, conf, k)
        /\ pc \in {"down", "idle"} =>
               \A c \in cut : CheckDBBaseData(c) => \A i \in 0..(c.num - 1) : tmp[i] = NoDir

IInv == TypeOK /\ NothingLost /\ NothingStale /\ PhaseInv /\ MovedInv /\ CopiedInv /\ KeptInv
-----------------------------------------------------------------------------
\* There is a largest number of shards, and the shards of every number have an
\* index.
LEMMA Numbers ==
    /\ Max(Nums) \in Nat /\ 0 \in 0..Max(Nums)
    /\ \A n \in Nums \cup {0} : n \in Nat /\ n <= Max(Nums)
    /\ \A n \in Nums \cup {0} : \A i \in 0..(n - 1) : i \in Indexes /\ i \in Nat /\ i < n
    /\ \A n \in Nums \cup {0} : \A i \in Indexes : i < n => i \in 0..(n - 1)
    /\ Indexes \subseteq Nat
<1>1. PICK m \in Nums : \A n \in Nums : m >= n
  BY RemapAssumption
<1>2. Max(Nums) \in Nums /\ \A n \in Nums : Max(Nums) >= n
  BY <1>1 DEF Max
<1>3. PICK max \in Nat : max = Max(Nums)
  BY <1>2, RemapAssumption
<1>4. Indexes = 0..(max - 1) /\ \A n \in Nums \cup {0} : n <= max /\ n \in Nat
  BY <1>2, <1>3, RemapAssumption DEF Indexes
<1> QED
  BY <1>3, <1>4

\* An empty database is one and holds no row.
LEMMA EmptyDatabase == Empty \in Databases /\ \A k \in Rows : ~Holds(Empty, k)
BY DEF Empty, Databases, Holds

\* A database holds the rows it has a content of, and is not a missing or a broken
\* directory.
LEMMA HoldsRow ==
    ASSUME NEW db \in Databases
    PROVE  db # NoDir /\ db # Broken /\ \A k \in Rows : Holds(db, k) <=> db[k] # NoRow
BY RemapAssumption DEF Holds

\* A directory that holds a row is a database.
LEMMA HolderIsDatabase ==
    ASSUME NEW dir \in Databases \cup {NoDir, Broken}, NEW k, Holds(dir, k)
    PROVE  dir \in Databases
BY DEF Holds

\* Opening the first n databases creates some and changes none that is there.
LEMMA CreateDBTocKeeps ==
    ASSUME NEW dirs \in Dirs, NEW n \in Nums \cup {0}
    PROVE  /\ CreateDBToc(dirs, n) \in Dirs
           /\ dirs \in Tmps => CreateDBToc(dirs, n) \in Tmps
           /\ \A i \in Indexes, k \in Rows :
                  /\ Holds(CreateDBToc(dirs, n)[i], k) <=> Holds(dirs[i], k)
                  /\ Holds(dirs[i], k) => CreateDBToc(dirs, n)[i] = dirs[i]
           /\ \A i \in 0..(n - 1) : CreateDBToc(dirs, n)[i] # NoDir
<1>1. /\ CreateDBToc(dirs, n) \in Dirs
      /\ dirs \in Tmps => CreateDBToc(dirs, n) \in Tmps
  BY EmptyDatabase DEF CreateDBToc, Dirs, Tmps
<1>2. ASSUME NEW i \in Indexes, NEW k \in Rows
      PROVE  /\ Holds(CreateDBToc(dirs, n)[i], k) <=> Holds(dirs[i], k)
             /\ Holds(dirs[i], k) => CreateDBToc(dirs, n)[i] = dirs[i]
  <2>1. CASE i < n /\ dirs[i] = NoDir
    <3>1. CreateDBToc(dirs, n)[i] = Empty
      BY <2>1 DEF CreateDBToc
    <3> QED
      BY <3>1, <2>1, EmptyDatabase DEF Holds
  <2>2. CASE ~(i < n /\ dirs[i] = NoDir)
    <3>1. CreateDBToc(dirs, n)[i] = dirs[i]
      BY <2>2 DEF CreateDBToc
    <3> QED
      BY <3>1
  <2> QED
    BY <2>1, <2>2
<1>3. \A i \in 0..(n - 1) : CreateDBToc(dirs, n)[i] # NoDir
  <2> SUFFICES ASSUME NEW i \in 0..(n - 1) PROVE CreateDBToc(dirs, n)[i] # NoDir
    OBVIOUS
  <2>1. i \in Indexes /\ i < n
    BY Numbers
  <2>2. Empty # NoDir
    BY EmptyDatabase, HoldsRow
  <2> QED
    BY <2>1, <2>2 DEF CreateDBToc
<1> QED
  BY <1>1, <1>2, <1>3

\* A row stays found as long as the directories that hold it keep it.
LEMMA FoundStays ==
    ASSUME NEW dirs, NEW new, NEW c, c.num \in Nums \cup {0}, NEW k \in Rows,
           \A i \in Indexes : Holds(dirs[i], k) => Holds(new[i], k),
           Found(dirs, c, k)
    PROVE  Found(new, c, k)
BY Numbers DEF Found

\* In the initial state there is no row.
LEMMA InitIInv == Init => IInv
<1> SUFFICES ASSUME Init PROVE IInv
  OBVIOUS
<1> USE DEF Init
<1>0. Saved = {}
  BY DEF Saved, Empty
<1>1. TypeOK
  <2>1. crashes \in 0..MaxCrashes
    BY RemapAssumption
  <2>2. step \in 0..Max(Nums)
    BY Numbers
  <2> QED
    BY <2>1, <2>2, EmptyDatabase DEF TypeOK, NoConf
<1>2. NothingLost
  BY <1>0 DEF NothingLost
<1>3. NothingStale
  BY DEF NothingStale, Holds
<1>4. PhaseInv /\ MovedInv /\ CopiedInv
  BY DEF PhaseInv, MovedInv, CopiedInv, Switching
<1>5. KeptInv
  BY <1>0 DEF KeptInv, Switching
<1> QED
  BY <1>1, <1>2, <1>3, <1>4, <1>5 DEF IInv

\* What TypeOK says, in the form the lemmas ask for.
LEMMA TypeFacts ==
    ASSUME TypeOK
    PROVE  /\ shard \in Dirs /\ tmp \in Dirs /\ tmp \in Tmps
           /\ meta \in AnyConf /\ meta.num \in Nums \cup {0} /\ meta.num \in Nat
           /\ conf \in AnyConf /\ conf.num \in Nums \cup {0} /\ conf.num \in Nat
           /\ old \in Nums \cup {0} /\ old \in Nat
           /\ cut \in {{}} \cup {{c} : c \in Confs}
           /\ saved \in Databases /\ Saved \subseteq Rows
BY Numbers DEF TypeOK, Dirs, Tmps, AnyConf, Saved

\* A configuration has a number of shards.
LEMMA ConfFacts ==
    ASSUME NEW c \in Confs
    PROVE  c.num \in Nums \cup {0} /\ c.num \in Nat /\ c.slat \in Slats /\ c \in AnyConf
BY Numbers DEF Confs, AnyConf
-----------------------------------------------------------------------------
(* Start                                                                   *)

\* Without a remap the shards are those the number that is written down says.
LEMMA InitRocksDbIInv ==
    ASSUME IInv, NEW c \in Confs, InitRocksDb(c)
    PROVE  IInv'
<1> USE DEF IInv
<1>0. /\ pc = "down" /\ pc' = "serving" /\ conf' = c /\ cut' = {} /\ returned' = TRUE
      /\ meta.num = c.num /\ meta.slat = c.slat /\ c.num > 0 /\ c.num \in Nums \cup {0}
      /\ shard' = CreateDBToc(shard, c.num)
      /\ astray' = (astray \/ cut \notin {{}, {c}})
      /\ UNCHANGED <<tmp, meta, old, step, unread, queued, saved, split, crashes>>
  BY TypeFacts, ConfFacts DEF InitRocksDb, CheckDBBaseData, Configured, StartRocksDb, copying
<1>a. \A i \in Indexes, k \in Rows : /\ Holds(shard'[i], k) <=> Holds(shard[i], k)
                                     /\ Holds(shard[i], k) => shard'[i] = shard[i]
  BY <1>0, TypeFacts, CreateDBTocKeeps
<1>b. Saved' = Saved
  BY <1>0 DEF Saved
<1>1. TypeOK'
  <2>1. shard' \in Dirs
    BY <1>0, TypeFacts, CreateDBTocKeeps
  <2> QED
    BY <1>0, <2>1, ConfFacts DEF TypeOK, AnyConf, Dirs
<1>2. NothingLost'
  BY <1>0, <1>a, <1>b, TypeFacts DEF NothingLost
<1>3. NothingStale'
  BY <1>0, <1>a DEF NothingStale
<1>4. PhaseInv'
  <2>1. \A i \in 0..(c.num - 1) : shard'[i] # NoDir
    BY <1>0, TypeFacts, CreateDBTocKeeps
  <2> QED
    BY <1>0, <2>1 DEF PhaseInv, Switching
<1>5. MovedInv' /\ CopiedInv'
  BY <1>0 DEF MovedInv, CopiedInv, PhaseInv
<1>6. KeptInv'
  <2> SUFFICES ASSUME ~astray', NEW k \in Saved
               PROVE  Found(shard', c, k)
    BY <1>0, <1>b DEF KeptInv, Switching
  <2>1. ~astray /\ cut \in {{}, {c}}
    BY <1>0
  <2>2. Found(shard, c, k)
    <3>1. CASE cut = {}
      <4>1. Found(shard, meta, k)
        BY <1>0, <2>1, <3>1 DEF KeptInv
      <4> QED
        BY <1>0, <4>1 DEF Found
    <3>2. CASE cut = {c}
      <4>1. \A i \in 0..(c.num - 1) : tmp[i] = NoDir
        BY <1>0, <2>1, <3>2 DEF KeptInv, InitRocksDb
      <4>2. ~Found(tmp, c, k)
        BY <4>1 DEF Found, Holds
      <4> QED
        BY <1>0, <2>1, <3>2, <4>2 DEF KeptInv
    <3> QED
      BY <2>1, <3>1, <3>2
  <2> QED
    BY <1>0, <1>a, <2>2, FoundStays, TypeFacts
<1> QED
  BY <1>1, <1>2, <1>3, <1>4, <1>5, <1>6

\* A process without shards does nothing to the disk.
LEMMA RemapRefusedIInv ==
    ASSUME IInv, NEW c \in Confs, RemapRefused(c)
    PROVE  IInv'
<1> USE DEF IInv
<1>0. /\ pc = "down" /\ pc' = "idle" /\ conf' = c /\ returned' = TRUE
      /\ UNCHANGED <<shard, tmp, meta, old, step, unread, queued, saved, split, cut, astray, crashes>>
  BY DEF RemapRefused, disk, copying, history
<1>1. TypeOK'
  BY <1>0, ConfFacts DEF TypeOK, AnyConf
<1>2. NothingLost' /\ NothingStale' /\ MovedInv' /\ CopiedInv'
  BY <1>0 DEF NothingLost, NothingStale, MovedInv, CopiedInv, Saved
<1>3. PhaseInv'
  BY <1>0 DEF PhaseInv, Switching
<1>4. KeptInv'
  BY <1>0 DEF KeptInv, Found, Saved, CheckDBBaseData, Switching
<1> QED
  BY <1>1, <1>2, <1>3, <1>4

\* A remap begins: its databases are opened and what is there is kept.
LEMMA RemapDBDataIInv ==
    ASSUME IInv, NEW c \in Confs, RemapDBData(c)
    PROVE  IInv'
<1> USE DEF IInv
<1>0. /\ pc = "down" /\ pc' = "copy" /\ conf' = c /\ old' = meta.num
      /\ ~CheckDBBaseData(c) /\ c.num > 0 /\ c.num \in Nums \cup {0}
      /\ unread' = {r \in Indexes \X Rows : r[1] < meta.num /\ Holds(shard[r[1]], r[2])}
      /\ shard' = CreateDBToc(shard, meta.num) /\ tmp' = CreateDBToc(tmp, c.num)
      /\ astray' = (astray \/ cut \notin {{}, {c}})
      /\ UNCHANGED <<meta, step, queued, returned, saved, split, cut, crashes>>
  BY ConfFacts DEF RemapDBData, Configured
<1>a. \A i \in Indexes, k \in Rows : /\ Holds(shard'[i], k) <=> Holds(shard[i], k)
                                     /\ Holds(shard[i], k) => shard'[i] = shard[i]
                                     /\ Holds(tmp'[i], k) <=> Holds(tmp[i], k)
                                     /\ Holds(tmp[i], k) => tmp'[i] = tmp[i]
  <2>1. \A i \in Indexes, k \in Rows : /\ Holds(shard'[i], k) <=> Holds(shard[i], k)
                                       /\ Holds(shard[i], k) => shard'[i] = shard[i]
    BY <1>0, TypeFacts, CreateDBTocKeeps
  <2>2. \A i \in Indexes, k \in Rows : /\ Holds(tmp'[i], k) <=> Holds(tmp[i], k)
                                       /\ Holds(tmp[i], k) => tmp'[i] = tmp[i]
    BY <1>0, TypeFacts, CreateDBTocKeeps
  <2> QED
    BY <2>1, <2>2
<1>b. Saved' = Saved
  BY <1>0 DEF Saved
<1>1. TypeOK'
  <2>1. unread' \subseteq Indexes \X Rows
    BY <1>0
  <2>2. shard' \in Dirs /\ tmp' \in Tmps
    BY <1>0, TypeFacts, CreateDBTocKeeps
  <2> QED
    BY <1>0, <2>1, <2>2, ConfFacts, TypeFacts DEF TypeOK, AnyConf, Dirs, Tmps
<1>2. NothingLost'
  BY <1>0, <1>a, <1>b, TypeFacts DEF NothingLost
<1>3. NothingStale'
  BY <1>0, <1>a DEF NothingStale
<1>4. PhaseInv'
  <2>1. \A i \in 0..(c.num - 1) : tmp'[i] # NoDir
    BY <1>0, TypeFacts, CreateDBTocKeeps
  <2> QED
    BY <1>0, <2>1 DEF PhaseInv, CheckDBBaseData, Switching
<1>5. MovedInv'
  BY <1>0 DEF MovedInv
<1>6. CopiedInv'
  <2>1. ASSUME NEW i \in Indexes, NEW k \in Rows
        PROVE  <<i, k>> \in unread' \cup queued' <=> i < meta.num /\ Holds(shard'[i], k)
    <3>1. queued' = {}
      BY <1>0 DEF PhaseInv
    <3>2. <<i, k>> \in unread' <=> i < meta.num /\ Holds(shard[i], k)
      BY <1>0
    <3> QED
      BY <1>a, <3>1, <3>2
  <2>2. \A i \in 0..(meta.num - 1) : i \in Indexes /\ i < meta.num
    BY Numbers, TypeFacts
  <2> QED
    BY <1>0, <2>1, <2>2 DEF CopiedInv
<1>7. KeptInv'
  <2> SUFFICES ASSUME ~astray'
               PROVE  /\ cut = {} => \A k \in Saved : Found(shard', meta, k)
                      /\ \A d \in cut : \A k \in Saved : Found(shard', d, k) \/ Found(tmp', d, k)
                      /\ cut \in {{}, {c}}
    BY <1>0, <1>b DEF KeptInv, Switching
  <2>1. ~astray /\ cut \in {{}, {c}}
    BY <1>0
  <2>2. cut = {} => \A k \in Saved : Found(shard', meta, k)
    BY <1>0, <1>a, <2>1, TypeFacts, FoundStays DEF KeptInv
  <2>3. ASSUME NEW d \in cut, NEW k \in Saved
        PROVE  Found(shard', d, k) \/ Found(tmp', d, k)
    <3>1. Found(shard, d, k) \/ Found(tmp, d, k)
      BY <1>0, <2>1, <2>3 DEF KeptInv
    <3>2. d.num \in Nums \cup {0}
      BY <1>0, <2>1, <2>3
    <3> QED
      BY <1>a, <3>1, <3>2, TypeFacts, FoundStays
  <2> QED
    BY <2>1, <2>2, <2>3
<1> QED
  BY <1>1, <1>2, <1>3, <1>4, <1>5, <1>6, <1>7
-----------------------------------------------------------------------------
(* The copy                                                                *)

\* A row that has been read is queued for its new database.
LEMMA ReadRowIInv ==
    ASSUME IInv, NEW i \in Indexes, NEW k \in Rows, ReadRow(i, k)
    PROVE  IInv'
<1> USE DEF IInv
<1>0. /\ <<i, k>> \in unread /\ unread' = unread \ {<<i, k>>} /\ queued' = queued \cup {<<i, k>>}
      /\ UNCHANGED <<shard, tmp, meta, pc, conf, old, step, returned, saved, split, cut, astray, crashes>>
  BY DEF ReadRow, disk, history
<1>a. unread' \cup queued' = unread \cup queued
  BY <1>0
<1>1. TypeOK'
  BY <1>0 DEF TypeOK
<1>2. NothingLost' /\ NothingStale' /\ MovedInv'
  BY <1>0 DEF NothingLost, NothingStale, MovedInv, Saved
<1>3. PhaseInv'
  BY <1>0 DEF PhaseInv, CheckDBBaseData
<1>4. CopiedInv'
  BY <1>0, <1>a DEF CopiedInv, Found
<1>5. KeptInv'
  BY <1>0, SMTT(30) DEF KeptInv, Found, Saved, CheckDBBaseData
<1> QED
  BY <1>1, <1>2, <1>3, <1>4, <1>5

\* A put brings a row, as the old shard has it, to a new database that is open.
LEMMA PutRowIInv ==
    ASSUME IInv, NEW i \in Indexes, NEW k \in Rows, PutRow(i, k)
    PROVE  IInv'
<1> USE DEF IInv
<1>c. pc = "copy" /\ Holds(shard[i], k) /\ conf \in Confs /\ conf.num > 0
  BY DEF PutRow, CopiedInv, PhaseInv
<1>h. Place[conf.num][conf.slat][k] \in 0..(conf.num - 1)
  <2>1. conf.num \in Nums \ {0} /\ conf.slat \in Slats
    BY <1>c DEF Confs
  <2> QED
    BY <2>1, RemapAssumption
<1> PICK p \in 0..(conf.num - 1) : p = Place[conf.num][conf.slat][k]
  BY <1>h
<1>0. /\ <<i, k>> \in queued /\ queued' = queued \ {<<i, k>>}
      /\ tmp' = [tmp EXCEPT ![p] = [@ EXCEPT ![k] = shard[i][k]]]
      /\ UNCHANGED <<shard, meta, pc, conf, old, step, unread, returned, saved, split, cut, astray, crashes>>
  BY DEF PutRow, history
<1>a. p \in Indexes /\ tmp[p] \in Databases /\ shard[i] \in Databases /\ shard[i][k] \in Contents
  <2>1. p \in Indexes /\ tmp[p] \in Databases
    BY <1>c, Numbers, TypeFacts DEF PhaseInv, Tmps
  <2>2. shard[i] \in Databases
    BY <1>c, TypeFacts, HolderIsDatabase DEF Dirs
  <2> QED
    BY <1>c, <2>1, <2>2 DEF Databases, Holds
<1>b. /\ tmp' \in Tmps /\ tmp'[p] \in Databases
      /\ tmp'[p][k] = shard[i][k] /\ \A r \in Rows : r # k => tmp'[p][r] = tmp[p][r]
      /\ \A j \in Indexes : j # p => tmp'[j] = tmp[j]
  <2>1. [tmp[p] EXCEPT ![k] = shard[i][k]] \in Databases
    BY <1>a DEF Databases
  <2>2. /\ [tmp[p] EXCEPT ![k] = shard[i][k]][k] = shard[i][k]
        /\ \A r \in Rows : r # k => [tmp[p] EXCEPT ![k] = shard[i][k]][r] = tmp[p][r]
    BY <1>a DEF Databases
  <2>3. tmp'[p] = [tmp[p] EXCEPT ![k] = shard[i][k]] /\ \A j \in Indexes : j # p => tmp'[j] = tmp[j]
    BY <1>0, <1>a, TypeFacts DEF Tmps
  <2>4. tmp' \in Tmps
    BY <1>0, <1>a, <2>1, TypeFacts DEF Tmps
  <2> QED
    BY <2>1, <2>2, <2>3, <2>4
<1>d. Holds(tmp'[p], k)
  BY <1>a, <1>b, HoldsRow, RemapAssumption
<1>e. \A j \in Indexes, r \in Rows : Holds(tmp[j], r) => Holds(tmp'[j], r)
  <2> SUFFICES ASSUME NEW j \in Indexes, NEW r \in Rows, Holds(tmp[j], r), j = p, r # k
               PROVE  Holds(tmp'[p], r)
    BY <1>b, <1>d
  <2>1. tmp[p][r] # NoRow
    BY <1>a, HoldsRow
  <2>2. tmp'[p][r] # NoRow
    BY <1>b, <2>1
  <2> QED
    BY <1>b, <2>2, HoldsRow
<1>f. Found(tmp', conf, k)
  <2>1. Agree(k) => p = Route[conf.num][conf.slat][k]
    BY <1>c DEF Agree, Confs
  <2> QED
    BY <1>d, <2>1 DEF Found
<1>g. Saved' = Saved
  BY <1>0 DEF Saved
<1>1. TypeOK'
  <2>1. tmp' \in [Indexes -> Databases \cup {NoDir}]
    BY <1>b DEF Tmps
  <2>2. queued' \subseteq Indexes \X Rows
    BY <1>0 DEF TypeOK
  <2>3. UNCHANGED <<shard, meta, pc, conf, old, step, unread, returned, saved, split, cut, astray,
                    crashes>>
    BY <1>0
  <2> QED
    BY <2>1, <2>2, <2>3 DEF TypeOK
<1>2. NothingLost'
  BY <1>0, <1>e, <1>g, TypeFacts DEF NothingLost
<1>3. NothingStale'
  <2> SUFFICES ASSUME NEW r \in Rows \ split, NEW j \in Indexes, Holds(tmp'[j], r)
               PROVE  tmp'[j][r] = saved[r]
    BY <1>0 DEF NothingStale
  <2>1. CASE j = p /\ r = k
    BY <1>b, <1>c, <2>1 DEF NothingStale
  <2>2. CASE j = p /\ r # k
    <3>1. tmp'[p][r] = tmp[p][r]
      BY <1>b, <2>2
    <3>2. Holds(tmp[p], r)
      <4>1. tmp'[p][r] # NoRow
        BY <1>b, <2>2, HoldsRow
      <4> QED
        BY <1>a, <3>1, <4>1, HoldsRow
    <3> QED
      BY <1>a, <2>2, <3>1, <3>2 DEF NothingStale
  <2>3. CASE j # p
    <3>1. tmp'[j] = tmp[j]
      BY <1>b, <2>3
    <3> QED
      BY <3>1 DEF NothingStale
  <2> QED
    BY <2>1, <2>2, <2>3
<1>4. PhaseInv'
  <2>1. \A j \in 0..(conf.num - 1) : tmp'[j] # NoDir
    <3> SUFFICES ASSUME NEW j \in 0..(conf.num - 1) PROVE tmp'[j] # NoDir
      OBVIOUS
    <3>1. CASE j = p
      BY <1>b, <3>1, HoldsRow
    <3>2. CASE j # p
      BY <1>b, <1>c, <3>2, Numbers, TypeFacts DEF PhaseInv
    <3> QED
      BY <3>1, <3>2
  <2> QED
    BY <1>0, <1>c, <2>1 DEF PhaseInv, CheckDBBaseData
<1>5. MovedInv'
  BY <1>0, <1>c DEF MovedInv
<1>6. CopiedInv'
  <2>1. ASSUME NEW j \in 0..(old - 1), NEW r \in Rows, Holds(shard[j], r)
        PROVE  <<j, r>> \in unread \cup queued' \/ Found(tmp', conf, r)
    <3>1. <<j, r>> \in unread \cup queued \/ Found(tmp, conf, r)
      BY <1>c, <2>1 DEF CopiedInv
    <3>2. CASE Found(tmp, conf, r)
      BY <1>e, <3>2, TypeFacts, FoundStays
    <3>3. CASE r = k
      BY <1>f, <3>3
    <3>4. CASE <<j, r>> \in unread \cup queued /\ r # k
      BY <1>0, <3>4
    <3> QED
      BY <3>1, <3>2, <3>3, <3>4
  <2>2. \A j \in Indexes, r \in Rows :
            <<j, r>> \in unread \cup queued' => Holds(shard[j], r)
    BY <1>0 DEF CopiedInv
  <2> QED
    BY <1>0, <1>c, <2>1, <2>2 DEF CopiedInv
<1>7. KeptInv'
  <2> SUFFICES ASSUME ~astray, NEW c \in cut, NEW r \in Saved
               PROVE  Found(shard, c, r) \/ Found(tmp', c, r)
    <3>1. \A r \in Saved, c \in AnyConf : Found(shard', c, r) <=> Found(shard, c, r)
      BY <1>0 DEF Found
    <3> QED
      BY <1>0, <1>c, <1>g, <3>1, TypeFacts DEF KeptInv, Switching
  <2>1. Found(shard, c, r) \/ Found(tmp, c, r)
    BY <1>c DEF KeptInv
  <2>2. c.num \in Nums \cup {0}
    BY <1>c, TypeFacts DEF KeptInv
  <2> QED
    BY <1>e, <2>1, <2>2, TypeFacts, FoundStays
<1> QED
  BY <1>1, <1>2, <1>3, <1>4, <1>5, <1>6, <1>7

\* A process that cannot open an old shard leaves the disk as it is.
LEMMA RemapAbortsIInv == IInv /\ RemapAborts => IInv'
<1> SUFFICES ASSUME IInv, RemapAborts PROVE IInv'
  OBVIOUS
<1> USE DEF IInv
<1>0. /\ pc = "copy" /\ pc' = "down" /\ conf' = NoConf /\ old' = 0 /\ step' = 0
      /\ unread' = {} /\ queued' = {} /\ returned' = FALSE
      /\ UNCHANGED <<shard, tmp, meta, saved, split, cut, astray, crashes>>
  BY DEF RemapAborts, Down, disk, history
<1>1. TypeOK'
  BY <1>0, Numbers DEF TypeOK, NoConf
<1>2. NothingLost' /\ NothingStale' /\ MovedInv' /\ CopiedInv'
  BY <1>0 DEF NothingLost, NothingStale, MovedInv, CopiedInv, Saved
<1>3. PhaseInv'
  BY <1>0 DEF PhaseInv, Switching
<1>4. KeptInv'
  <2>1. ~CheckDBBaseData(conf)
    BY <1>0 DEF PhaseInv
  <2> QED
    BY <1>0, <2>1 DEF KeptInv, Found, Saved, CheckDBBaseData, Switching
<1> QED
  BY <1>1, <1>2, <1>3, <1>4

\* RemapDBData returns when there is nothing left to read.
LEMMA ReadDoneIInv == IInv /\ ReadDone => IInv'
<1> SUFFICES ASSUME IInv, ReadDone PROVE IInv'
  OBVIOUS
<1> USE DEF IInv
<1>0. /\ pc = "copy" /\ unread = {} /\ returned' = TRUE
      /\ UNCHANGED <<shard, tmp, meta, pc, conf, old, step, unread, queued, saved, split, cut, astray, crashes>>
  BY DEF ReadDone, disk, copying, history
<1>1. TypeOK' /\ NothingLost' /\ NothingStale' /\ MovedInv'
  BY <1>0 DEF TypeOK, NothingLost, NothingStale, MovedInv, Saved
<1>2. PhaseInv'
  BY <1>0 DEF PhaseInv, CheckDBBaseData
<1>3. CopiedInv'
  BY <1>0 DEF CopiedInv, Found
<1>4. KeptInv'
  BY <1>0 DEF KeptInv, Found, Saved, CheckDBBaseData
<1> QED
  BY <1>1, <1>2, <1>3, <1>4

\* The latch and the drained queues: what was read has been put.
LEMMA CopyDoneIInv == IInv /\ CopyDone => IInv'
<1> SUFFICES ASSUME IInv, CopyDone PROVE IInv'
  OBVIOUS
<1> USE DEF IInv
<1>0. /\ pc = "copy" /\ returned /\ queued = {} /\ pc' = "remove" /\ step' = 0
      /\ UNCHANGED <<shard, tmp, meta, conf, old, unread, queued, returned, saved, split, cut, astray, crashes>>
  BY DEF CopyDone, disk, history
<1>a. unread = {} /\ old = meta.num
  BY <1>0 DEF PhaseInv
<1>b. \A i \in 0..(old - 1), k \in Rows : Holds(shard[i], k) => Found(tmp, conf, k)
  BY <1>0, <1>a DEF CopiedInv
<1>1. TypeOK'
  BY <1>0, Numbers DEF TypeOK, Switching
<1>2. NothingLost' /\ NothingStale' /\ MovedInv'
  BY <1>0 DEF NothingLost, NothingStale, MovedInv, Saved
<1>3. PhaseInv'
  BY <1>0, <1>a DEF PhaseInv, CheckDBBaseData, Switching
<1>4. CopiedInv'
  BY <1>0, <1>a, <1>b DEF CopiedInv, Found
<1>5. KeptInv'
  <2> SUFFICES ASSUME ~astray, NEW k \in Saved
               PROVE  Found(shard, conf, k) \/ Found(tmp, conf, k)
    BY <1>0 DEF KeptInv, Found, Saved, Switching
  <2>1. CASE cut = {}
    <3>1. Found(shard, meta, k)
      BY <1>0, <2>1 DEF KeptInv
    <3>2. PICK i \in 0..(old - 1) : Holds(shard[i], k)
      BY <1>a, <3>1 DEF Found
    <3> QED
      BY <1>b, <3>2, TypeFacts
  <2>2. CASE cut = {conf}
    BY <1>0, <2>2 DEF KeptInv
  <2> QED
    BY <1>0, <2>1, <2>2 DEF KeptInv
<1> QED
  BY <1>1, <1>2, <1>3, <1>4, <1>5
-----------------------------------------------------------------------------
(* The switch                                                              *)

\* An old shard may go, or be left as a part of itself: all its rows are in the
\* new databases.
LEMMA OldShardMayGo ==
    ASSUME IInv, pc = "remove", NEW d \in Indexes, d < old,
           NEW left, \A k \in Rows : ~Holds(left, k),
           NEW new, new = [shard EXCEPT ![d] = left]
    PROVE  /\ \A k \in Saved : \E i \in Indexes : Holds(new[i], k) \/ Holds(tmp[i], k)
           /\ \A i \in Indexes, k \in Rows :
                  Holds(new[i], k) => new[i] = shard[i] /\ Holds(shard[i], k)
           /\ ~astray => \A k \in Saved : Found(new, conf, k) \/ Found(tmp, conf, k)
<1> USE DEF IInv
<1>1. \A i \in Indexes : new[i] = IF i = d THEN left ELSE shard[i]
  BY TypeFacts DEF Dirs
<1>2. d \in 0..(old - 1)
  BY Numbers, TypeFacts
<1>3. \A k \in Rows : Holds(shard[d], k) => Found(tmp, conf, k)
  BY <1>2 DEF CopiedInv
<1>4. \A i \in Indexes, k \in Rows : Holds(new[i], k) => new[i] = shard[i] /\ Holds(shard[i], k)
  BY <1>1
<1>5. \A k \in Saved : \E i \in Indexes : Holds(new[i], k) \/ Holds(tmp[i], k)
  <2> SUFFICES ASSUME NEW k \in Saved PROVE \E i \in Indexes : Holds(new[i], k) \/ Holds(tmp[i], k)
    OBVIOUS
  <2>1. PICK i \in Indexes : Holds(shard[i], k) \/ Holds(tmp[i], k)
    BY DEF NothingLost
  <2>2. CASE Holds(shard[i], k) /\ i = d
    BY <1>3, <2>2, Numbers, TypeFacts DEF Found
  <2> QED
    BY <1>1, <2>1, <2>2
<1>6. ASSUME ~astray, NEW k \in Saved
      PROVE  Found(new, conf, k) \/ Found(tmp, conf, k)
  <2>1. Found(shard, conf, k) \/ Found(tmp, conf, k)
    BY <1>6 DEF KeptInv, Switching
  <2> SUFFICES ASSUME Found(shard, conf, k) PROVE Found(new, conf, k) \/ Found(tmp, conf, k)
    BY <2>1
  <2>2. PICK i \in 0..(conf.num - 1) :
            Holds(shard[i], k) /\ (Agree(k) => i = Route[conf.num][conf.slat][k])
    BY DEF Found
  <2>3. CASE i = d
    BY <1>3, <2>2, <2>3, TypeFacts
  <2>4. CASE i # d
    <3>1. Holds(new[i], k)
      BY <1>1, <2>2, <2>4, Numbers, TypeFacts
    <3> QED
      BY <2>2, <3>1 DEF Found
  <2> QED
    BY <2>3, <2>4
<1> QED
  BY <1>4, <1>5, <1>6

\* An old shard that is removed, in whole or in part, has its rows in new ones.
LEMMA RemoveOldIInv == IInv /\ RemoveOld => IInv'
<1> SUFFICES ASSUME IInv, RemoveOld PROVE IInv'
  OBVIOUS
<1> USE DEF IInv
<1>0. /\ pc = "remove"
      /\ UNCHANGED <<tmp, meta, conf, old, unread, queued, returned, saved, split, cut, astray, crashes>>
  BY DEF RemoveOld, history
<1>a. Saved' = Saved
  BY <1>0 DEF Saved
<1>1. CASE step < old
  <2>0. pc' = "remove" /\ shard' = [shard EXCEPT ![step] = NoDir] /\ step' = step + 1
    BY <1>0, <1>1 DEF RemoveOld
  <2>1. step \in Indexes /\ step' \in 0..Max(Nums)
    BY <1>1, <2>0, Numbers DEF TypeOK, Indexes
  <2>2. \A k \in Rows : ~Holds(NoDir, k)
    BY DEF Holds
  <2>3. /\ \A k \in Saved : \E i \in Indexes : Holds(shard'[i], k) \/ Holds(tmp[i], k)
        /\ \A i \in Indexes, k \in Rows :
               Holds(shard'[i], k) => shard'[i] = shard[i] /\ Holds(shard[i], k)
        /\ ~astray => \A k \in Saved : Found(shard', conf, k) \/ Found(tmp, conf, k)
    BY <1>0, <1>1, <2>0, <2>1, <2>2, OldShardMayGo
  <2>4. TypeOK'
    BY <1>0, <2>0, <2>1 DEF TypeOK
  <2>5. NothingLost' /\ MovedInv'
    BY <1>0, <1>a, <2>0, <2>3 DEF NothingLost, MovedInv
  <2>6. NothingStale'
    BY <1>0, <2>3 DEF NothingStale
  <2>7. PhaseInv'
    BY <1>0, <2>0 DEF PhaseInv, CheckDBBaseData, Switching
  <2>8. CopiedInv'
    <3>1. \A i \in Indexes, k \in Rows : <<i, k>> \notin unread \cup queued
      BY <1>0 DEF PhaseInv
    <3>2. \A i \in 0..(old - 1), k \in Rows : Holds(shard'[i], k) => Found(tmp, conf, k)
      BY <1>0, <2>3, Numbers, TypeFacts DEF CopiedInv
    <3> QED
      BY <1>0, <2>0, <3>1, <3>2 DEF CopiedInv, Found
  <2>9. KeptInv'
    BY <1>0, <1>a, <2>0, <2>3 DEF KeptInv, Found
  <2> QED
    BY <2>4, <2>5, <2>6, <2>7, <2>8, <2>9
<1>2. CASE ~(step < old)
  <2>0. pc' = "rename" /\ step' = 0 /\ shard' = shard
    BY <1>0, <1>2 DEF RemoveOld
  <2>1. TypeOK'
    BY <1>0, <2>0, Numbers DEF TypeOK, Switching
  <2>2. NothingLost' /\ NothingStale' /\ CopiedInv'
    BY <1>0, <2>0 DEF NothingLost, NothingStale, CopiedInv, Saved
  <2>3. MovedInv'
    BY <1>0, <2>0, Numbers, TypeFacts DEF MovedInv
  <2>4. PhaseInv'
    BY <1>0, <2>0 DEF PhaseInv, CheckDBBaseData, Switching
  <2>5. KeptInv'
    BY <1>0, <1>a, <2>0 DEF KeptInv, Found, Switching
  <2> QED
    BY <2>1, <2>2, <2>3, <2>4, <2>5
<1> QED
  BY <1>1, <1>2

\* A new database takes a name that is free, with all its rows.
LEMMA SwitchNewIInv == IInv /\ SwitchNew => IInv'
<1> SUFFICES ASSUME IInv, SwitchNew PROVE IInv'
  OBVIOUS
<1> USE DEF IInv
<1>0. /\ pc = "rename"
      /\ UNCHANGED <<meta, conf, old, unread, queued, returned, saved, split, cut, astray, crashes>>
  BY DEF SwitchNew, history
<1>a. Saved' = Saved
  BY <1>0 DEF Saved
<1>1. CASE step < conf.num
  <2>0. /\ pc' = "rename" /\ shard[step] = NoDir /\ shard' = [shard EXCEPT ![step] = tmp[step]]
        /\ tmp' = [tmp EXCEPT ![step] = NoDir] /\ step' = step + 1
    BY <1>0, <1>1 DEF SwitchNew
  <2>1. step \in Indexes /\ step \in 0..(conf.num - 1) /\ step' \in 0..Max(Nums)
    BY <1>1, <2>0, Numbers, TypeFacts DEF TypeOK, Indexes
  <2>2. \A i \in Indexes : /\ shard'[i] = IF i = step THEN tmp[step] ELSE shard[i]
                           /\ tmp'[i] = IF i = step THEN NoDir ELSE tmp[i]
    BY <2>0, <2>1, TypeFacts DEF Dirs
  <2>3. \A i \in Indexes, k \in Rows :
            Holds(shard[i], k) \/ Holds(tmp[i], k) => Holds(shard'[i], k) \/ Holds(tmp'[i], k)
    <3> SUFFICES ASSUME NEW i \in Indexes, NEW k \in Rows, Holds(shard[i], k) \/ Holds(tmp[i], k)
                 PROVE  Holds(shard'[i], k) \/ Holds(tmp'[i], k)
      OBVIOUS
    <3>1. CASE i = step
      <4>1. ~Holds(shard[i], k)
        BY <2>0, <3>1 DEF Holds
      <4> QED
        BY <2>2, <3>1, <4>1
    <3>2. CASE i # step
      BY <2>2, <3>2
    <3> QED
      BY <3>1, <3>2
  <2>4. TypeOK'
    BY <1>0, <2>0, <2>1 DEF TypeOK
  <2>5. NothingLost'
    BY <1>0, <1>a, <2>3, TypeFacts DEF NothingLost
  <2>6. NothingStale'
    <3> SUFFICES ASSUME NEW k \in Rows \ split, NEW i \in Indexes
                 PROVE  /\ Holds(shard'[i], k) => shard'[i][k] = saved[k]
                        /\ Holds(tmp'[i], k) => tmp'[i][k] = saved[k]
      BY <1>0 DEF NothingStale
    <3>1. ~Holds(NoDir, k)
      BY DEF Holds
    <3>2. CASE i = step
      BY <2>2, <3>1, <3>2 DEF NothingStale
    <3>3. CASE i # step
      BY <2>2, <3>3 DEF NothingStale
    <3> QED
      BY <3>2, <3>3
  <2>7. MovedInv'
    BY <1>0, <2>0, <2>1, <2>2, Numbers, TypeFacts DEF MovedInv, TypeOK
  <2>8. PhaseInv'
    BY <1>0, <2>0 DEF PhaseInv, CheckDBBaseData, Switching
  <2>9. CopiedInv'
    BY <1>0, <2>0 DEF CopiedInv, PhaseInv
  <2>10. KeptInv'
    <3> SUFFICES ASSUME ~astray, NEW k \in Saved
                 PROVE  Found(shard', conf, k) \/ Found(tmp', conf, k)
      BY <1>0, <1>a, <2>0 DEF KeptInv, Found, Switching
    <3>1. Found(shard, conf, k) \/ Found(tmp, conf, k)
      BY <1>0 DEF KeptInv, Switching
    <3> QED
      BY <2>3, <3>1, Numbers, TypeFacts DEF Found
  <2> QED
    BY <2>4, <2>5, <2>6, <2>7, <2>8, <2>9, <2>10
<1>2. CASE ~(step < conf.num)
  <2>0. pc' = "meta_num" /\ UNCHANGED <<shard, tmp, step>>
    BY <1>0, <1>2 DEF SwitchNew
  <2>1. TypeOK'
    BY <1>0, <2>0 DEF TypeOK, Switching
  <2>2. NothingLost' /\ NothingStale' /\ CopiedInv'
    BY <1>0, <2>0 DEF NothingLost, NothingStale, CopiedInv, Saved
  <2>3. MovedInv'
    BY <1>0, <1>2, <2>0, TypeFacts DEF MovedInv, TypeOK
  <2>4. PhaseInv'
    BY <1>0, <2>0 DEF PhaseInv, CheckDBBaseData, Switching
  <2>5. KeptInv'
    BY <1>0, <1>a, <2>0 DEF KeptInv, Found, Switching
  <2> QED
    BY <2>1, <2>2, <2>3, <2>4, <2>5
<1> QED
  BY <1>1, <1>2

\* A switch that throws stays where it is for the next start to find.
LEMMA SwitchThrowsIInv == IInv /\ SwitchThrows => IInv'
<1> SUFFICES ASSUME IInv, SwitchThrows PROVE IInv'
  OBVIOUS
<1> USE DEF IInv
<1>0. /\ pc = "rename" /\ pc' = "down" /\ conf' = NoConf /\ old' = 0 /\ step' = 0
      /\ unread' = {} /\ queued' = {} /\ returned' = FALSE /\ cut' = {conf}
      /\ UNCHANGED <<shard, tmp, meta, saved, split, astray, crashes>>
  BY DEF SwitchThrows, Down, disk
<1>a. ~CheckDBBaseData(conf) /\ conf \in Confs
  BY <1>0 DEF PhaseInv, Switching
<1>1. TypeOK'
  BY <1>0, <1>a, Numbers DEF TypeOK, NoConf
<1>2. NothingLost' /\ NothingStale' /\ MovedInv' /\ CopiedInv'
  BY <1>0 DEF NothingLost, NothingStale, MovedInv, CopiedInv, Saved
<1>3. PhaseInv'
  BY <1>0 DEF PhaseInv, Switching
<1>4. KeptInv'
  BY <1>0, <1>a DEF KeptInv, Found, Saved, Switching, CheckDBBaseData
<1> QED
  BY <1>1, <1>2, <1>3, <1>4

\* Writing the number of shards makes the new ones those of the meta data.
LEMMA PutSharedNumIInv == IInv /\ PutSharedNum => IInv'
<1> SUFFICES ASSUME IInv, PutSharedNum PROVE IInv'
  OBVIOUS
<1> USE DEF IInv
<1>0. /\ pc = "meta_num" /\ pc' = "meta_slat" /\ meta' = [meta EXCEPT !.num = conf.num]
      /\ UNCHANGED <<shard, tmp, conf, old, step, unread, queued, returned, saved, split, cut, astray,
                     crashes>>
  BY DEF PutSharedNum, copying, history
<1>1. TypeOK'
  BY <1>0, TypeFacts DEF TypeOK, Switching
<1>2. NothingLost' /\ NothingStale' /\ MovedInv' /\ CopiedInv'
  BY <1>0 DEF NothingLost, NothingStale, MovedInv, CopiedInv, Saved
<1>3. PhaseInv'
  BY <1>0, TypeFacts DEF PhaseInv, Switching, AnyConf
<1>4. KeptInv'
  BY <1>0 DEF KeptInv, Found, Saved, Switching
<1> QED
  BY <1>1, <1>2, <1>3, <1>4

\* The new databases have their names and nothing is under the other ones: what
\* is opened has every row.
LEMMA PutSharedHashSlatIInv == IInv /\ PutSharedHashSlat => IInv'
<1> SUFFICES ASSUME IInv, PutSharedHashSlat PROVE IInv'
  OBVIOUS
<1> USE DEF IInv
<1>0. /\ pc = "meta_slat" /\ pc' = "serving" /\ meta' = [meta EXCEPT !.slat = conf.slat]
      /\ shard' = CreateDBToc(shard, conf.num) /\ old' = 0 /\ step' = 0 /\ cut' = {}
      /\ UNCHANGED <<tmp, conf, unread, queued, returned, saved, split, astray, crashes>>
  BY DEF PutSharedHashSlat, StartRocksDb
<1>a. \A i \in Indexes, k \in Rows : /\ Holds(shard'[i], k) <=> Holds(shard[i], k)
                                     /\ Holds(shard[i], k) => shard'[i] = shard[i]
  BY <1>0, TypeFacts, CreateDBTocKeeps
<1>b. Saved' = Saved
  BY <1>0 DEF Saved
<1>1. TypeOK'
  <2>1. shard' \in Dirs
    BY <1>0, TypeFacts, CreateDBTocKeeps
  <2> QED
    BY <1>0, <2>1, Numbers DEF TypeOK, Dirs
<1>2. NothingLost'
  BY <1>0, <1>a, <1>b, TypeFacts DEF NothingLost
<1>3. NothingStale'
  BY <1>0, <1>a DEF NothingStale
<1>4. PhaseInv'
  <2>1. \A i \in 0..(conf.num - 1) : shard'[i] # NoDir
    BY <1>0, TypeFacts, CreateDBTocKeeps
  <2>2. meta'.num = conf.num /\ meta'.slat = conf.slat
    BY <1>0, TypeFacts DEF PhaseInv, AnyConf
  <2> QED
    BY <1>0, <2>1, <2>2 DEF PhaseInv, Switching
<1>5. MovedInv' /\ CopiedInv'
  BY <1>0 DEF MovedInv, CopiedInv, PhaseInv
<1>6. KeptInv'
  <2> SUFFICES ASSUME ~astray, NEW k \in Saved PROVE Found(shard', conf, k)
    BY <1>0, <1>b DEF KeptInv, Found, Switching
  <2>1. Found(shard, conf, k) \/ Found(tmp, conf, k)
    BY <1>0 DEF KeptInv, Switching
  <2>2. ~Found(tmp, conf, k)
    BY <1>0 DEF MovedInv, Found, Holds
  <2> QED
    BY <1>a, <2>1, <2>2, TypeFacts, FoundStays
<1> QED
  BY <1>1, <1>2, <1>3, <1>4, <1>5, <1>6
-----------------------------------------------------------------------------
(* Service and crashes                                                     *)

\* A request works on one shard, which is open, and leaves no copy it does not
\* know of.
LEMMA PutIInv ==
    ASSUME IInv, NEW k \in Rows, NEW content \in Contents \cup {NoRow}, Put(k, content)
    PROVE  IInv'
<1> USE DEF IInv
<1>c. pc = "serving" /\ conf \in Confs /\ conf.num > 0
  BY DEF Put, PhaseInv
<1>h. Route[conf.num][conf.slat][k] \in 0..(conf.num - 1)
  <2>1. conf.num \in Nums \ {0} /\ conf.slat \in Slats
    BY <1>c DEF Confs
  <2> QED
    BY <2>1, RemapAssumption
<1> PICK p \in 0..(conf.num - 1) : p = Route[conf.num][conf.slat][k]
  BY <1>h
<1>0. /\ shard[p] # Broken
      /\ shard' = [shard EXCEPT ![p] = [@ EXCEPT ![k] = content]]
      /\ saved' = [saved EXCEPT ![k] = content]
      /\ split' = IF CopyElsewhere(k) THEN split \cup {k} ELSE split
      /\ UNCHANGED <<tmp, meta, pc, conf, old, step, unread, queued, returned, cut, astray, crashes>>
  BY DEF Put, DBLoopExec, copying
<1>a. p \in Indexes /\ shard[p] \in Databases
  BY <1>0, <1>c, Numbers, TypeFacts DEF PhaseInv, Dirs
<1>b. /\ shard' \in Dirs /\ shard'[p] \in Databases
      /\ shard'[p][k] = content /\ \A r \in Rows : r # k => shard'[p][r] = shard[p][r]
      /\ \A j \in Indexes : j # p => shard'[j] = shard[j]
  <2>1. [shard[p] EXCEPT ![k] = content] \in Databases
    BY <1>a DEF Databases
  <2>2. /\ [shard[p] EXCEPT ![k] = content][k] = content
        /\ \A r \in Rows : r # k => [shard[p] EXCEPT ![k] = content][r] = shard[p][r]
    BY <1>a DEF Databases
  <2>3. /\ shard'[p] = [shard[p] EXCEPT ![k] = content]
        /\ \A j \in Indexes : j # p => shard'[j] = shard[j]
    BY <1>0, <1>a, TypeFacts DEF Dirs
  <2>4. shard' \in Dirs
    BY <1>0, <1>a, <2>1, TypeFacts DEF Dirs
  <2> QED
    BY <2>1, <2>2, <2>3, <2>4
<1>d. \A i \in Indexes, r \in Rows : r # k => (Holds(shard[i], r) <=> Holds(shard'[i], r))
  <2> SUFFICES ASSUME NEW r \in Rows, r # k
               PROVE  Holds(shard[p], r) <=> Holds(shard'[p], r)
    BY <1>b
  <2>1. Holds(shard[p], r) <=> shard[p][r] # NoRow
    BY <1>a, HoldsRow
  <2>2. Holds(shard'[p], r) <=> shard'[p][r] # NoRow
    BY <1>b, HoldsRow
  <2> QED
    BY <1>b, <2>1, <2>2
<1>e. Holds(shard'[p], k) <=> content # NoRow
  BY <1>b, HoldsRow
<1>f. /\ saved' \in Databases /\ saved'[k] = content /\ \A r \in Rows : r # k => saved'[r] = saved[r]
      /\ k \in Saved' <=> content # NoRow
      /\ \A r \in Saved' : r \in Rows /\ (r # k => r \in Saved)
  <2>1. saved' \in Databases /\ saved'[k] = content /\ \A r \in Rows : r # k => saved'[r] = saved[r]
    BY <1>0, TypeFacts DEF Databases
  <2> QED
    BY <2>1 DEF Saved
<1>1. TypeOK'
  <2>1. shard' \in [Indexes -> Databases \cup {NoDir, Broken}]
    BY <1>b DEF Dirs
  <2>2. split' \subseteq Rows
    BY <1>0 DEF TypeOK
  <2>3. saved' \in Databases
    BY <1>f
  <2>4. UNCHANGED <<tmp, meta, pc, conf, old, step, unread, queued, returned, cut, astray, crashes>>
    BY <1>0
  <2> QED
    BY <2>1, <2>2, <2>3, <2>4 DEF TypeOK
<1>2. NothingLost'
  <2> SUFFICES ASSUME NEW r \in Saved'
               PROVE  \E i \in Indexes : Holds(shard'[i], r) \/ Holds(tmp[i], r)
    BY <1>0 DEF NothingLost
  <2>1. CASE r = k
    BY <1>a, <1>e, <1>f, <2>1
  <2>2. CASE r # k
    BY <1>d, <1>f, <2>2 DEF NothingLost
  <2> QED
    BY <2>1, <2>2
<1>3. NothingStale'
  <2> SUFFICES ASSUME NEW r \in Rows \ split', NEW i \in Indexes
               PROVE  /\ Holds(shard'[i], r) => shard'[i][r] = saved'[r]
                      /\ Holds(tmp[i], r) => tmp[i][r] = saved'[r]
    BY <1>0 DEF NothingStale
  <2>1. r \notin split
    BY <1>0
  <2>2. CASE r = k
    <3>1. ~CopyElsewhere(k)
      BY <1>0, <2>2
    <3>2. ~Holds(tmp[i], k) /\ (i # p => ~Holds(shard[i], k))
      BY <3>1 DEF CopyElsewhere, DBLoopExec
    <3>3. CASE i = p
      BY <1>b, <1>f, <2>2, <3>2, <3>3
    <3>4. CASE i # p
      BY <1>b, <2>2, <3>2, <3>4
    <3> QED
      BY <3>3, <3>4
  <2>3. CASE r # k
    <3>1. saved'[r] = saved[r]
      BY <1>f, <2>3
    <3>2. Holds(shard'[i], r) => shard'[i][r] = shard[i][r] /\ Holds(shard[i], r)
      BY <1>b, <1>d, <2>3
    <3> QED
      BY <2>1, <3>1, <3>2 DEF NothingStale
  <2> QED
    BY <2>2, <2>3
<1>4. PhaseInv'
  <2>1. \A i \in 0..(conf.num - 1) : shard'[i] # NoDir
    <3> SUFFICES ASSUME NEW i \in 0..(conf.num - 1) PROVE shard'[i] # NoDir
      OBVIOUS
    <3>1. CASE i = p
      BY <1>b, <3>1, HoldsRow
    <3>2. CASE i # p
      BY <1>b, <1>c, <3>2, Numbers, TypeFacts DEF PhaseInv
    <3> QED
      BY <3>1, <3>2
  <2> QED
    BY <1>0, <1>c, <2>1 DEF PhaseInv
<1>5. MovedInv' /\ CopiedInv'
  BY <1>0, <1>c DEF MovedInv, CopiedInv, PhaseInv
<1>6. KeptInv'
  <2> SUFFICES ASSUME ~astray, NEW r \in Saved' PROVE Found(shard', conf, r)
    BY <1>0, <1>c DEF KeptInv, Found, Switching
  <2>1. CASE r = k
    <3>1. Holds(shard'[p], k)
      BY <1>e, <1>f, <2>1
    <3> QED
      BY <2>1, <3>1 DEF Found
  <2>2. CASE r # k
    <3>1. PICK i \in 0..(conf.num - 1) :
              Holds(shard[i], r) /\ (Agree(r) => i = Route[conf.num][conf.slat][r])
      BY <1>c, <1>f, <2>2 DEF KeptInv, Found
    <3>2. Holds(shard'[i], r)
      BY <1>d, <1>f, <2>2, <3>1, Numbers, TypeFacts
    <3> QED
      BY <3>1, <3>2 DEF Found
  <2> QED
    BY <2>1, <2>2
<1> QED
  BY <1>1, <1>2, <1>3, <1>4, <1>5, <1>6

\* A process that goes down outside of a remap leaves all rows on the disk.
LEMMA AfterStopIInv ==
    ASSUME IInv, AfterStop \/ \E k \in Rows : NoThreadRocksDB(k)
    PROVE  IInv'
<1> USE DEF IInv
<1>0. /\ pc \in {"serving", "idle"} /\ pc' = "down" /\ conf' = NoConf /\ old' = 0 /\ step' = 0
      /\ unread' = {} /\ queued' = {} /\ returned' = FALSE
      /\ UNCHANGED <<shard, tmp, meta, saved, split, cut, astray, crashes>>
  BY DEF AfterStop, NoThreadRocksDB, Down, disk, history
<1>1. TypeOK'
  BY <1>0, Numbers DEF TypeOK, NoConf
<1>2. NothingLost' /\ NothingStale' /\ MovedInv' /\ CopiedInv'
  BY <1>0 DEF NothingLost, NothingStale, MovedInv, CopiedInv, Saved
<1>3. PhaseInv'
  BY <1>0 DEF PhaseInv, Switching
<1>4. KeptInv'
  <2>1. CASE pc = "serving"
    <3>1. cut = {} /\ meta.num = conf.num /\ meta.slat = conf.slat
      BY <2>1 DEF PhaseInv
    <3> QED
      BY <1>0, <2>1, <3>1 DEF KeptInv, Found, Saved, Switching
  <2>2. CASE pc = "idle"
    BY <1>0, <2>2 DEF KeptInv, Found, Saved, Switching, CheckDBBaseData
  <2> QED
    BY <1>0, <2>1, <2>2
<1> QED
  BY <1>1, <1>2, <1>3, <1>4

\* A crash forgets what was read; the disk stays, but for the directory that
\* was being removed.
LEMMA CrashIInv == IInv /\ Crash => IInv'
<1> SUFFICES ASSUME IInv, Crash PROVE IInv'
  OBVIOUS
<1> USE DEF IInv
<1>0. /\ pc \notin {"down", "serving", "idle"} /\ pc' = "down" /\ conf' = NoConf /\ old' = 0
      /\ crashes' = crashes + 1 /\ crashes < MaxCrashes
      /\ cut' = (IF pc \in Switching THEN {conf} ELSE cut)
      /\ step' = 0 /\ unread' = {} /\ queued' = {} /\ returned' = FALSE
      /\ UNCHANGED <<tmp, meta, saved, split, astray>>
  BY DEF Crash, Down
<1>a. pc = "copy" \/ pc \in Switching
  BY <1>0 DEF TypeOK
<1>b. Saved' = Saved
  BY <1>0 DEF Saved
<1>c. conf \in Confs
  BY <1>a DEF PhaseInv
<1>d. /\ shard' \in Dirs
      /\ \A k \in Saved : \E i \in Indexes : Holds(shard'[i], k) \/ Holds(tmp[i], k)
      /\ \A i \in Indexes, k \in Rows :
             Holds(shard'[i], k) => shard'[i] = shard[i] /\ Holds(shard[i], k)
      /\ pc = "copy" => shard' = shard
      /\ ~astray /\ pc \in Switching =>
             \A k \in Saved : Found(shard', conf, k) \/ Found(tmp, conf, k)
  <2>1. CASE shard' = shard
    BY <2>1, TypeFacts DEF NothingLost, KeptInv
  <2>2. CASE shard' # shard
    <3>1. PICK left \in {Empty, Broken} : shard' = [shard EXCEPT ![step] = left]
      BY <2>2 DEF Crash
    <3>2. pc = "remove" /\ step < old
      BY <2>2 DEF Crash
    <3>3. step \in Indexes
      BY <3>2, Numbers DEF TypeOK, Indexes
    <3>4. \A k \in Rows : ~Holds(left, k)
      BY <3>1, EmptyDatabase DEF Holds
    <3>5. /\ \A k \in Saved : \E i \in Indexes : Holds(shard'[i], k) \/ Holds(tmp[i], k)
          /\ \A i \in Indexes, k \in Rows :
                 Holds(shard'[i], k) => shard'[i] = shard[i] /\ Holds(shard[i], k)
          /\ ~astray => \A k \in Saved : Found(shard', conf, k) \/ Found(tmp, conf, k)
      BY <3>1, <3>2, <3>3, <3>4, OldShardMayGo
    <3>6. shard' \in Dirs
      BY <3>1, <3>3, EmptyDatabase, TypeFacts DEF Dirs
    <3> QED
      BY <3>2, <3>5, <3>6
  <2> QED
    BY <2>1, <2>2
<1>1. TypeOK'
  <2>1. crashes' \in 0..MaxCrashes
    BY <1>0, RemapAssumption DEF TypeOK
  <2>2. cut' \in {{}} \cup {{c} : c \in Confs}
    BY <1>0, <1>c, TypeFacts
  <2> QED
    BY <1>0, <1>d, <2>1, <2>2, Numbers DEF TypeOK, NoConf, Dirs
<1>2. NothingLost' /\ MovedInv' /\ CopiedInv'
  BY <1>0, <1>b, <1>d DEF NothingLost, MovedInv, CopiedInv
<1>3. NothingStale'
  BY <1>0, <1>d DEF NothingStale
<1>4. PhaseInv'
  BY <1>0 DEF PhaseInv, Switching
<1>5. KeptInv'
  <2> SUFFICES ASSUME ~astray
               PROVE  /\ cut' = {} => \A k \in Saved : Found(shard', meta, k)
                      /\ \A c \in cut' : \A k \in Saved : Found(shard', c, k) \/ Found(tmp, c, k)
                      /\ \A c \in cut' : CheckDBBaseData(c) => \A i \in 0..(c.num - 1) : tmp[i] = NoDir
    BY <1>0, <1>b, SMTT(30) DEF KeptInv, Found, CheckDBBaseData, Switching
  <2>1. CASE pc = "copy"
    <3>1. cut' = cut /\ shard' = shard /\ cut \in {{}, {conf}} /\ ~CheckDBBaseData(conf)
      BY <1>0, <1>d, <2>1 DEF Switching, KeptInv, PhaseInv
    <3> QED
      BY <2>1, <3>1 DEF KeptInv
  <2>2. CASE pc \in Switching
    <3>1. cut' = {conf}
      BY <1>0, <2>2
    <3>2. CheckDBBaseData(conf) => pc = "meta_slat"
      BY <2>2 DEF Switching, PhaseInv
    <3> QED
      BY <1>d, <2>2, <3>1, <3>2 DEF MovedInv
  <2> QED
    BY <1>a, <2>1, <2>2
<1> QED
  BY <1>1, <1>2, <1>3, <1>4, <1>5
-----------------------------------------------------------------------------
\* Every step, crashes included, keeps the inductive invariant.
LEMMA NextIInv == IInv /\ [Next]_vars => IInv'
<1> SUFFICES ASSUME IInv, [Next]_vars PROVE IInv'
  OBVIOUS
<1>1. CASE Start
  BY <1>1, InitRocksDbIInv, RemapRefusedIInv, RemapDBDataIInv DEF Start
<1>2. CASE Remap
  BY <1>2, ReadRowIInv, PutRowIInv, RemapAbortsIInv, ReadDoneIInv, CopyDoneIInv, RemoveOldIInv,
     SwitchNewIInv, SwitchThrowsIInv, PutSharedNumIInv, PutSharedHashSlatIInv DEF Remap
<1>3. CASE Request
  BY <1>3, PutIInv, AfterStopIInv DEF Request, MessageUpdate, MessageDelete
<1>4. CASE AfterStop
  BY <1>4, AfterStopIInv
<1>5. CASE Crash
  BY <1>5, CrashIInv
<1>6. CASE UNCHANGED vars
  <2>0. UNCHANGED <<shard, tmp, meta, pc, conf, old, step, unread, queued, returned, saved, split,
                    cut, astray, crashes>>
    BY <1>6 DEF vars, disk, copying, history
  <2>1. TypeOK' /\ NothingLost' /\ NothingStale'
    BY <2>0 DEF IInv, TypeOK, NothingLost, NothingStale, Saved
  <2>2. PhaseInv' /\ MovedInv'
    BY <2>0 DEF IInv, PhaseInv, MovedInv, CheckDBBaseData
  <2>3. CopiedInv'
    BY <2>0 DEF IInv, CopiedInv, Found
  <2>4. KeptInv'
    BY <2>0 DEF IInv, KeptInv, Found, Saved, CheckDBBaseData
  <2> QED
    BY <2>1, <2>2, <2>3, <2>4 DEF IInv
<1> QED
  BY <1>1, <1>2, <1>3, <1>4, <1>5, <1>6 DEF Next

\* Every variable has its type in every reachable state.
THEOREM TypeCorrect == Spec => []TypeOK
<1>1. IInv => TypeOK
  BY DEF IInv
<1> QED
  BY InitIInv, NextIInv, <1>1, PTL DEF Spec

\* RemapDBDataAndStart: wherever a remap is cut short, in whatever order the copies
\* of a row are read and put, and whatever configuration the process is started with
\* after it, every row that was saved is in some directory on the disk.
THEOREM NoRowIsLost == Spec => []NothingLost
<1>1. IInv => NothingLost
  BY DEF IInv
<1> QED
  BY InitIInv, NextIInv, <1>1, PTL DEF Spec

\* RemapDBDataAndStart: every copy on the disk of a row that was never changed while
\* a copy of it lay elsewhere has the content saved last.
THEOREM NoCopyIsStale == Spec => []NothingStale
<1>1. IInv => NothingStale
  BY DEF IInv
<1> QED
  BY InitIInv, NextIInv, <1>1, PTL DEF Spec

\* InitRocksDb: a process that serves has every saved row in a shard it has opened,
\* where its requests look if the checksums agree on it, and as it was saved last if
\* it is not split, unless it was started with another configuration after a cut
\* switch.
THEOREM ServingHasAll == Spec => []ServesAll
<1>1. IInv => ServesAll
  <2> SUFFICES ASSUME IInv, pc = "serving", ~astray, NEW k \in Saved
               PROVE  \E i \in 0..(conf.num - 1) :
                          /\ Holds(shard[i], k)
                          /\ Agree(k) => i = DBLoopExec(k)
                          /\ k \notin split => shard[i][k] = saved[k]
    BY DEF ServesAll
  <2>1. PICK i \in 0..(conf.num - 1) :
            Holds(shard[i], k) /\ (Agree(k) => i = Route[conf.num][conf.slat][k])
    BY DEF IInv, KeptInv, Found
  <2>2. i \in Indexes /\ k \in Rows
    BY Numbers, TypeFacts DEF IInv
  <2> QED
    BY <2>1, <2>2 DEF IInv, NothingStale, DBLoopExec
<1> QED
  BY InitIInv, NextIInv, <1>1, PTL DEF Spec
=============================================================================
