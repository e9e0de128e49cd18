------------------------ MODULE StorageAndGateProofs ------------------------
(***************************************************************************)
(* Proofs about the lock on disk, the blob cache and the gate, for all     *)
(* values of the constants and any number of faults.                       *)
(***************************************************************************)
EXTENDS WorkspaceStorage, WorkspaceGates, Sequences, TLAPS

----------------------------------------------------------------------------
(* The blob cache *)

LoaderStates ==
  [pc : {"wait", "lstat", "open", "fetch", "origin", "install", "loaded", "failed"}, inode : Nat,
   from : {"cache", "store", "origin"}, temporary : {"none", "good", "bad"}, got : {"none", "good", "bad", "absent"}]

CacheType ==
  /\ setup \in [store : BOOLEAN, origin : BOOLEAN, checksums : BOOLEAN]
  /\ file \in [bytes : {"absent", "good", "bad"}, inode : Nat]
  /\ worker \in [Loaders -> LoaderStates]
  /\ object \in {"absent", "good", "foreign"}

(* The store is asked only when there is one.  Without one a goroutine     *)
(* turns to the origin only for a blob that was absent, and stays at it    *)
(* only while that is so or another has installed the file.                *)
FetchInv ==
  \A w \in Loaders :
    /\ worker[w].pc = "fetch" => setup.store
    /\ worker[w].pc \in {"origin", "install"} /\ ~setup.store => file.bytes = "absent" \/ file.inode > 0

CacheInv == CacheType /\ Cache!OnlyLockedBytes /\ FetchInv

(* What moving one goroutine does to it, and to the others.                *)
LEMMA LoaderGoes ==
  ASSUME worker \in [Loaders -> LoaderStates], NEW w \in Loaders, NEW x, Cache!Go(w, x)
  PROVE  /\ worker'[w] = [worker[w] EXCEPT !.pc = x] /\ worker'[w].pc = x /\ worker'[w].got = worker[w].got
         /\ \A v \in Loaders \ {w} : worker'[v] = worker[v]
         /\ x \in {"lstat", "open", "fetch", "origin", "install", "failed"} => worker' \in [Loaders -> LoaderStates]
<1>1. worker' = [worker EXCEPT ![w] = [worker[w] EXCEPT !.pc = x]]
  BY DEF Cache!Go
<1>2. worker[w] \in LoaderStates
  OBVIOUS
<1>3. [worker[w] EXCEPT !.pc = x].pc = x /\ [worker[w] EXCEPT !.pc = x].got = worker[w].got
  BY <1>2 DEF LoaderStates
<1>4. x \in {"lstat", "open", "fetch", "origin", "install", "failed"} => [worker[w] EXCEPT !.pc = x] \in LoaderStates
  BY <1>2 DEF LoaderStates
<1> QED
  BY <1>1, <1>3, <1>4

(* A step that moves one goroutine, which is not given bytes, and leaves   *)
(* the cache and the store.                                                *)
LEMMA CacheMoves ==
  ASSUME CacheInv, NEW w \in Loaders, NEW x \in {"lstat", "open", "fetch", "origin", "install", "failed"},
         worker' \in [Loaders -> LoaderStates], worker'[w].pc = x, \A v \in Loaders \ {w} : worker'[v] = worker[v],
         x = "fetch" => setup.store,
         x \in {"origin", "install"} /\ ~setup.store => file.bytes = "absent" \/ file.inode > 0,
         UNCHANGED <<setup, file, object, putter>>
  PROVE  CacheInv'
<1>1. CacheType'
  BY DEF CacheInv, CacheType
<1>2. Cache!OnlyLockedBytes'
  BY DEF CacheInv, Cache!OnlyLockedBytes
<1>3. FetchInv'
  BY DEF CacheInv, FetchInv
<1> QED
  BY <1>1, <1>2, <1>3 DEF CacheInv

(* What an error of LoadBlob leads to.                                     *)
LEMMA AfterLoadGoes ==
  ASSUME CacheType, NEW w \in Loaders, NEW absent \in BOOLEAN
  PROVE  /\ Cache!AfterLoad(w, absent) \in {"fetch", "origin", "failed"}
         /\ Cache!AfterLoad(w, absent) = "fetch" => setup.store
         /\ Cache!AfterLoad(w, absent) = "origin" => absent /\ ~setup.store
<1>1. setup.store \in BOOLEAN /\ setup.origin \in BOOLEAN
  BY DEF CacheType
<1> QED
  BY <1>1 DEF Cache!AfterLoad, Cache!HasStore, Cache!HasOrigin

(* The store starts with nothing loaded.                                   *)
LEMMA CacheInit == Cache!Init => CacheInv
<1> SUFFICES ASSUME Cache!Init PROVE CacheInv
  OBVIOUS
<1>1. Cache!Idle \in LoaderStates /\ Cache!Idle.pc = "wait"
  BY DEF Cache!Idle, LoaderStates
<1>2. worker = [w \in Loaders |-> Cache!Idle] /\ putter.pc # "done"
  BY DEF Cache!Init
<1>3. CacheType
  BY <1>1, <1>2 DEF Cache!Init, CacheType, Cache!HasStore
<1> QED
  BY <1>1, <1>2, <1>3 DEF CacheInv, Cache!OnlyLockedBytes, FetchInv

(* The cache invariant holds through every step.                           *)
LEMMA CacheStep == CacheInv /\ [Cache!Next]_(Cache!vars) => CacheInv'
<1> SUFFICES ASSUME CacheInv, [Cache!Next]_(Cache!vars) PROVE CacheInv'
  OBVIOUS
<1>0. CacheType /\ worker \in [Loaders -> LoaderStates]
  BY DEF CacheInv, CacheType
<1>1. ASSUME NEW w \in Loaders, NEW x \in {"lstat", "open", "fetch", "origin", "install", "failed"}, Cache!Go(w, x),
             x = "fetch" => setup.store,
             x \in {"origin", "install"} /\ ~setup.store => file.bytes = "absent" \/ file.inode > 0,
             UNCHANGED <<setup, file, object, putter>>
      PROVE  CacheInv'
  <2>1. worker' \in [Loaders -> LoaderStates] /\ worker'[w].pc = x /\ \A v \in Loaders \ {w} : worker'[v] = worker[v]
    BY <1>0, <1>1, LoaderGoes, ZenonT(60)
  <2> QED
    BY <1>1, <2>1, CacheMoves, Zenon
<1>2. ASSUME NEW w \in Loaders, Cache!TakeSlot(w) PROVE CacheInv'
  BY <1>1, <1>2 DEF Cache!TakeSlot
<1>3. ASSUME NEW w \in Loaders, Cache!Lstat(w) PROVE CacheInv'
  <2>1. CASE file.bytes = "absent"
    <3>1. Cache!Go(w, Cache!AfterLoad(w, TRUE)) /\ UNCHANGED <<setup, file, object, putter>>
      BY <1>3, <2>1, Zenon DEF Cache!Lstat
    <3>2. /\ Cache!AfterLoad(w, TRUE) \in {"fetch", "origin", "failed"}
          /\ Cache!AfterLoad(w, TRUE) = "fetch" => setup.store
      BY <1>0, AfterLoadGoes, Zenon
    <3> QED
      BY <1>1, <2>1, <3>1, <3>2, Zenon
  <2>2. CASE file.bytes # "absent"
    <3>1. /\ worker' = [worker EXCEPT ![w] = [worker[w] EXCEPT !.pc = "open", !.inode = file.inode]]
          /\ UNCHANGED <<setup, file, object, putter>>
      BY <1>3, <2>2, Zenon DEF Cache!Lstat
    <3>2. [worker[w] EXCEPT !.pc = "open", !.inode = file.inode] \in LoaderStates
          /\ [worker[w] EXCEPT !.pc = "open", !.inode = file.inode].pc = "open"
      BY <1>0, ZenonT(60) DEF LoaderStates, CacheType
    <3>3. worker' \in [Loaders -> LoaderStates] /\ worker'[w].pc = "open" /\ \A v \in Loaders \ {w} : worker'[v] = worker[v]
      BY <1>0, <3>1, <3>2
    <3> QED
      BY <3>1, <3>3, CacheMoves
  <2> QED
    BY <2>1, <2>2
<1>4. ASSUME NEW w \in Loaders, Cache!Open(w) PROVE CacheInv'
  <2>1. CASE file.inode = worker[w].inode /\ Cache!Verified(file.bytes)
    <3> DEFINE x == [worker[w] EXCEPT !.pc = "loaded", !.got = file.bytes]
    <3>1. worker' = [worker EXCEPT ![w] = x] /\ file.bytes = "good" /\ UNCHANGED <<setup, file, object, putter>>
      BY <1>4, <2>1, Zenon DEF Cache!Open, Cache!Verified, Cache!Good
    <3>2. x \in LoaderStates /\ x.pc = "loaded" /\ x.got = "good"
      BY <1>0, <3>1, ZenonT(60) DEF LoaderStates
    <3> HIDE DEF x
    <3>3. /\ worker' \in [Loaders -> LoaderStates] /\ worker'[w] = x
          /\ \A v \in Loaders \ {w} : worker'[v] = worker[v]
      BY <1>0, <3>1, <3>2
    <3>4. CacheType'
      BY <3>1, <3>3 DEF CacheInv, CacheType
    <3>5. Cache!OnlyLockedBytes'
      BY <3>1, <3>2, <3>3 DEF CacheInv, Cache!OnlyLockedBytes, Cache!Good
    <3>6. FetchInv'
      BY <3>1, <3>2, <3>3 DEF CacheInv, FetchInv
    <3> QED
      BY <3>4, <3>5, <3>6 DEF CacheInv
  <2>2. CASE ~(file.inode = worker[w].inode /\ Cache!Verified(file.bytes))
    <3>1. Cache!Go(w, Cache!AfterLoad(w, FALSE)) /\ UNCHANGED <<setup, file, object, putter>>
      BY <1>4, <2>2, ZenonT(60) DEF Cache!Open
    <3>2. /\ Cache!AfterLoad(w, FALSE) \in {"fetch", "failed"}
          /\ Cache!AfterLoad(w, FALSE) = "fetch" => setup.store
      BY <1>0, AfterLoadGoes, Zenon
    <3> QED
      BY <1>1, <3>1, <3>2, Zenon
  <2> QED
    BY <2>1, <2>2
<1>5. ASSUME NEW w \in Loaders, NEW b \in {"good", "bad"}, NEW o \in {"store", "origin"}, Cache!Download(w, b, o),
             UNCHANGED <<setup, file, object, putter>>, setup.store \/ worker[w].pc = "origin"
      PROVE  CacheInv'
  <2> DEFINE x == [worker[w] EXCEPT !.pc = "install", !.temporary = b, !.from = o]
  <2>1. worker' = [worker EXCEPT ![w] = x]
    BY <1>5, Zenon DEF Cache!Download
  <2>2. x \in LoaderStates /\ x.pc = "install"
    BY <1>0, ZenonT(60) DEF LoaderStates
  <2> HIDE DEF x
  <2>3. worker' \in [Loaders -> LoaderStates] /\ worker'[w].pc = "install" /\ \A v \in Loaders \ {w} : worker'[v] = worker[v]
    BY <1>0, <2>1, <2>2
  <2>4. ~setup.store => file.bytes = "absent" \/ file.inode > 0
    BY <1>5, Zenon DEF CacheInv, FetchInv
  <2> QED
    BY <1>5, <2>3, <2>4, CacheMoves, Zenon
<1>6. ASSUME NEW w \in Loaders, Cache!Fetch(w) PROVE CacheInv'
  <2>1. setup.store /\ UNCHANGED <<setup, file, object, putter>> /\ object \in {"absent", "good", "foreign"}
    BY <1>6 DEF Cache!Fetch, CacheInv, FetchInv, CacheType
  <2>2. Cache!Download(w, "good", "store") \/ Cache!Go(w, "failed") \/ Cache!Go(w, "origin")
    BY <1>6, <2>1 DEF Cache!Fetch
  <2> QED
    BY <1>1, <1>5, <2>1, <2>2, Zenon
<1>7. ASSUME NEW w \in Loaders, Cache!FetchOrigin(w) PROVE CacheInv'
  <2>1. worker[w].pc = "origin" /\ UNCHANGED <<setup, file, object, putter>>
        /\ (Cache!Go(w, "failed") \/ \E b \in {"good", "bad"} : Cache!Download(w, b, "origin"))
    BY <1>7, Zenon DEF Cache!FetchOrigin
  <2> QED
    BY <1>1, <1>5, <2>1
<1>8. ASSUME NEW w \in Loaders, Cache!InstallBlob(w) PROVE CacheInv'
  <2> DEFINE x(pc) == [worker[w] EXCEPT !.pc = pc, !.temporary = "none"]
  <2>1. \A pc \in {"lstat", "failed"} : x(pc) \in LoaderStates /\ x(pc).pc = pc
    BY <1>0, ZenonT(60) DEF LoaderStates
  <2>2. PICK pc \in {"lstat", "failed"} : worker' = [worker EXCEPT ![w] = x(pc)]
    BY <1>8, ZenonT(60) DEF Cache!InstallBlob
  <2>3. worker' \in [Loaders -> LoaderStates] /\ worker'[w].pc = pc /\ \A v \in Loaders \ {w} : worker'[v] = worker[v]
    BY <1>0, <2>1, <2>2, ZenonT(60)
  <2> HIDE DEF x
  <2>4. UNCHANGED <<setup, object, putter>>
    BY <1>8 DEF Cache!InstallBlob
  <2>5. file' = file \/ (file' \in [bytes : {"good"}, inode : Nat] /\ file'.inode > 0)
    BY <1>8 DEF Cache!InstallBlob, Cache!Verified, Cache!Good, CacheInv, CacheType
  <2>6. CacheType'
    BY <2>3, <2>4, <2>5 DEF CacheInv, CacheType
  <2>7. Cache!OnlyLockedBytes'
    BY <2>3, <2>4, Zenon DEF CacheInv, Cache!OnlyLockedBytes
  <2>8. FetchInv'
    BY <2>3, <2>4, <2>5, Zenon DEF CacheInv, FetchInv
  <2> QED
    BY <2>6, <2>7, <2>8 DEF CacheInv
<1>9. CASE Cache!PutCreate
  <2>1. UNCHANGED <<setup, file, worker>> /\ putter'.pc = "verify" /\ object' \in {object, "good"}
    BY <1>9 DEF Cache!PutCreate
  <2> QED
    BY <2>1 DEF CacheInv, CacheType, Cache!OnlyLockedBytes, FetchInv
<1>10. CASE Cache!PutVerify
  <2>1. UNCHANGED <<setup, file, worker, object>> /\ (putter'.pc = "done" => object = "good")
    BY <1>10 DEF Cache!PutVerify
  <2> QED
    BY <2>1 DEF CacheInv, CacheType, Cache!OnlyLockedBytes, FetchInv
<1>11. CASE Cache!Rot
  <2>1. UNCHANGED <<setup, object, worker, putter>> /\ file.bytes = "good" /\ file'.inode = file.inode
        /\ file' \in [bytes : {"absent", "good", "bad"}, inode : Nat]
    BY <1>11 DEF Cache!Rot, CacheInv, CacheType
  <2> QED
    BY <2>1 DEF CacheInv, CacheType, Cache!OnlyLockedBytes, FetchInv
<1>12. CASE UNCHANGED Cache!vars
  BY <1>12 DEF Cache!vars, CacheInv, CacheType, Cache!OnlyLockedBytes, FetchInv
<1> QED
  BY <1>2, <1>3, <1>4, <1>6, <1>7, <1>8, <1>9, <1>10, <1>11, <1>12 DEF Cache!Next

(* THEOREM: any number of goroutines loading a blob at once are given only *)
(* bytes that hash to the locked digest, whichever of them installed the   *)
(* file, whatever the store and the origin answered, and whatever happened *)
(* to the file; and Store.Put succeeds only over the blob itself.          *)
THEOREM BuildsGetLockedBytes == Cache!Spec => []OnlyLockedBytes
<1>1. CacheInv => OnlyLockedBytes
  BY DEF CacheInv, OnlyLockedBytes
<1> QED
  BY <1>1, CacheInit, CacheStep, PTL DEF Cache!Spec

(* THEOREM: without a shared store no step replaces a wrong cache file     *)
(* that was there before: a goroutine reaches the origin only for an       *)
(* absent file, and what is renamed into place then is no longer the file  *)
(* that was found.                                                         *)
THEOREM CorruptCacheIsKept == Cache!Spec => CorruptKept
<1>1. CacheInv /\ [Cache!Next]_(Cache!vars) => [part = "cache" => Cache!CorruptKept]_storageVars
  <2> SUFFICES ASSUME CacheInv, [Cache!Next]_(Cache!vars), ~setup.store, file.bytes = "bad", file.inode = 0
               PROVE  file' = file
    BY DEF Cache!CorruptKept, Cache!HasStore
  <2>1. ASSUME NEW w \in Loaders PROVE worker[w].pc # "install"
    BY DEF CacheInv, FetchInv
  <2>2. CASE \E w \in Loaders : Cache!InstallBlob(w)
    BY <2>1, <2>2 DEF Cache!InstallBlob
  <2>3. CASE \E w \in Loaders : Cache!TakeSlot(w) \/ Cache!Lstat(w) \/ Cache!Open(w) \/ Cache!Fetch(w) \/ Cache!FetchOrigin(w)
    BY <2>3, Zenon DEF Cache!TakeSlot, Cache!Lstat, Cache!Open, Cache!Fetch, Cache!FetchOrigin
  <2>4. CASE Cache!PutCreate \/ Cache!PutVerify \/ Cache!Rot
    BY <2>4 DEF Cache!PutCreate, Cache!PutVerify, Cache!Rot
  <2>5. CASE UNCHANGED Cache!vars
    BY <2>5 DEF Cache!vars
  <2> QED
    BY <2>2, <2>3, <2>4, <2>5 DEF Cache!Next
<1> QED
  BY <1>1, CacheInit, CacheStep, PTL DEF Cache!Spec, CorruptKept

----------------------------------------------------------------------------
(* The lock on disk *)

Contents == {0, Torn} \union PackageVersions
Roots == [layout : {"whole", "sharded"}, lock : Shards!Locks]

ShardType ==
  /\ root \in Roots /\ rootDisk \in Roots
  /\ shards \in [Packages -> Contents] /\ shardsDisk \in [Packages -> Contents]
  /\ shardDirectory \in BOOLEAN
  /\ writer \in [pc : {"idle", "shards", "root", "sync"}, lock : Shards!Locks \union {None}, changed : SUBSET Packages]
  /\ writer.pc # "idle" => writer.lock \in Shards!Locks
  /\ head \in [root : Roots, shards : [Packages -> Contents]]
  /\ acked \in Shards!Locks /\ pending \subseteq Shards!Locks

(* The files hold every shard that the root lists, or it lists none.       *)
Loads(r, files) == r.layout = "sharded" => \A p \in Shards!Held(r.lock) : files[p] = r.lock[p]

(* A shard that processes see as the root states it is durable.            *)
SeenDurable ==
  root.layout = "sharded" =>
    \A p \in Shards!Held(root.lock) : shards[p] = root.lock[p] => shardsDisk[p] = root.lock[p]

(* The roots state an acknowledged or interrupted lock, or the one whose   *)
(* root has just been renamed.                                             *)
RootsKnown ==
  /\ root.lock \in {acked} \union pending \/ (writer.pc = "sync" /\ root.lock = writer.lock)
  /\ rootDisk.lock \in {acked} \union pending

(* At rest, with nothing interrupted since, what is seen is durable.       *)
AtRest ==
  writer.pc = "idle" /\ pending = {} => root = rootDisk /\ Loads(root, shards) /\ Loads(rootDisk, shardsDisk)

(* How far a writer is: the changed shards are written, the others are as  *)
(* the root that was loaded lists them; then all of them are durable.      *)
WriterKeeps ==
  /\ writer.pc = "shards" =>
       /\ shardDirectory
       /\ \A p \in writer.changed : shards[p] = writer.lock[p]
       /\ root.layout = "sharded" =>
            \A p \in (Shards!Held(root.lock) \intersect Shards!Held(writer.lock)) \ writer.changed :
              shards[p] = root.lock[p]
  /\ writer.pc = "root" /\ Shards!shouldShard(writer.lock) =>
       \A p \in Shards!Held(writer.lock) : shards[p] = writer.lock[p] /\ shardsDisk[p] = writer.lock[p]
  /\ writer.pc = "sync" =>
       /\ root.lock = writer.lock
       /\ Loads(root, shards) /\ Loads(root, shardsDisk)

ShardInv == ShardType /\ SeenDurable /\ RootsKnown /\ AtRest /\ WriterKeeps /\ Loads(head.root, head.shards)

(* LoadLock returns the lock that the root states, or refuses.             *)
LEMMA LoadLockCases ==
  ASSUME NEW r \in Roots, NEW files
  PROVE  /\ Loads(r, files) => Shards!LoadLock(r, files) = r.lock
         /\ ~Loads(r, files) => Shards!LoadLock(r, files) = Refused
<1>1. r.layout = "whole" \/ r.layout = "sharded"
  BY DEF Roots
<1> QED
  BY <1>1 DEF Shards!LoadLock, Shards!readShard, Loads

(* The empty lock is durable.                                              *)
LEMMA ShardInit == Shards!Init => ShardInv
<1> SUFFICES ASSUME Shards!Init PROVE ShardInv
  OBVIOUS
<1> DEFINE none == [p \in Packages |-> 0]
<1>1. none \in Shards!Locks /\ none \in [Packages -> Contents]
  BY DEF Shards!Locks, Shards!Absent, Contents
<1>2. /\ root.layout = "whole" /\ root.lock = none /\ root = [layout |-> "whole", lock |-> none] /\ rootDisk = root
      /\ shards = none /\ shardsDisk = none /\ shardDirectory = FALSE /\ acked = none /\ pending = {}
      /\ head = [root |-> root, shards |-> shards] /\ writer = Shards!IdleWriter
  BY DEF Shards!Init, Shards!Absent
<1> HIDE DEF none
<1>3. root \in Roots
  BY <1>1, <1>2 DEF Roots
<1>4. writer \in [pc : {"idle", "shards", "root", "sync"}, lock : Shards!Locks \union {None}, changed : SUBSET Packages]
      /\ writer.pc = "idle"
  BY <1>2, Zenon DEF Shards!IdleWriter
<1>5. ShardType
  BY <1>1, <1>2, <1>3, <1>4, ZenonT(60) DEF ShardType
<1>6. Loads(root, shards) /\ Loads(rootDisk, shardsDisk) /\ Loads(head.root, head.shards)
  BY <1>2 DEF Loads
<1> QED
  BY <1>2, <1>4, <1>5, <1>6, Zenon DEF ShardInv, SeenDurable, RootsKnown, AtRest, WriterKeeps

(* A command starts from a lock that loads.                                *)
LEMMA WriteLockStep ==
  ASSUME ShardInv, NEW l \in Shards!Locks, Shards!WriteLock(l)
  PROVE  ShardInv'
<1>1. /\ writer.pc = "idle" /\ Shards!LoadLock(root, shards) # Refused
      /\ writer' = [pc |-> IF Shards!shouldShard(l) THEN "shards" ELSE "root", lock |-> l, changed |-> {}]
      /\ shardDirectory' = (shardDirectory \/ Shards!shouldShard(l))
      /\ UNCHANGED <<root, shards, rootDisk, shardsDisk, head, acked, pending>>
  BY Zenon DEF Shards!WriteLock
<1>2. /\ writer'.pc = (IF Shards!shouldShard(l) THEN "shards" ELSE "root") /\ writer'.lock = l /\ writer'.changed = {}
  BY <1>1
<1>3. Loads(root, shards)
  BY <1>1, LoadLockCases DEF ShardInv, ShardType
<1>4. ShardType'
  <2>1. writer' \in [pc : {"idle", "shards", "root", "sync"}, lock : Shards!Locks \union {None}, changed : SUBSET Packages]
    BY <1>1, Zenon
  <2>2. shardDirectory' \in BOOLEAN
    BY <1>1
  <2> QED
    BY <1>1, <1>2, <2>1, <2>2, Zenon DEF ShardInv, ShardType
<1>5. SeenDurable' /\ Loads(head.root, head.shards)'
  BY <1>1, Zenon DEF ShardInv, SeenDurable, Loads
<1>6. RootsKnown' /\ AtRest'
  BY <1>1, <1>2, Zenon DEF ShardInv, RootsKnown, AtRest
<1>7. WriterKeeps'
  <2>1. CASE Shards!shouldShard(l)
    <3>1. writer'.pc = "shards" /\ shardDirectory'
      BY <1>1, <1>2, <2>1, Zenon
    <3>2. root.layout = "sharded" => \A p \in Shards!Held(root.lock) : shards[p] = root.lock[p]
      BY <1>3, Zenon DEF Loads
    <3> QED
      BY <1>1, <1>2, <3>1, <3>2, Zenon DEF WriterKeeps, Shards!Held
  <2>2. CASE ~Shards!shouldShard(l)
    <3>1. writer'.pc = "root"
      BY <1>2, <2>2, Zenon
    <3>2. ~Shards!shouldShard(writer.lock)'
      BY <1>1, <1>2, <2>2, Zenon DEF Shards!shouldShard, Shards!Held
    <3> QED
      BY <3>1, <3>2, Zenon DEF WriterKeeps
  <2> QED
    BY <2>1, <2>2
<1> QED
  BY <1>4, <1>5, <1>6, <1>7, Zenon DEF ShardInv

(* A shard is written: it is one the root does not state as it is.         *)
LEMMA WriteShardStep ==
  ASSUME ShardInv, NEW p \in Packages, Shards!writeShardFile(p)
  PROVE  ShardInv'
<1>1. /\ writer.pc = "shards" /\ p \in Shards!Held(writer.lock) /\ p \notin writer.changed
      /\ Shards!previous(p) # writer.lock[p]
      /\ shards' = [shards EXCEPT ![p] = writer.lock[p]]
      /\ writer' = [writer EXCEPT !.changed = writer.changed \union {p}]
      /\ UNCHANGED <<root, rootDisk, shardsDisk, shardDirectory, head, acked, pending>>
  BY DEF Shards!writeShardFile
<1>2. writer'.pc = "shards" /\ writer'.lock = writer.lock /\ writer'.changed = writer.changed \union {p}
      /\ writer' \in [pc : {"idle", "shards", "root", "sync"}, lock : Shards!Locks \union {None}, changed : SUBSET Packages]
  BY <1>1 DEF ShardInv, ShardType
<1>3. shards'[p] = writer.lock[p] /\ \A q \in Packages \ {p} : shards'[q] = shards[q]
  BY <1>1 DEF ShardInv, ShardType
<1>4. shards' \in [Packages -> Contents]
  <2>1. writer.lock \in Shards!Locks
    BY <1>1 DEF ShardInv, ShardType
  <2>2. writer.lock[p] \in Contents
    BY <2>1 DEF Shards!Locks, Shards!Absent, Contents
  <2> QED
    BY <1>1, <2>2 DEF ShardInv, ShardType
<1>5. ShardType'
  BY <1>1, <1>2, <1>4 DEF ShardInv, ShardType
<1>6. root.layout = "sharded" => root.lock[p] # shards'[p]
  BY <1>1, <1>3 DEF Shards!previous
<1>7. SeenDurable'
  BY <1>1, <1>3, <1>6 DEF ShardInv, SeenDurable, Shards!Held
<1>8. RootsKnown' /\ AtRest' /\ Loads(head.root, head.shards)'
  BY <1>1, <1>2 DEF ShardInv, RootsKnown, AtRest, Loads
<1>9. WriterKeeps'
  <2>1. shardDirectory' /\ \A q \in writer'.changed : shards'[q] = writer'.lock[q]
    BY <1>1, <1>2, <1>3 DEF ShardInv, WriterKeeps, ShardType
  <2>2. ASSUME root.layout = "sharded", NEW q \in Shards!Held(root.lock), q \in Shards!Held(writer.lock), q \notin writer'.changed
        PROVE  shards'[q] = root.lock[q]
    BY <1>1, <1>2, <1>3, <2>2 DEF ShardInv, WriterKeeps, Shards!Held
  <2> QED
    BY <1>1, <1>2, <2>1, <2>2 DEF WriterKeeps, Shards!Held
<1> QED
  BY <1>5, <1>7, <1>8, <1>9 DEF ShardInv

(* A shard that the new lock does not list is removed.                     *)
LEMMA RemoveShardStep ==
  ASSUME ShardInv, NEW p \in Packages, Shards!removeStaleShards(p)
  PROVE  ShardInv'
<1>1. /\ writer.pc = "shards" /\ p \notin Shards!Held(writer.lock)
      /\ shards' = [shards EXCEPT ![p] = 0]
      /\ UNCHANGED <<root, rootDisk, shardsDisk, shardDirectory, writer, head, acked, pending>>
  BY DEF Shards!removeStaleShards, Shards!Absent
<1>2. shards'[p] = 0 /\ (\A q \in Packages \ {p} : shards'[q] = shards[q]) /\ shards' \in [Packages -> Contents]
  BY <1>1 DEF ShardInv, ShardType, Contents
<1>3. ShardType'
  BY <1>1, <1>2, Zenon DEF ShardInv, ShardType
<1>4. SeenDurable'
  BY <1>1, <1>2, Zenon DEF ShardInv, SeenDurable, Shards!Held, Shards!Absent
<1>5. RootsKnown' /\ AtRest' /\ Loads(head.root, head.shards)'
  BY <1>1, Zenon DEF ShardInv, RootsKnown, AtRest, Loads
<1>6. WriterKeeps'
  <2>1. \A q \in writer.changed : shards'[q] = writer.lock[q]
    <3> SUFFICES ASSUME NEW q \in writer.changed PROVE shards'[q] = writer.lock[q]
      BY Zenon
    <3>1. q \in Packages /\ shards[q] = writer.lock[q]
      BY <1>1, Zenon DEF ShardInv, WriterKeeps, ShardType
    <3>2. q = p => writer.lock[q] = 0
      BY <1>1, Zenon DEF Shards!Held, Shards!Absent
    <3> QED
      BY <1>2, <3>1, <3>2, Zenon
  <2>2. ASSUME root.layout = "sharded", NEW q \in Shards!Held(root.lock), q \in Shards!Held(writer.lock), q \notin writer.changed
        PROVE  shards'[q] = root.lock[q]
    BY <1>1, <1>2, <2>2, Zenon DEF ShardInv, WriterKeeps, Shards!Held
  <2>3. shardDirectory
    BY <1>1, Zenon DEF ShardInv, WriterKeeps
  <2> QED
    BY <1>1, <2>1, <2>2, <2>3, Zenon DEF WriterKeeps, Shards!Held
<1> QED
  BY <1>3, <1>4, <1>5, <1>6 DEF ShardInv

(* The changed shards are synced: now every shard of the new lock is       *)
(* durable, the unchanged ones because the old root listed them.           *)
LEMMA SyncPathsStep ==
  ASSUME ShardInv, Shards!syncPaths
  PROVE  ShardInv'
<1>1. /\ writer.pc = "shards" /\ Shards!ShardsWritten
      /\ shardsDisk' = [p \in Packages |-> IF p \in writer.changed THEN shards[p] ELSE shardsDisk[p]]
      /\ writer' = [writer EXCEPT !.pc = "root"]
      /\ UNCHANGED <<root, shards, rootDisk, shardDirectory, head, acked, pending>>
  BY DEF Shards!syncPaths, Shards!ShardsDone
<1>2. writer'.pc = "root" /\ writer'.lock = writer.lock
      /\ writer' \in [pc : {"idle", "shards", "root", "sync"}, lock : Shards!Locks \union {None}, changed : SUBSET Packages]
  BY <1>1 DEF ShardInv, ShardType
<1>3. ShardType'
  <2>1. shardsDisk' \in [Packages -> Contents]
    BY <1>1 DEF ShardInv, ShardType
  <2> QED
    BY <1>1, <1>2, <2>1 DEF ShardInv, ShardType
<1>4. \A p \in Packages : shardsDisk'[p] = shards[p] \/ shardsDisk'[p] = shardsDisk[p]
  BY <1>1
<1>5. SeenDurable'
  BY <1>1, <1>4 DEF ShardInv, SeenDurable, Shards!Held
<1>6. RootsKnown' /\ AtRest' /\ Loads(head.root, head.shards)'
  BY <1>1, <1>2 DEF ShardInv, RootsKnown, AtRest, Loads
<1>7. ASSUME NEW p \in Shards!Held(writer.lock) PROVE shards[p] = writer.lock[p] /\ shardsDisk'[p] = writer.lock[p]
  <2>1. p \in Packages /\ writer.lock[p] # 0
    BY DEF Shards!Held, Shards!Absent
  <2>2. CASE p \in writer.changed
    BY <1>1, <2>1, <2>2 DEF ShardInv, WriterKeeps
  <2>3. CASE p \notin writer.changed
    <3>1. Shards!previous(p) = writer.lock[p]
      BY <1>1, <2>3 DEF Shards!ShardsWritten
    <3>2. root.layout = "sharded" /\ root.lock[p] = writer.lock[p]
      BY <2>1, <3>1 DEF Shards!previous, Shards!Absent
    <3>3. p \in Shards!Held(root.lock)
      BY <2>1, <3>2 DEF Shards!Held, Shards!Absent
    <3>4. shards[p] = root.lock[p]
      BY <1>1, <2>3, <3>2, <3>3 DEF ShardInv, WriterKeeps
    <3>5. shardsDisk[p] = root.lock[p]
      BY <3>2, <3>3, <3>4 DEF ShardInv, SeenDurable
    <3> QED
      BY <1>1, <2>1, <2>3, <3>2, <3>4, <3>5
  <2> QED
    BY <2>2, <2>3
<1>8. WriterKeeps'
  BY <1>1, <1>2, <1>7 DEF WriterKeeps, Shards!Held
<1> QED
  BY <1>3, <1>5, <1>6, <1>8, Zenon DEF ShardInv

(* The root is renamed over durable shards, and then synced.               *)
LEMMA RootSteps ==
  ASSUME ShardInv, Shards!RenameRoot \/ Shards!SyncRoot
  PROVE  ShardInv'
<1>1. CASE Shards!RenameRoot
  <2> DEFINE x == IF Shards!shouldShard(writer.lock) THEN "sharded" ELSE "whole"
  <2>1. /\ writer.pc = "root" /\ root' = [layout |-> x, lock |-> writer.lock]
        /\ writer' = [writer EXCEPT !.pc = "sync"]
        /\ UNCHANGED <<shards, rootDisk, shardsDisk, shardDirectory, head, acked, pending>>
    BY <1>1 DEF Shards!RenameRoot
  <2>2. root'.layout = x /\ root'.lock = writer.lock /\ x \in {"whole", "sharded"} /\ writer.lock \in Shards!Locks
    BY <2>1 DEF ShardInv, ShardType
  <2>3. writer'.pc = "sync" /\ writer'.lock = writer.lock
        /\ writer' \in [pc : {"idle", "shards", "root", "sync"}, lock : Shards!Locks \union {None}, changed : SUBSET Packages]
    BY <2>1 DEF ShardInv, ShardType
  <2>4. x = "sharded" => \A p \in Shards!Held(writer.lock) : shards[p] = writer.lock[p] /\ shardsDisk[p] = writer.lock[p]
    BY <2>1 DEF ShardInv, WriterKeeps
  <2> HIDE DEF x
  <2>5. ShardType'
    <3>1. root' \in Roots
      BY <2>1, <2>2 DEF Roots
    <3> QED
      BY <2>1, <2>2, <2>3, <3>1 DEF ShardInv, ShardType
  <2>6. SeenDurable'
    BY <2>1, <2>2, <2>4 DEF SeenDurable
  <2>7. RootsKnown' /\ AtRest' /\ Loads(head.root, head.shards)'
    BY <2>1, <2>2, <2>3 DEF ShardInv, RootsKnown, AtRest, Loads
  <2>8. Loads(root, shards)' /\ Loads(root, shardsDisk)'
    BY <2>1, <2>2, <2>4 DEF Loads
  <2>9. WriterKeeps'
    BY <2>2, <2>3, <2>8, Zenon DEF WriterKeeps
  <2> QED
    BY <2>5, <2>6, <2>7, <2>9 DEF ShardInv
<1>2. CASE Shards!SyncRoot
  <2>1. /\ writer.pc = "sync" /\ rootDisk' = root /\ acked' = writer.lock /\ pending' = {} /\ writer' = Shards!IdleWriter
        /\ UNCHANGED <<root, shards, shardsDisk, shardDirectory, head>>
    BY <1>2 DEF Shards!SyncRoot
  <2>2. writer'.pc = "idle"
        /\ writer' \in [pc : {"idle", "shards", "root", "sync"}, lock : Shards!Locks \union {None}, changed : SUBSET Packages]
    BY <2>1 DEF Shards!IdleWriter
  <2>3. root.lock = writer.lock /\ writer.lock \in Shards!Locks /\ Loads(root, shards) /\ Loads(root, shardsDisk)
    BY <2>1 DEF ShardInv, WriterKeeps, ShardType
  <2>4. ShardType'
    BY <2>1, <2>2, <2>3 DEF ShardInv, ShardType
  <2>5. SeenDurable' /\ Loads(head.root, head.shards)'
    BY <2>1 DEF ShardInv, SeenDurable, Loads
  <2>6. RootsKnown'
    BY <2>1, <2>2, <2>3, Zenon DEF RootsKnown
  <2>7. AtRest'
    BY <2>1, <2>3 DEF AtRest, Loads
  <2>8. WriterKeeps'
    BY <2>2, Zenon DEF WriterKeeps
  <2> QED
    BY <2>4, <2>5, <2>6, <2>7, <2>8 DEF ShardInv
<1> QED
  BY <1>1, <1>2

(* A writer dies, or the power fails: what is served is one of the locks   *)
(* that are known, and at rest nothing is lost.                            *)
LEMMA FaultSteps ==
  ASSUME ShardInv, Shards!Crash \/ Shards!PowerFailure
  PROVE  ShardInv'
<1>1. writer'.pc = "idle" /\ UNCHANGED <<shardDirectory, head, acked>> /\ pending' = Shards!Interrupted
      /\ writer' \in [pc : {"idle", "shards", "root", "sync"}, lock : Shards!Locks \union {None}, changed : SUBSET Packages]
  BY DEF Shards!Crash, Shards!PowerFailure, Shards!IdleWriter
<1>2. /\ pending \subseteq pending' /\ pending' \subseteq Shards!Locks
      /\ writer.pc # "idle" => writer.lock \in pending'
  BY <1>1 DEF Shards!Interrupted, ShardInv, ShardType
<1>3. pending' = {} => writer.pc = "idle" /\ pending = {}
  BY <1>2
<1>4. WriterKeeps' /\ Loads(head.root, head.shards)'
  BY <1>1, Zenon DEF ShardInv, WriterKeeps, Loads
<1>5. CASE Shards!Crash
  <2>1. UNCHANGED <<root, shards, rootDisk, shardsDisk>> /\ writer.pc # "idle"
    BY <1>5 DEF Shards!Crash
  <2>2. ShardType'
    BY <1>1, <1>2, <2>1 DEF ShardInv, ShardType
  <2>3. SeenDurable'
    BY <2>1, Zenon DEF ShardInv, SeenDurable
  <2>4. RootsKnown' /\ AtRest'
    BY <1>1, <1>2, <1>3, <2>1, Zenon DEF ShardInv, RootsKnown, AtRest
  <2> QED
    BY <1>4, <2>2, <2>3, <2>4, Zenon DEF ShardInv
<1>6. CASE Shards!PowerFailure
  <2>1. PICK survived \in SUBSET Packages, torn \in SUBSET Packages, r \in {root, rootDisk} :
          /\ torn \subseteq {p \in survived : shards[p] \notin {0, shardsDisk[p]}}
          /\ shards' = [p \in Packages |-> CASE p \in torn -> Torn
                                             [] p \in survived \ torn -> shards[p]
                                             [] OTHER -> shardsDisk[p]]
          /\ root' = r
    BY <1>6 DEF Shards!PowerFailure, Shards!Absent
  <2>2. shardsDisk' = shards' /\ rootDisk' = root'
    BY <1>6 DEF Shards!PowerFailure
  <2>3. ASSUME NEW p \in Packages
        PROVE  shards'[p] \in {shards[p], shardsDisk[p]} \/ (shards'[p] = Torn /\ shards[p] # shardsDisk[p])
    <3>1. CASE p \in torn
      BY <2>1, <3>1
    <3>2. CASE p \in survived \ torn
      BY <2>1, <3>2
    <3>3. CASE p \notin torn /\ p \notin survived
      BY <2>1, <3>3
    <3> QED
      BY <3>1, <3>2, <3>3
  <2>4. shards' \in [Packages -> Contents]
    <3>1. shards' = [p \in Packages |-> shards'[p]]
      BY <2>1
    <3>2. \A p \in Packages : shards'[p] \in Contents
      BY <2>3 DEF ShardInv, ShardType, Contents
    <3> QED
      BY <3>1, <3>2
  <2>5. ShardType'
    BY <1>1, <1>2, <2>1, <2>2, <2>4 DEF ShardInv, ShardType
  <2>6. SeenDurable'
    BY <2>2 DEF SeenDurable
  <2>7. RootsKnown'
    BY <1>1, <1>2, <2>1, <2>2 DEF ShardInv, RootsKnown, ShardType
  <2>8. ASSUME pending' = {} PROVE root' = root /\ Loads(root, shards)'
    <3>1. root = rootDisk /\ Loads(root, shards) /\ Loads(root, shardsDisk)
      BY <1>3, <2>8, Zenon DEF ShardInv, AtRest
    <3>2. ASSUME NEW p \in Shards!Held(root.lock), root.layout = "sharded" PROVE shards'[p] = root.lock[p]
      <4>1. p \in Packages
        BY DEF Shards!Held
      <4> QED
        BY <2>3, <3>1, <3>2, <4>1 DEF Loads
    <3> QED
      BY <2>1, <3>1, <3>2 DEF Loads
  <2>9. AtRest'
    BY <2>2, <2>8, Zenon DEF AtRest, Loads
  <2> QED
    BY <1>4, <2>5, <2>6, <2>7, <2>9 DEF ShardInv
<1> QED
  BY <1>5, <1>6

(* Git gets a lock that loads, and gives it back whole.                    *)
LEMMA GitSteps ==
  ASSUME ShardInv, Shards!Commit \/ Shards!Checkout
  PROVE  ShardInv'
<1>1. CASE Shards!Commit
  <2>1. /\ Shards!LoadLock(root, shards) # Refused /\ head' = [root |-> root, shards |-> shards]
        /\ UNCHANGED <<root, shards, rootDisk, shardsDisk, shardDirectory, writer, acked, pending>>
    BY <1>1 DEF Shards!Commit
  <2>2. Loads(root, shards)
    BY <2>1, LoadLockCases DEF ShardInv, ShardType
  <2>3. ShardType' /\ Loads(head.root, head.shards)'
    BY <2>1, <2>2, Zenon DEF ShardInv, ShardType, Loads
  <2>4. SeenDurable' /\ RootsKnown'
    BY <2>1, Zenon DEF ShardInv, SeenDurable, RootsKnown
  <2>5. AtRest'
    BY <2>1, Zenon DEF ShardInv, AtRest, Loads
  <2>6. WriterKeeps'
    BY <2>1, Zenon DEF ShardInv, WriterKeeps, Loads, Shards!shouldShard, Shards!Held
  <2> QED
    BY <2>3, <2>4, <2>5, <2>6 DEF ShardInv
<1>2. CASE Shards!Checkout
  <2>1. /\ writer.pc = "idle" /\ root' = head.root /\ rootDisk' = root' /\ shardsDisk' = shards'
        /\ shards' = [p \in Packages |-> IF head.shards[p] = 0 THEN shards[p] ELSE head.shards[p]]
        /\ acked' = head.root.lock /\ pending' = {} /\ UNCHANGED <<shardDirectory, writer, head>>
    BY <1>2, Zenon DEF Shards!Checkout, Shards!Absent
  <2>2. head.root \in Roots /\ head.shards \in [Packages -> Contents] /\ head.root.lock \in Shards!Locks
    BY DEF ShardInv, ShardType, Roots
  <2>3. shards' \in [Packages -> Contents]
    BY <2>1, <2>2 DEF ShardInv, ShardType
  <2>4. ShardType'
    BY <2>1, <2>2, <2>3 DEF ShardInv, ShardType
  <2>5. ASSUME NEW p \in Shards!Held(head.root.lock), head.root.layout = "sharded" PROVE shards'[p] = head.root.lock[p]
    <3>1. p \in Packages /\ head.root.lock[p] # 0 /\ head.shards[p] = head.root.lock[p]
      BY <2>5 DEF Shards!Held, Shards!Absent, ShardInv, Loads
    <3> QED
      BY <2>1, <3>1, Zenon
  <2>6. Loads(root, shards)' /\ Loads(head.root, head.shards)'
    BY <2>1, <2>5, Zenon DEF ShardInv, Loads
  <2>7. SeenDurable' /\ RootsKnown'
    BY <2>1 DEF SeenDurable, RootsKnown
  <2>8. AtRest'
    BY <2>1, <2>6, Zenon DEF AtRest, Loads
  <2>9. WriterKeeps'
    BY <2>1, Zenon DEF WriterKeeps
  <2> QED
    BY <2>4, <2>6, <2>7, <2>8, <2>9, Zenon DEF ShardInv
<1> QED
  BY <1>1, <1>2

(* The lock's invariant holds through every step.                          *)
LEMMA ShardStep == ShardInv /\ [Shards!Next]_(Shards!vars) => ShardInv'
<1> SUFFICES ASSUME ShardInv, [Shards!Next]_(Shards!vars) PROVE ShardInv'
  OBVIOUS
<1>1. ASSUME UNCHANGED <<root, shards, rootDisk, shardsDisk, shardDirectory, writer, head, acked, pending>> PROVE ShardInv'
  <2>1. ShardType'
    BY <1>1 DEF ShardInv, ShardType
  <2>2. SeenDurable' /\ RootsKnown' /\ AtRest' /\ Loads(head.root, head.shards)'
    BY <1>1, Zenon DEF ShardInv, SeenDurable, RootsKnown, AtRest, Loads
  <2>3. WriterKeeps'
    BY <1>1, Zenon DEF ShardInv, WriterKeeps, Loads, Shards!shouldShard, Shards!Held
  <2> QED
    BY <2>1, <2>2, <2>3, Zenon DEF ShardInv
<1>2. CASE Shards!ReadRoot \/ Shards!ReadDone \/ Shards!ReaderLeaves \/ \E p \in Packages : Shards!ReadShard(p)
  BY <1>1, <1>2, Zenon DEF Shards!ReadRoot, Shards!ReadDone, Shards!ReaderLeaves, Shards!ReadShard
<1>3. CASE UNCHANGED Shards!vars
  BY <1>1, <1>3 DEF Shards!vars
<1> QED
  BY <1>2, <1>3, WriteLockStep, WriteShardStep, RemoveShardStep, SyncPathsStep, RootSteps, FaultSteps, GitSteps
     DEF Shards!Next

(* THEOREM: an acknowledged lock survives, for any number of packages, any *)
(* threshold and any number of faults: at rest it is what LoadLock returns *)
(* from what processes see and from what a power failure would leave; and  *)
(* after an interrupted write it is refused whole or is the acknowledged   *)
(* or the interrupted lock.                                                *)
THEOREM AcknowledgedLocksSurvive == Shards!Spec => []AcknowledgedSurvives
<1>1. ShardInv => AcknowledgedSurvives
  <2> SUFFICES ASSUME ShardInv, writer.pc = "idle",
                      NEW l \in {Shards!LoadLock(root, shards), Shards!LoadLock(rootDisk, shardsDisk)}
               PROVE  l = acked \/ (pending # {} /\ l \in pending \union {Refused})
    BY DEF AcknowledgedSurvives, Shards!AcknowledgedSurvives
  <2>1. root.lock \in {acked} \union pending /\ rootDisk.lock \in {acked} \union pending
    BY DEF ShardInv, RootsKnown
  <2>2. root \in Roots /\ rootDisk \in Roots
    BY DEF ShardInv, ShardType
  <2>3. CASE pending = {}
    <3>1. Loads(root, shards) /\ Loads(rootDisk, shardsDisk)
      BY <2>3 DEF ShardInv, AtRest
    <3> QED
      BY <2>1, <2>2, <2>3, <3>1, LoadLockCases
  <2>4. CASE pending # {}
    <3>1. l \in {root.lock, rootDisk.lock, Refused}
      BY <2>2, LoadLockCases
    <3> QED
      BY <2>1, <2>4, <3>1
  <2> QED
    BY <2>3, <2>4
<1> QED
  BY <1>1, ShardInit, ShardStep, PTL DEF Shards!Spec

(* What a reader has put together is the lock of the root it read.         *)
ReaderInv ==
  /\ root \in Roots
  /\ reader.pc = "shards" =>
       reader \in [pc : {"shards"}, root : Roots, left : SUBSET Packages, parsed : Shards!Locks, result : {None}]
         /\ reader.parsed = reader.root.lock

(* THEOREM: LoadLock beside a running WriteLock returns one whole lock:    *)
(* the one stated by the root it read first, or by the root it read again  *)
(* when that was not sharded, and never a mixture.                         *)
THEOREM ReadersSeeOneLock == Shards!Spec => NeverMixed
<1>1. ShardInv /\ Shards!Init => ReaderInv
  BY SMTT(60) DEF ShardInv, ShardType, Shards!Init, Shards!IdleReader, ReaderInv
<1>2. ASSUME ShardInv, ShardInv', ReaderInv, [Shards!Next]_(Shards!vars)
      PROVE  ReaderInv' /\ Shards!NeverMixed
  <2>0. root \in Roots /\ root' \in Roots
    BY <1>2 DEF ShardInv, ShardType
  <2>1. CASE reader' = reader
    BY <1>2, <2>0, <2>1 DEF ReaderInv, Shards!NeverMixed
  <2>2. CASE reader' = Shards!IdleReader
    BY <2>0, <2>2 DEF ReaderInv, Shards!NeverMixed, Shards!IdleReader
  <2>3. CASE Shards!ReadRoot
    <3>1. /\ reader'.pc = "shards" /\ reader'.root = root /\ reader'.parsed = root.lock /\ reader'.result = None
          /\ reader' = [pc |-> "shards", root |-> root, result |-> None, parsed |-> root.lock,
                        left |-> IF root.layout = "sharded" THEN Shards!Held(root.lock) ELSE {}]
      BY <2>3 DEF Shards!ReadRoot
    <3>2. reader' \in [pc : {"shards"}, root : Roots, left : SUBSET Packages, parsed : Shards!Locks, result : {None}]
      BY <2>0, <3>1 DEF Roots, Shards!Held
    <3> QED
      BY <2>0, <3>1, <3>2, Zenon DEF ReaderInv, Shards!NeverMixed
  <2>4. ASSUME NEW p \in Packages, Shards!ReadShard(p) PROVE ReaderInv' /\ Shards!NeverMixed
    <3>1. reader \in [pc : {"shards"}, root : Roots, left : SUBSET Packages, parsed : Shards!Locks, result : {None}]
          /\ reader.parsed = reader.root.lock
      BY <1>2, <2>4 DEF Shards!ReadShard, ReaderInv
    <3>2. CASE Shards!readShard(reader.root, p, shards[p])
      <4>1. shards[p] = reader.parsed[p]
        BY <3>1, <3>2, Zenon DEF Shards!readShard
      <4>2. [reader.parsed EXCEPT ![p] = shards[p]] = reader.parsed
        BY <3>1, <4>1, Zenon DEF Shards!Locks
      <4>3. reader' = [reader EXCEPT !.left = reader.left \ {p}, !.parsed = reader.parsed]
        BY <2>4, <3>2, <4>2, Zenon DEF Shards!ReadShard
      <4>4. reader' \in [pc : {"shards"}, root : Roots, left : SUBSET Packages, parsed : Shards!Locks, result : {None}]
            /\ reader'.parsed = reader.parsed /\ reader'.root = reader.root /\ reader'.result = reader.result
        BY <3>1, <4>3, ZenonT(60)
      <4> QED
        BY <2>0, <3>1, <4>4 DEF ReaderInv, Shards!NeverMixed
    <3>3. CASE ~Shards!readShard(reader.root, p, shards[p])
      <4>1. reader'.pc = "done" /\ reader'.result = Refused
        BY <2>4, <3>1, <3>3 DEF Shards!ReadShard
      <4> QED
        BY <2>0, <4>1 DEF ReaderInv, Shards!NeverMixed
    <3> QED
      BY <3>2, <3>3
  <2>5. CASE Shards!ReadDone
    <3>1. reader \in [pc : {"shards"}, root : Roots, left : SUBSET Packages, parsed : Shards!Locks, result : {None}]
          /\ reader.parsed = reader.root.lock
      BY <1>2, <2>5 DEF Shards!ReadDone, ReaderInv
    <3>2. reader'.pc = "done" /\ reader'.result \in {reader.parsed, Refused, root.lock}
      BY <2>5, <3>1 DEF Shards!ReadDone
    <3> QED
      BY <2>0, <3>1, <3>2 DEF ReaderInv, Shards!NeverMixed
  <2>6. CASE \/ \E l \in Shards!Locks : Shards!WriteLock(l)
             \/ \E p \in Packages : Shards!writeShardFile(p) \/ Shards!removeStaleShards(p)
             \/ Shards!syncPaths \/ Shards!RenameRoot \/ Shards!SyncRoot
    BY <2>1, <2>6 DEF Shards!WriteLock, Shards!writeShardFile, Shards!removeStaleShards, Shards!syncPaths,
                      Shards!RenameRoot, Shards!SyncRoot
  <2>7. CASE Shards!ReaderLeaves \/ Shards!Crash \/ Shards!PowerFailure \/ Shards!Commit \/ Shards!Checkout
    BY <2>1, <2>2, <2>7 DEF Shards!ReaderLeaves, Shards!Crash, Shards!PowerFailure, Shards!Commit, Shards!Checkout
  <2>8. CASE UNCHANGED Shards!vars
    BY <2>1, <2>8 DEF Shards!vars
  <2> QED
    BY <1>2, <2>3, <2>4, <2>5, <2>6, <2>7, <2>8 DEF Shards!Next
<1>3. ShardInv /\ ShardInv' /\ ReaderInv /\ [Shards!Next]_(Shards!vars) => ReaderInv'
  BY <1>2
<1>4. ShardInv /\ ShardInv' /\ ReaderInv /\ [Shards!Next]_(Shards!vars) => [part = "shards" => Shards!NeverMixed]_storageVars
  BY <1>2
<1> QED
  BY <1>1, <1>3, <1>4, ShardInit, ShardStep, PTL DEF Shards!Spec, NeverMixed

----------------------------------------------------------------------------
(* The gate *)

Approvals == [plan : Plans, repository : Gated, key : Signers, expires : Int]
Evidence == [review : Reviews, base : Branches, merged : BOOLEAN]
Asking == {"resolve", "repository", "pulls", "ancestry"}

Calls == [pc : Asking \cup {"idle", "approval"}, plan : Plans \cup {None}, repository : Gated \cup {None},
          now : Int, branch : Branches \cup {None}, pulls : SUBSET Evidence, steady : BOOLEAN]
Forges == [moved : BOOLEAN, default : Branches, tips : [Branches -> DOMAIN History],
           state : [Reviews -> {"opened", "merged", "closed"}]]

GateType ==
  /\ time \in Int /\ faults \in Int
  /\ forge \in Forges
  /\ approvals \subseteq Approvals
  /\ signed \in [Plans \X Gated -> Approvals \cup {None}]
  /\ call \in Calls

(* The evidence file holds the last approval of each plan and repository   *)
(* and no other.                                                           *)
FileInv ==
  /\ \A a \in approvals : a = signed[<<a.plan, a.repository>>]
  /\ \A p \in Plans, r \in Gated :
       signed[<<p, r>>] # None => /\ signed[<<p, r>>] \in approvals
                              /\ signed[<<p, r>>].plan = p /\ signed[<<p, r>>].repository = r

(* What an evaluation has established when it makes its next request.      *)
(* What it read of the default branch and of the repository's place it     *)
(* knows to be so still only while the forge did not change; that a review *)
(* was merged stays so.                                                    *)
CallInv ==
  /\ call.pc # "idle" => call.plan \in Plans /\ call.repository \in Gated
  /\ call.pc = "approval" => Policy[call.repository] = "approval"
  /\ call.pc \in Asking => Policy[call.repository] = "pr"
  /\ call.pc = "repository" => provider # "unknown"
  /\ call.pc \in {"pulls", "ancestry"} =>
       /\ provider \notin {"none", "unknown"} /\ call.branch \in Branches
       /\ call.steady => ~forge.moved /\ call.branch = forge.default
  /\ call.pc = "ancestry" =>
       /\ call.pulls # {}
       /\ \A q \in call.pulls : /\ q.review \in Gate!Carriers(Gate!Revision)
                                /\ Into[q.review] = call.branch
                                /\ forge.state[q.review] = "merged"

GateInv == GateType /\ FileInv /\ CallInv

(* The best common ancestor of a revision and a tip is the revision        *)
(* itself just when the tip's history holds it.                            *)
LEMMA MergeBaseIsRevision ==
  ASSUME NEW v \in DOMAIN History, NEW t \in DOMAIN History
  PROVE  Gate!MergeBase(v, t) = v <=> v \in History[t]
<1> DEFINE C == History[v] \cap History[t]
           Best(c) == \A d \in C \ {c} : c \notin History[d]
<1>1. Gate!MergeBase(v, t) = IF C = {} THEN None ELSE CHOOSE c \in C : Best(c)
  BY Zenon DEF Gate!MergeBase, Gate!Common
<1>2. ASSUME Gate!MergeBase(v, t) = v
      PROVE  v \in History[t]
  <2>1. C # {}
    BY <1>1, <1>2, HistoryAssumption, Zenon
  <2>2. \E c \in C : Best(c)
    BY <2>1, HistoryAssumption, Zenon
  <2>3. (CHOOSE c \in C : Best(c)) \in C
    <3> HIDE DEF C, Best
    <3> QED BY <2>2, Zenon
  <2> QED
    BY <1>1, <1>2, <2>1, <2>3, Zenon
<1>3. ASSUME v \in History[t]
      PROVE  Gate!MergeBase(v, t) = v
  <2>1. v \in C /\ C = History[v]
    BY <1>3, HistoryAssumption, Zenon
  <2>2. Best(v)
    BY <2>1, HistoryAssumption, Zenon
  <2>3. \A c \in C : Best(c) => c = v
    BY <2>1, Zenon
  <2>4. (CHOOSE c \in C : Best(c)) = v
    <3> HIDE DEF C, Best
    <3> QED BY <2>1, <2>2, <2>3, Zenon
  <2> QED
    BY <1>1, <2>1, <2>4, Zenon
<1> QED
  BY <1>2, <1>3, Zenon

(* Whatever the forge, its ancestry answer reaches the plan's revision     *)
(* just when the branch's tip holds it.                                    *)
LEMMA ReachesJustWhenHeld ==
  ASSUME NEW t \in DOMAIN History, Gate!Revision \in DOMAIN History
  PROVE  Gate!Reachable(Gate!Ancestry(Gate!Revision, t)) <=> Gate!Revision \in History[t]
<1> DEFINE v == Gate!Revision
<1>1. Gate!MergeBase(v, t) = v <=> v \in History[t]
  BY MergeBaseIsRevision, Zenon
<1>2. v \in History[v] /\ (v \in History[t] => History[v] \subseteq History[t])
  BY HistoryAssumption, Zenon
<1> HIDE DEF v
<1>3. Gate!githubAncestry(v, t).contains /\ Gate!githubAncestry(v, t).base = v <=> v \in History[t]
  <2>1. Gate!CompareStatus(v, t) \in {"ahead", "identical"} <=> v \in History[t]
    BY <1>2, Zenon DEF Gate!CompareStatus
  <2> QED
    BY <1>1, <2>1, Zenon DEF Gate!githubAncestry
<1>4. Gate!gitlabAncestry(v, t).contains /\ Gate!gitlabAncestry(v, t).base = v <=> v \in History[t]
  BY <1>1, Zenon DEF Gate!gitlabAncestry
<1>5. Gate!forgejoAncestry(v, t).contains /\ Gate!forgejoAncestry(v, t).base = v <=> v \in History[t]
  BY <1>2, Zenon DEF Gate!forgejoAncestry
<1>6. \/ Gate!Ancestry(v, t) = Gate!githubAncestry(v, t)
      \/ Gate!Ancestry(v, t) = Gate!gitlabAncestry(v, t)
      \/ Gate!Ancestry(v, t) = Gate!forgejoAncestry(v, t)
  BY Zenon DEF Gate!Ancestry
<1> QED
  BY <1>3, <1>4, <1>5, <1>6, Zenon DEF Gate!Reachable, v

----------------------------------------------------------------------------
(* A request, an answer or a fault leaves the forge and the evidence file  *)
(* alone: only the evaluation matters.                                     *)
LEMMA EvaluationMoves ==
  ASSUME GateInv, UNCHANGED Gate!World, time' \in Int, faults' \in Int, call' \in Calls, CallInv'
  PROVE  GateInv'
<1>1. UNCHANGED <<provider, forge, approvals, signed>>
  BY Zenon DEF Gate!World
<1>2. GateType'
  BY <1>1, Zenon DEF GateInv, GateType
<1>3. FileInv'
  BY <1>1, Zenon DEF GateInv, FileInv
<1> QED
  BY <1>2, <1>3, Zenon DEF GateInv

LEMMA IdleIsCall == Gate!Idle \in Calls /\ Gate!Idle.pc = "idle"
<1>1. 0 \in Int
  OBVIOUS
<1>2. Gate!Idle \in Calls
  BY <1>1, Zenon DEF Gate!Idle, Calls
<1>3. Gate!Idle.pc = "idle"
  BY Zenon DEF Gate!Idle
<1> QED
  BY <1>2, <1>3, Zenon

LEMMA EvaluationReturns ==
  ASSUME GateInv, UNCHANGED Gate!World, UNCHANGED time, faults' \in Int, call' = Gate!Idle
  PROVE  GateInv'
<1>1. call'.pc = "idle" /\ call' \in Calls
  BY IdleIsCall, Zenon
<1>2. CallInv'
  BY <1>1, Zenon DEF CallInv, Asking
<1>3. time' \in Int
  BY Zenon DEF GateInv, GateType
<1> QED
  BY <1>1, <1>2, <1>3, EvaluationMoves, Zenon

LEMMA AuthorizeKeeps ==
  ASSUME GateInv, NEW p \in Plans, NEW r \in Gated, Gate!authorize(p, r)
  PROVE  GateInv'
<1>1. UNCHANGED Gate!World /\ time' = time /\ faults' = faults
  BY Zenon DEF Gate!authorize
<1>2. time' \in Int /\ faults' \in Int /\ time \in Int
  BY <1>1, Zenon DEF GateInv, GateType
<1>3. CASE ~(time < PlanExpiry[p] /\ Policy[r] # "auto")
  <2>1. call' = Gate!Idle
    BY <1>3, Zenon DEF Gate!authorize
  <2> QED
    BY <1>1, <1>2, <2>1, EvaluationReturns, Zenon
<1>4. CASE time < PlanExpiry[p] /\ Policy[r] # "auto"
  <2>1. call' = [Gate!Idle EXCEPT !.pc = IF Policy[r] = "pr" THEN "resolve" ELSE "approval",
                                  !.plan = p, !.repository = r, !.now = time]
    BY <1>4, Zenon DEF Gate!authorize
  <2>2. /\ call' \in Calls /\ call'.plan = p /\ call'.repository = r
        /\ call'.pc = IF Policy[r] = "pr" THEN "resolve" ELSE "approval"
    BY <1>2, <2>1, Zenon DEF Gate!Idle, Calls, Asking
  <2>3. CallInv'
    BY <1>4, <2>2, PolicyAssumption, Zenon DEF CallInv, Asking
  <2> QED
    BY <1>1, <1>2, <2>2, <2>3, EvaluationMoves, Zenon
<1> QED
  BY <1>3, <1>4, Zenon

LEMMA ResolveKeeps ==
  ASSUME GateInv, Gate!Resolve
  PROVE  GateInv'
<1>1. UNCHANGED Gate!World /\ time' = time /\ faults' = faults /\ time' \in Int /\ faults' \in Int /\ provider' = provider
  BY Zenon DEF Gate!Resolve, GateInv, GateType, Gate!World
<1>2. CASE provider = "unknown"
  BY <1>1, <1>2, EvaluationReturns, Zenon DEF Gate!Resolve, Gate!Return
<1>3. CASE provider # "unknown"
  <2>1. call \in Calls /\ call.pc = "resolve" /\ call' = [call EXCEPT !.pc = "repository"]
    BY <1>3, Zenon DEF Gate!Resolve, Gate!Go, GateInv, GateType
  <2>2. /\ call' \in Calls /\ call'.plan = call.plan /\ call'.repository = call.repository
        /\ call'.pc = "repository"
    BY <2>1, Zenon DEF Calls, Asking
  <2>3. CallInv'
    BY <1>1, <1>3, <2>1, <2>2, Zenon DEF GateInv, CallInv, Asking
  <2> QED
    BY <1>1, <2>2, <2>3, EvaluationMoves, Zenon
<1> QED
  BY <1>2, <1>3, Zenon

LEMMA RepositoryKeeps ==
  ASSUME GateInv, Gate!Repository
  PROVE  GateInv'
<1>1. /\ UNCHANGED Gate!World /\ time' = time /\ faults' = faults /\ time' \in Int /\ faults' \in Int
      /\ provider' = provider /\ forge' = forge /\ forge \in Forges
  BY Zenon DEF Gate!Repository, GateInv, GateType, Gate!World
<1>2. CASE forge.moved
  BY <1>1, <1>2, EvaluationReturns, Zenon DEF Gate!Repository, Gate!Return
<1>3. CASE ~forge.moved
  <2>1. call \in Calls /\ call.pc = "repository" /\ call' = [call EXCEPT !.pc = "pulls", !.branch = forge.default]
    BY <1>3, Zenon DEF Gate!Repository, GateInv, GateType
  <2>2. /\ call' \in Calls /\ call'.plan = call.plan /\ call'.repository = call.repository
        /\ call'.pc = "pulls" /\ call'.branch = forge.default /\ forge.default \in Branches
    BY <1>1, <2>1, Zenon DEF Calls, Asking, Forges
  <2>3. provider \notin {"none", "unknown"}
    BY <2>1, Zenon DEF Gate!Repository, GateInv, CallInv
  <2>4. CallInv'
    BY <1>1, <1>3, <2>1, <2>2, <2>3, Zenon DEF GateInv, CallInv, Asking
  <2> QED
    BY <1>1, <2>2, <2>4, EvaluationMoves, Zenon
<1> QED
  BY <1>2, <1>3, Zenon

(* What a forge lists are reviews of the revision, each with its branch    *)
(* and whether it is merged; and it lists them all, but for Forgejo, which *)
(* names one.                                                              *)
LEMMA ForgeLists ==
  ASSUME NEW v, NEW answer \in Gate!Pulls(v)
  PROVE  /\ \A q \in answer : \E w \in Gate!Carriers(v) : q = Gate!Pull(w, forge.state[w] = "merged")
         /\ provider \in {"github", "gitlab"} \/ (\E w \in Reviews : Gate!Carriers(v) = {w}) =>
              \A w \in Gate!Carriers(v) : Gate!Pull(w, forge.state[w] = "merged") \in answer
<1> DEFINE S == Gate!Carriers(v)
           P(w) == Gate!Pull(w, forge.state[w] = "merged")
<1>1. CASE provider \in {"github", "gitlab"}
  <2>1. answer = {P(w) : w \in S}
    BY <1>1, Zenon DEF Gate!Pulls, Gate!githubPulls, Gate!gitlabPulls
  <2> HIDE DEF S, P
  <2> QED
    BY <2>1, Zenon DEF S, P
<1>2. CASE provider \notin {"github", "gitlab"}
  <2>1. answer \in Gate!forgejoPulls(v)
    BY <1>2, Zenon DEF Gate!Pulls
  <2>2. IF S = {} THEN answer = {} ELSE \E w \in S : answer = {P(w)}
    BY <2>1, Zenon DEF Gate!forgejoPulls
  <2> HIDE DEF S, P
  <2>3. /\ \A q \in answer : \E w \in S : q = P(w)
        /\ (\E w \in Reviews : S = {w}) => \A w \in S : P(w) \in answer
    BY <2>2, Zenon
  <2> QED
    BY <1>2, <2>3, Zenon DEF S, P
<1> QED
  BY <1>1, <1>2, Zenon

LEMMA PullRequestsKeep ==
  ASSUME GateInv, Gate!PullRequestsForRevision
  PROVE  GateInv'
<1>1. /\ UNCHANGED Gate!World /\ time' = time /\ faults' = faults /\ time' \in Int /\ faults' \in Int
      /\ provider' = provider /\ forge' = forge /\ forge \in Forges
      /\ call \in Calls /\ call.pc = "pulls"
  BY Zenon DEF Gate!PullRequestsForRevision, GateInv, GateType, Gate!World
<1>2. PICK answer \in Gate!Pulls(Gate!Revision) :
        IF {q \in answer : q.merged /\ q.base = call.branch} = {} THEN Gate!Return("refused")
        ELSE call' = [call EXCEPT !.pc = "ancestry", !.pulls = {q \in answer : q.merged /\ q.base = call.branch}]
  BY Zenon DEF Gate!PullRequestsForRevision
<1> DEFINE landed == {q \in answer : q.merged /\ q.base = call.branch}
<1>3. CASE landed = {}
  BY <1>1, <1>2, <1>3, EvaluationReturns, Zenon DEF Gate!Return
<1>4. CASE landed # {}
  <2>1. call' = [call EXCEPT !.pc = "ancestry", !.pulls = landed]
    BY <1>2, <1>4, Zenon
  <2>2. \A q \in landed : /\ q \in Evidence /\ q.review \in Gate!Carriers(Gate!Revision)
                          /\ Into[q.review] = call.branch /\ forge.state[q.review] = "merged"
    <3> TAKE q \in landed
    <3>1. PICK w \in Gate!Carriers(Gate!Revision) : q = Gate!Pull(w, forge.state[w] = "merged")
      BY ForgeLists, Zenon
    <3>2. w \in Reviews /\ Into[w] \in Branches
      BY HistoryAssumption, Zenon DEF Gate!Carriers
    <3>3. q.merged /\ q.base = call.branch
      BY Zenon
    <3>4. q = [review |-> w, base |-> Into[w], merged |-> forge.state[w] = "merged"]
      BY <3>1, Zenon DEF Gate!Pull
    <3>5. q.review = w /\ q.base = Into[w] /\ q.merged = (forge.state[w] = "merged") /\ q \in Evidence
      BY <3>2, <3>4, Zenon DEF Evidence
    <3> QED
      BY <3>3, <3>5, Zenon
  <2> HIDE DEF landed
  <2>3. /\ call' \in Calls /\ call'.plan = call.plan /\ call'.repository = call.repository
        /\ call'.branch = call.branch /\ call'.steady = call.steady /\ call'.pc = "ancestry" /\ call'.pulls = landed
    BY <1>1, <2>1, <2>2, Zenon DEF Calls, Asking
  <2>4. Gate!Revision' = Gate!Revision
    BY <2>3, Zenon DEF Gate!Revision
  <2>5. CallInv'
    <3>1. \A q \in call'.pulls : /\ q.review \in Gate!Carriers(Gate!Revision')
                                 /\ Into[q.review] = call'.branch /\ forge'.state[q.review] = "merged"
      BY <1>1, <2>2, <2>3, <2>4, Zenon
    <3> QED
      BY <1>1, <1>4, <2>3, <3>1, Zenon DEF GateInv, CallInv, Asking, Gate!Carriers
  <2> QED
    BY <1>1, <2>3, <2>5, EvaluationMoves, Zenon
<1> QED
  BY <1>3, <1>4, Zenon

(* A review that does not settle the matter is dropped for the next.       *)
LEMMA NextPullKeeps ==
  ASSUME GateInv, call.pc = "ancestry", NEW q \in call.pulls, call.pulls # {q}, UNCHANGED Gate!World, UNCHANGED time,
         faults' \in Int, NEW s \in {FALSE, call.steady}, call' = [call EXCEPT !.pulls = @ \ {q}, !.steady = s]
  PROVE  GateInv'
<1>1. call \in Calls /\ time' \in Int /\ provider' = provider /\ forge' = forge
  BY Zenon DEF GateInv, GateType, Gate!World
<1>2. /\ call' \in Calls /\ call'.plan = call.plan /\ call'.repository = call.repository
      /\ call'.branch = call.branch /\ call'.pc = "ancestry" /\ call'.pulls = call.pulls \ {q}
      /\ call'.steady => call.steady
  BY <1>1, Zenon DEF Calls
<1>3. Gate!Revision' = Gate!Revision
  BY <1>2, Zenon DEF Gate!Revision
<1>4. CallInv'
  <2>1. \A x \in call'.pulls : /\ x.review \in Gate!Carriers(Gate!Revision')
                               /\ Into[x.review] = call'.branch /\ forge'.state[x.review] = "merged"
    BY <1>1, <1>2, <1>3, Zenon DEF GateInv, CallInv
  <2> QED
    BY <1>1, <1>2, <2>1, Zenon DEF GateInv, CallInv, Asking, Gate!Carriers
<1> QED
  BY <1>1, <1>2, <1>4, EvaluationMoves, Zenon

LEMMA AncestryKeeps ==
  ASSUME GateInv, NEW q \in call.pulls, Gate!RevisionAncestry(q)
  PROVE  GateInv'
<1>1. /\ UNCHANGED Gate!World /\ UNCHANGED time /\ faults' \in Int /\ call.pc = "ancestry" /\ call \in Calls
      /\ Gate!Return("granted") \/ Gate!NextPull(q)
  BY Zenon DEF Gate!RevisionAncestry, GateInv, GateType
<1>2. CASE call' = Gate!Idle
  BY <1>1, <1>2, EvaluationReturns, Zenon
<1>3. CASE call' # Gate!Idle
  <2>1. call.pulls # {q} /\ call' = [call EXCEPT !.pulls = @ \ {q}]
    BY <1>1, <1>3, Zenon DEF Gate!NextPull, Gate!Return
  <2>2. call' = [call EXCEPT !.pulls = @ \ {q}, !.steady = call.steady]
    BY <1>1, <2>1, Zenon DEF Calls
  <2> QED
    BY <1>1, <2>1, <2>2, NextPullKeeps, Zenon
<1> QED
  BY <1>2, <1>3, Zenon

LEMMA FaultKeeps ==
  ASSUME GateInv, Gate!ErrUnavailable
  PROVE  GateInv'
<1>0. UNCHANGED Gate!World /\ UNCHANGED time /\ (faults' = faults \/ faults' = faults + 1)
  BY Zenon DEF Gate!ErrUnavailable
<1>1. UNCHANGED Gate!World /\ UNCHANGED time /\ faults' \in Int
  <2>1. faults \in Int
    BY Zenon DEF GateInv, GateType
  <2> QED
    BY <1>0, <2>1
<1>2. CASE call' = Gate!Idle
  BY <1>1, <1>2, EvaluationReturns, Zenon
<1>3. CASE call' # Gate!Idle
  <2>1. PICK q \in call.pulls : /\ call.pc = "ancestry" /\ call.pulls # {q}
                                /\ call' = [call EXCEPT !.pulls = @ \ {q}, !.steady = FALSE]
    BY <1>3, Zenon DEF Gate!ErrUnavailable, Gate!Return
  <2> QED
    BY <1>1, <2>1, NextPullKeeps, Zenon
<1> QED
  BY <1>2, <1>3, Zenon

(* Whatever the forge's users do, a merged review stays merged, and an     *)
(* evaluation meanwhile no longer counts as steady.                        *)
LEMMA ChangeKeeps ==
  ASSUME GateInv, NEW after \in Forges, Gate!Change(after),
         \A w \in Reviews : forge.state[w] = "merged" => after.state[w] = "merged"
  PROVE  GateInv'
<1>1. /\ forge' = after /\ UNCHANGED <<provider, time, approvals, signed, faults>> /\ call \in Calls
      /\ call' = IF Gate!Evaluating THEN [call EXCEPT !.steady = FALSE] ELSE call
  BY Zenon DEF Gate!Change, GateInv, GateType
<1>2. /\ call' \in Calls /\ call'.plan = call.plan /\ call'.repository = call.repository
      /\ call'.branch = call.branch /\ call'.pc = call.pc /\ call'.pulls = call.pulls
      /\ call'.pc # "idle" => ~call'.steady
  BY <1>1, Zenon DEF Gate!Evaluating, Calls
<1>3. Gate!Revision' = Gate!Revision
  BY <1>2, Zenon DEF Gate!Revision
<1>4. GateType'
  BY <1>1, <1>2, Zenon DEF GateInv, GateType
<1>5. FileInv'
  BY <1>1, Zenon DEF GateInv, FileInv
<1>6. call'.pc = "ancestry" =>
        \A q \in call'.pulls : /\ q.review \in Gate!Carriers(Gate!Revision')
                               /\ Into[q.review] = call'.branch /\ forge'.state[q.review] = "merged"
  BY <1>1, <1>2, <1>3, Zenon DEF GateInv, CallInv, Gate!Carriers
<1>7. CallInv'
  BY <1>1, <1>2, <1>6, Zenon DEF GateInv, CallInv, Asking, Gate!Carriers
<1> QED
  BY <1>4, <1>5, <1>7, Zenon DEF GateInv

LEMMA ForgeKeeps ==
  ASSUME GateInv,
         \/ \E w \in Reviews : Gate!Merge(w) \/ Gate!Close(w)
         \/ \E b \in Branches : Gate!SetDefault(b) \/ \E v \in DOMAIN History : Gate!ForcePush(b, v)
         \/ Gate!Move
  PROVE  GateInv'
<1>0. forge \in Forges
  BY Zenon DEF GateInv, GateType
<1>1. ASSUME NEW w \in Reviews, Gate!Merge(w)
      PROVE  GateInv'
  <2> DEFINE after == [forge EXCEPT !.state[w] = "merged", !.tips[Into[w]] = Lands[w]]
  <2>1. after \in Forges /\ \A x \in Reviews : forge.state[x] = "merged" => after.state[x] = "merged"
    BY <1>0, HistoryAssumption, Zenon DEF Forges
  <2>2. Gate!Change(after)
    BY <1>1, Zenon DEF Gate!Merge
  <2> HIDE DEF after
  <2> QED
    BY <2>1, <2>2, ChangeKeeps, Zenon
<1>2. ASSUME NEW w \in Reviews, Gate!Close(w)
      PROVE  GateInv'
  <2> DEFINE after == [forge EXCEPT !.state[w] = "closed"]
  <2>1. after \in Forges /\ \A x \in Reviews : forge.state[x] = "merged" => after.state[x] = "merged"
    BY <1>0, <1>2, Zenon DEF Forges, Gate!Close
  <2>2. Gate!Change(after)
    BY <1>2, Zenon DEF Gate!Close
  <2> HIDE DEF after
  <2> QED
    BY <2>1, <2>2, ChangeKeeps, Zenon
<1>3. ASSUME NEW b \in Branches, NEW v \in DOMAIN History, Gate!ForcePush(b, v)
      PROVE  GateInv'
  <2> DEFINE after == [forge EXCEPT !.tips[b] = v]
  <2>1. after \in Forges /\ \A x \in Reviews : forge.state[x] = "merged" => after.state[x] = "merged"
    BY <1>0, Zenon DEF Forges
  <2>2. Gate!Change(after)
    BY <1>3, Zenon DEF Gate!ForcePush
  <2> HIDE DEF after
  <2> QED
    BY <2>1, <2>2, ChangeKeeps, Zenon
<1>4. ASSUME NEW b \in Branches, Gate!SetDefault(b)
      PROVE  GateInv'
  <2> DEFINE after == [forge EXCEPT !.default = b]
  <2>1. after \in Forges /\ \A x \in Reviews : forge.state[x] = "merged" => after.state[x] = "merged"
    BY <1>0, Zenon DEF Forges
  <2>2. Gate!Change(after)
    BY <1>4, Zenon DEF Gate!SetDefault
  <2> HIDE DEF after
  <2> QED
    BY <2>1, <2>2, ChangeKeeps, Zenon
<1>5. ASSUME Gate!Move
      PROVE  GateInv'
  <2> DEFINE after == [forge EXCEPT !.moved = TRUE]
  <2>1. after \in Forges /\ \A x \in Reviews : forge.state[x] = "merged" => after.state[x] = "merged"
    BY <1>0, Zenon DEF Forges
  <2>2. Gate!Change(after)
    BY <1>5, Zenon DEF Gate!Move
  <2> HIDE DEF after
  <2> QED
    BY <2>1, <2>2, ChangeKeeps, Zenon
<1> QED
  BY <1>1, <1>2, <1>3, <1>4, <1>5, Zenon

(* ApprovePlan replaces the approval of one plan and repository.           *)
LEMMA ApprovalKeeps ==
  ASSUME GateInv, NEW p \in Plans, NEW r \in Gated, NEW k \in Signers, NEW l \in Lifetimes, Gate!ApprovePlan(p, r, k, l)
  PROVE  GateInv'
<1> DEFINE e == IF time + l > PlanExpiry[p] THEN PlanExpiry[p] ELSE time + l
           a == [plan |-> p, repository |-> r, key |-> k, expires |-> e]
<1>1. /\ approvals' = Gate!Others(p, r) \cup {a} /\ signed' = [signed EXCEPT ![<<p, r>>] = a]
      /\ UNCHANGED <<provider, time, forge, call, outcome, changes, faults>>
  BY Zenon DEF Gate!ApprovePlan, Gate!SignApproval
<1>2. GateType
  BY Zenon DEF GateInv
<1>3. e \in Int
  BY <1>2, TimeAssumption DEF GateType
<1>4. a \in Approvals /\ a.plan = p /\ a.repository = r
  BY <1>3, Zenon DEF Approvals
<1> HIDE DEF e, a
<1>5. signed \in [Plans \X Gated -> Approvals \cup {None}] /\ approvals \subseteq Approvals
  BY <1>2, Zenon DEF GateType
<1>6. signed' \in [Plans \X Gated -> Approvals \cup {None}] /\ approvals' \subseteq Approvals
  BY <1>1, <1>4, <1>5, Zenon DEF Gate!Others
<1>7. GateType'
  BY <1>1, <1>2, <1>6, Zenon DEF GateType
<1>8. /\ signed'[<<p, r>>] = a
      /\ \A x \in Plans, y \in Gated : (x # p \/ y # r) => signed'[<<x, y>>] = signed[<<x, y>>]
  BY <1>1, <1>5, Zenon
<1>9. ASSUME NEW b \in approvals'
      PROVE  b = signed'[<<b.plan, b.repository>>]
  <2>1. CASE b = a
    BY <1>4, <1>8, <2>1, Zenon
  <2>2. CASE b # a
    <3>1. b \in approvals /\ (b.plan # p \/ b.repository # r)
      BY <1>1, <2>2, Zenon DEF Gate!Others
    <3>2. b.plan \in Plans /\ b.repository \in Gated
      BY <1>5, <3>1, Zenon DEF Approvals
    <3>3. b = signed[<<b.plan, b.repository>>]
      BY <3>1, Zenon DEF GateInv, FileInv
    <3> QED
      BY <1>8, <3>1, <3>2, <3>3, Zenon
  <2> QED
    BY <2>1, <2>2, Zenon
<1>10. ASSUME NEW x \in Plans, NEW y \in Gated, signed'[<<x, y>>] # None
       PROVE  /\ signed'[<<x, y>>] \in approvals'
              /\ signed'[<<x, y>>].plan = x /\ signed'[<<x, y>>].repository = y
  <2>1. CASE x = p /\ y = r
    BY <1>1, <1>4, <1>8, <2>1
  <2>2. CASE x # p \/ y # r
    <3>1. signed'[<<x, y>>] = signed[<<x, y>>]
      BY <1>8, <2>2, Zenon
    <3>2. /\ signed[<<x, y>>] \in approvals
          /\ signed[<<x, y>>].plan = x /\ signed[<<x, y>>].repository = y
      BY <1>10, <3>1, Zenon DEF GateInv, FileInv
    <3>3. signed[<<x, y>>] \in Gate!Others(p, r)
      BY <2>2, <3>2, Zenon DEF Gate!Others
    <3> QED
      BY <1>1, <3>1, <3>2, <3>3
  <2> QED
    BY <2>1, <2>2, Zenon
<1>11. FileInv'
  BY <1>9, <1>10, Zenon DEF FileInv
<1>12. CallInv'
  BY <1>1, Zenon DEF GateInv, CallInv, Gate!Carriers, Gate!Revision
<1> QED
  BY <1>7, <1>11, <1>12, Zenon DEF GateInv

LEMMA GateStep ==
  ASSUME GateInv, [Gate!Next]_(Gate!vars)
  PROVE  GateInv'
<1>1. ASSUME UNCHANGED <<provider, forge, approvals, signed, call, faults>>, time' \in Int
      PROVE  GateInv'
  <2>1. GateType'
    BY <1>1, Zenon DEF GateInv, GateType
  <2>2. FileInv'
    BY <1>1, Zenon DEF GateInv, FileInv
  <2>3. CallInv'
    BY <1>1, Zenon DEF GateInv, CallInv, Gate!Carriers, Gate!Revision
  <2> QED
    BY <2>1, <2>2, <2>3, Zenon DEF GateInv
<1>2. time \in Int /\ faults \in Int
  BY Zenon DEF GateInv, GateType
<1>3. CASE UNCHANGED Gate!vars
  BY <1>1, <1>2, <1>3, Zenon DEF Gate!vars
<1>4. CASE Gate!Tick
  BY <1>1, <1>2, <1>4 DEF Gate!Tick
<1>5. CASE Gate!requireApproval
  <2>1. UNCHANGED Gate!World /\ UNCHANGED time /\ UNCHANGED faults /\ call' = Gate!Idle
    BY <1>5, Zenon DEF Gate!requireApproval, Gate!Return
  <2> QED
    BY <1>2, <2>1, EvaluationReturns, Zenon
<1>6. CASE \E p \in Plans, r \in Gated : Gate!authorize(p, r)
  BY <1>6, AuthorizeKeeps, Zenon
<1>7. CASE \E p \in Plans, r \in Gated, k \in Signers, l \in Lifetimes : Gate!ApprovePlan(p, r, k, l)
  BY <1>7, ApprovalKeeps, Zenon
<1>8. CASE Gate!Resolve \/ Gate!Repository \/ Gate!PullRequestsForRevision
  BY <1>8, ResolveKeeps, RepositoryKeeps, PullRequestsKeep, Zenon
<1>9. CASE \E q \in call.pulls : Gate!RevisionAncestry(q)
  BY <1>9, AncestryKeeps, Zenon
<1>10. CASE Gate!ErrUnavailable
  BY <1>10, FaultKeeps, Zenon
<1>11. CASE \/ \E w \in Reviews : Gate!Merge(w) \/ Gate!Close(w)
            \/ \E b \in Branches : Gate!SetDefault(b) \/ \E v \in DOMAIN History : Gate!ForcePush(b, v)
            \/ Gate!Move
  BY <1>11, ForgeKeeps, Zenon
<1> QED
  BY <1>3, <1>4, <1>5, <1>6, <1>7, <1>8, <1>9, <1>10, <1>11, Zenon DEF Gate!Next

----------------------------------------------------------------------------
(* What each way of ending an evaluation decides.                          *)

LEMMA ApprovalDecides ==
  ASSUME GateInv, Gate!requireApproval
  PROVE  Gate!GateDecides
<1> DEFINE s == signed[<<call.plan, call.repository>>]
<1>1. call.plan \in Plans /\ call.repository \in Gated /\ Policy[call.repository] = "approval"
  BY Zenon DEF Gate!requireApproval, GateInv, CallInv
<1>2. outcome' = IF \E a \in approvals : /\ a.plan = call.plan /\ a.repository = call.repository
                                         /\ call.now < a.expires /\ a.key \in ApprovalKeys[call.plan]
                 THEN "granted" ELSE "refused"
  BY Zenon DEF Gate!requireApproval, Gate!Return, Gate!verifyApproval
<1>3. s # None => s \in approvals /\ s.plan = call.plan /\ s.repository = call.repository
  BY <1>1, Zenon DEF GateInv, FileInv
<1>4. \A a \in approvals : a.plan = call.plan /\ a.repository = call.repository => a = s /\ a # None
  BY PolicyAssumption, Zenon DEF GateInv, FileInv, GateType, Approvals
<1> HIDE DEF s
<1>5. outcome' = "granted" => Gate!Live(s)
  BY <1>2, <1>4, Zenon DEF Gate!Live
<1>6. outcome' = "refused" => ~Gate!Live(s)
  BY <1>2, <1>3, Zenon DEF Gate!Live
<1> QED
  BY <1>1, <1>5, <1>6, Zenon DEF Gate!GateDecides, s

(* A refusal before the branch is compared: of a provider without an       *)
(* adapter, of a repository that moved, or of reviews none of which is     *)
(* merged into the default branch.                                         *)
LEMMA EarlyRefusalDecides ==
  ASSUME GateInv, Gate!Resolve \/ Gate!Repository \/ Gate!PullRequestsForRevision
  PROVE  Gate!GateDecides
<1> SUFFICES ASSUME Gate!Evaluating, ~Gate!Evaluating'
             PROVE  Gate!GateDecides
  BY Zenon DEF Gate!GateDecides
<1> DEFINE Listed == \/ provider \in {"github", "gitlab"}
                     \/ provider = "forgejo" /\ \E w \in Reviews : Gate!Carriers(Gate!Revision) = {w}
<1>1. call \in Calls /\ call.pc \in Asking /\ Policy[call.repository] # "approval"
  BY Zenon DEF GateInv, GateType, CallInv, Asking, Gate!Resolve, Gate!Repository, Gate!PullRequestsForRevision
<1>2. SUFFICES outcome' = "refused" /\ (call.steady /\ Listed => forge.moved \/ ~Gate!Landed(forge.default))
  BY <1>1, Zenon DEF Gate!GateDecides
<1>3. CASE Gate!Resolve
  <2>1. provider = "unknown" /\ outcome' = "refused"
    BY <1>1, <1>3, Zenon DEF Gate!Resolve, Gate!Return, Gate!Go, Gate!Evaluating, Calls
  <2> QED
    BY <2>1, Zenon
<1>4. CASE Gate!Repository
  <2>1. forge.moved /\ outcome' = "refused"
    BY <1>1, <1>4, Zenon DEF Gate!Repository, Gate!Return, Gate!Evaluating, Calls
  <2> QED
    BY <2>1, Zenon
<1>5. CASE Gate!PullRequestsForRevision
  <2>1. PICK answer \in Gate!Pulls(Gate!Revision) :
          IF {q \in answer : q.merged /\ q.base = call.branch} = {} THEN Gate!Return("refused")
          ELSE call' = [call EXCEPT !.pc = "ancestry", !.pulls = {q \in answer : q.merged /\ q.base = call.branch}]
    BY <1>5, Zenon DEF Gate!PullRequestsForRevision
  <2> DEFINE landed == {q \in answer : q.merged /\ q.base = call.branch}
  <2>2. landed = {} /\ outcome' = "refused"
    <3>1. CASE landed = {}
      BY <2>1, <3>1, Zenon DEF Gate!Return
    <3>2. CASE landed # {}
      <4>1. call' = [call EXCEPT !.pc = "ancestry", !.pulls = landed]
        BY <2>1, <3>2, Zenon
      <4> HIDE DEF landed
      <4>2. call'.pc = "ancestry"
        BY <1>1, <4>1, Zenon DEF Calls
      <4> QED
        BY <4>2, Zenon DEF Gate!Evaluating
    <3> QED
      BY <3>1, <3>2, Zenon
  <2>3. ASSUME call.steady, Listed
        PROVE  ~Gate!Landed(forge.default)
    <3>1. call.branch = forge.default
      BY <1>5, <2>3, Zenon DEF Gate!PullRequestsForRevision, GateInv, CallInv
    <3>2. ASSUME NEW w \in Gate!Carriers(Gate!Revision), forge.state[w] = "merged", Into[w] = forge.default
          PROVE  FALSE
      <4>1. Gate!Pull(w, forge.state[w] = "merged") \in answer
        BY <2>3, ForgeLists, Zenon
      <4>2. Gate!Pull(w, forge.state[w] = "merged").merged /\ Gate!Pull(w, forge.state[w] = "merged").base = call.branch
        BY <3>1, <3>2, Zenon DEF Gate!Pull
      <4> QED
        BY <2>2, <4>1, <4>2, Zenon
    <3> QED
      BY <3>2, Zenon DEF Gate!Landed
  <2> QED
    BY <2>2, <2>3, Zenon
<1> QED
  BY <1>3, <1>4, <1>5, Zenon

(* The comparison grants what the tip holds, and refuses what it does not. *)
LEMMA AncestryDecides ==
  ASSUME GateInv, NEW q \in call.pulls, Gate!RevisionAncestry(q)
  PROVE  Gate!GateDecides
<1> SUFFICES ASSUME Gate!Evaluating, ~Gate!Evaluating'
             PROVE  Gate!GateDecides
  BY Zenon DEF Gate!GateDecides
<1> DEFINE tip == forge.tips[call.branch]
<1>1. /\ call \in Calls /\ forge \in Forges /\ call.pc = "ancestry" /\ call.plan \in Plans /\ Policy[call.repository] = "pr"
      /\ provider \notin {"none", "unknown"} /\ call.branch \in Branches
      /\ call.steady => call.branch = forge.default
  BY Zenon DEF GateInv, GateType, CallInv, Asking, Gate!RevisionAncestry
<1>2. q.review \in Gate!Carriers(Gate!Revision) /\ Into[q.review] = call.branch /\ forge.state[q.review] = "merged"
  BY <1>1, Zenon DEF GateInv, CallInv
<1>3. tip \in DOMAIN History /\ Gate!Revision \in DOMAIN History
  BY <1>1, HistoryAssumption DEF Forges, Gate!Revision
<1>4. Gate!Reachable(Gate!Ancestry(Gate!Revision, tip)) <=> Gate!Revision \in History[tip]
  BY <1>3, ReachesJustWhenHeld, Zenon
<1>5. CASE Gate!Revision \in History[tip]
  <2>1. outcome' = "granted"
    BY <1>4, <1>5, Zenon DEF Gate!RevisionAncestry, Gate!Return
  <2>2. Gate!Landed(call.branch)
    BY <1>2, <1>5, Zenon DEF Gate!Landed
  <2>3. outcome' # "refused" /\ Policy[call.repository] # "approval"
    BY <1>1, <2>1, Zenon
  <2> QED
    BY <1>1, <2>2, <2>3, Zenon DEF Gate!GateDecides
<1>6. CASE Gate!Revision \notin History[tip]
  <2>1. Gate!NextPull(q)
    BY <1>4, <1>6, Zenon DEF Gate!RevisionAncestry
  <2>2. ~(call' = [call EXCEPT !.pulls = @ \ {q}])
    BY <1>1, Zenon DEF Gate!Evaluating, Calls
  <2>3. outcome' = "refused"
    BY <2>1, <2>2, Zenon DEF Gate!NextPull, Gate!Return
  <2>4. ~Gate!Landed(call.branch)
    BY <1>6, Zenon DEF Gate!Landed
  <2>5. outcome' # "granted" /\ Policy[call.repository] # "approval" /\ (call.steady => ~Gate!Landed(forge.default))
    BY <1>1, <2>3, <2>4, Zenon
  <2> QED
    BY <2>5, Zenon DEF Gate!GateDecides
<1> QED
  BY <1>5, <1>6, Zenon

(* What does not answer refuses, and counts as a fault unless it is the    *)
(* provider that never does.                                               *)
LEMMA FaultDecides ==
  ASSUME GateInv, Gate!ErrUnavailable
  PROVE  Gate!GateDecides
<1> SUFFICES ASSUME Gate!Evaluating, ~Gate!Evaluating'
             PROVE  Gate!GateDecides
  BY Zenon DEF Gate!GateDecides
<1>1. call \in Calls /\ faults \in Int
  BY Zenon DEF GateInv, GateType
<1>2. \A x : ~(call' = [call EXCEPT !.pulls = x, !.steady = FALSE])
  BY <1>1, Zenon DEF Gate!Evaluating, Calls
<1>3. outcome' = "refused"
  BY <1>2, Zenon DEF Gate!ErrUnavailable, Gate!Return
<1>4. Gate!unsupported \/ faults' = faults + 1
  BY Zenon DEF Gate!ErrUnavailable
<1>5. CASE Gate!unsupported
  <2>1. provider = "none" /\ Policy[call.repository] # "approval"
    BY <1>5, Zenon DEF Gate!unsupported, GateInv, CallInv, Asking
  <2> QED
    BY <1>3, <2>1, Zenon DEF Gate!GateDecides
<1>6. CASE faults' = faults + 1
  <2>1. faults' # faults /\ outcome' # "granted"
    BY <1>1, <1>3, <1>6
  <2> QED
    BY <2>1, Zenon DEF Gate!GateDecides
<1> QED
  BY <1>4, <1>5, <1>6, Zenon

LEMMA GateDecision ==
  ASSUME GateInv, [Gate!Next]_(Gate!vars)
  PROVE  Gate!GateDecides
<1> SUFFICES ASSUME Gate!Evaluating, ~Gate!Evaluating'
             PROVE  Gate!GateDecides
  BY Zenon DEF Gate!GateDecides
<1>1. call \in Calls
  BY Zenon DEF GateInv, GateType
<1>2. call' # call /\ call' # [call EXCEPT !.steady = FALSE]
  BY <1>1, Zenon DEF Gate!Evaluating, Calls
<1>3. CASE Gate!requireApproval
  BY <1>3, ApprovalDecides, Zenon
<1>4. CASE Gate!Resolve \/ Gate!Repository \/ Gate!PullRequestsForRevision
  BY <1>4, EarlyRefusalDecides, Zenon
<1>5. CASE \E q \in call.pulls : Gate!RevisionAncestry(q)
  BY <1>5, AncestryDecides, Zenon
<1>6. CASE Gate!ErrUnavailable
  BY <1>6, FaultDecides, Zenon
<1>7. /\ \A p \in Plans, r \in Gated : ~Gate!authorize(p, r)
      /\ \A p \in Plans, r \in Gated, k \in Signers, l \in Lifetimes : ~Gate!ApprovePlan(p, r, k, l)
  <2>1. ASSUME NEW p \in Plans, NEW r \in Gated, Gate!authorize(p, r)
        PROVE  FALSE
    BY <2>1, Zenon DEF Gate!authorize
  <2>2. ASSUME NEW p \in Plans, NEW r \in Gated, NEW k \in Signers, NEW l \in Lifetimes, Gate!ApprovePlan(p, r, k, l)
        PROVE  FALSE
    BY <2>2, Zenon DEF Gate!ApprovePlan
  <2> QED
    BY <2>1, <2>2, Zenon
<1>8. (\A after : ~Gate!Change(after)) /\ ~Gate!Tick /\ ~UNCHANGED Gate!vars
  BY <1>2, Zenon DEF Gate!Change, Gate!Tick, Gate!vars
<1>9. /\ \A w : ~Gate!Merge(w) /\ ~Gate!Close(w)
      /\ \A b, v : ~Gate!ForcePush(b, v) /\ ~Gate!SetDefault(b)
      /\ ~Gate!Move
  BY <1>8, Zenon DEF Gate!Merge, Gate!Close, Gate!ForcePush, Gate!SetDefault, Gate!Move
<1> QED
  BY <1>3, <1>4, <1>5, <1>6, <1>7, <1>8, <1>9, Zenon DEF Gate!Next

(* For any plans, approvers, branches, reviews and histories, and whatever *)
(* happens on the forge between the gate's requests: an effect is          *)
(* authorised only on evidence that stands, and evidence that stood and    *)
(* was answered for is not overlooked (gate.Authorize and the forge        *)
(* adapters).                                                              *)
THEOREM GateAlwaysDecides == Gate!Spec => GateDecides
<1>1. Gate!Init => GateInv
  <2> SUFFICES ASSUME Gate!Init PROVE GateInv
    BY Zenon
  <2>1. call.pc = "idle" /\ call \in Calls
    BY IdleIsCall, Zenon DEF Gate!Init
  <2>2. forge \in Forges
    BY HistoryAssumption, Zenon DEF Gate!Init, Forges
  <2>3. GateType
    BY <2>1, <2>2 DEF Gate!Init, GateType
  <2>4. FileInv
    BY Zenon DEF Gate!Init, FileInv
  <2>5. CallInv
    BY <2>1, Zenon DEF CallInv, Asking
  <2> QED
    BY <2>3, <2>4, <2>5, Zenon DEF GateInv
<1>2. GateInv /\ [Gate!Next]_(Gate!vars) => GateInv'
  BY GateStep, Zenon
<1>3. GateInv /\ [Gate!Next]_(Gate!vars) =>
        [(part \in {"approvals", "reviews"}) => Gate!GateDecides]_<<part, faults, gateVars>>
  BY GateDecision, Zenon
<1> QED
  BY <1>1, <1>2, <1>3, PTL DEF Gate!Spec, GateDecides
=============================================================================
