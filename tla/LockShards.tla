----------------------------- MODULE LockShards -----------------------------
(***************************************************************************)
(* How a repository's lock is kept on disk: one file, or past a threshold  *)
(* a root and one file (shard) per package (internal/state/lockshard.go,   *)
(* LoadLock and WriteLock of internal/state/store.go).                     *)
(*                                                                         *)
(* The lock is a function from packages to what it says of them, 0 for     *)
(* nothing; a digest identifies what it digests.  Every file has a value   *)
(* that processes see and a value that is safe from a power failure; a     *)
(* rename that was not synced survives one, is lost in one, or leaves a    *)
(* torn file.  One process writes, holding the workspace lock; another     *)
(* reads without it, as RenderStatus does.                                 *)
(***************************************************************************)
EXTENDS Integers, FiniteSets

CONSTANTS Packages, Versions, Torn, Refused, None,
          LockShardThreshold,
          MaxWrites, MaxFaults   \* bounds

VARIABLES
  root,        \* the file at the lock path: its layout and what it states
  shards,      \* the shard files
  rootDisk, shardsDisk,   \* what of them is durable
  shardDirectory,         \* does the .d directory exist?
  writer,      \* the process in WriteLock
  reader,      \* a process in LoadLock
  head,        \* what Git has committed: root and shards
  acked,       \* the lock the last finished write or checkout left
  pending,     \* the locks of writes that were interrupted since
  writes, faults

vars == <<root, shards, rootDisk, shardsDisk, shardDirectory, writer, reader, head, acked,
          pending, writes, faults>>

Absent == 0
Locks == [Packages -> {Absent} \union Versions]
Held(l) == {p \in Packages : l[p] # Absent}
IdleWriter == [pc |-> "idle", lock |-> None, changed |-> {}]
IdleReader == [pc |-> "idle", root |-> None, left |-> {}, parsed |-> None, result |-> None]

(* Mutation: a shard that does not match its digest is read all the same.  *)
readShardUnchecked(r, p, content) == content \notin {Absent, Torn}

(* One worker of readShardedLock on one entry of the root's index.         *)
readShard(r, p, content) == content = r.lock[p]

(* LoadLock, when nothing else writes: the lock, or a refusal.             *)
LoadLock(r, files) ==
  IF r.layout = "whole" \/ \A p \in Held(r.lock) : readShard(r, p, files[p])
  THEN r.lock ELSE Refused

shouldShard(l) == Cardinality(Held(l)) > LockShardThreshold \/ shardDirectory

(* previousShardDigests: no digests when the root is not sharded.          *)
previous(p) == IF root.layout = "sharded" THEN root.lock[p] ELSE Absent

Init ==
  /\ root = [layout |-> "whole", lock |-> [p \in Packages |-> Absent]]
  /\ rootDisk = root
  /\ shards = [p \in Packages |-> Absent] /\ shardsDisk = shards
  /\ shardDirectory = FALSE
  /\ writer = IdleWriter /\ reader = IdleReader
  /\ head = [root |-> root, shards |-> shards]
  /\ acked = root.lock /\ pending = {}
  /\ writes = 0 /\ faults = 0

-----------------------------------------------------------------------------
(* A command loads the lock, changes it and calls WriteLock.               *)
WriteLock(l) ==
  /\ writer.pc = "idle" /\ writes < MaxWrites
  /\ LoadLock(root, shards) \notin {Refused, l}
  /\ writer' = [pc |-> IF shouldShard(l) THEN "shards" ELSE "root", lock |-> l, changed |-> {}]
  /\ shardDirectory' = (shardDirectory \/ shouldShard(l))
  /\ writes' = writes + 1
  /\ UNCHANGED <<root, shards, rootDisk, shardsDisk, reader, head, acked, pending, faults>>

ShardsWritten == \A p \in Held(writer.lock) : p \in writer.changed \/ previous(p) = writer.lock[p]

(* writeShardFile, in the map's order: an unsynced rename.                 *)
writeShardFile(p) ==
  /\ writer.pc = "shards"
  /\ p \in Held(writer.lock) \ writer.changed /\ previous(p) # writer.lock[p]
  /\ shards' = [shards EXCEPT ![p] = writer.lock[p]]
  /\ writer' = [writer EXCEPT !.changed = @ \union {p}]
  /\ UNCHANGED <<root, rootDisk, shardsDisk, shardDirectory, reader, head, acked, pending,
                 writes, faults>>

removeStaleShards(p) ==
  /\ writer.pc = "shards" /\ ShardsWritten
  /\ p \notin Held(writer.lock) /\ shards[p] # Absent
  /\ shards' = [shards EXCEPT ![p] = Absent]
  /\ UNCHANGED <<root, rootDisk, shardsDisk, shardDirectory, writer, reader, head, acked,
                 pending, writes, faults>>

ShardsDone ==
  writer.pc = "shards" /\ ShardsWritten /\ \A p \in Packages \ Held(writer.lock) : shards[p] = Absent

(* Mutation: the shards are left to the filesystem's own time.             *)
syncNothing ==
  /\ ShardsDone
  /\ writer' = [writer EXCEPT !.pc = "root"]
  /\ UNCHANGED <<root, shards, rootDisk, shardsDisk, shardDirectory, reader, head, acked,
                 pending, writes, faults>>

(* The changed shards and the directories that hold them.                  *)
syncPaths ==
  /\ ShardsDone
  /\ shardsDisk' = [p \in Packages |-> IF p \in writer.changed THEN shards[p] ELSE shardsDisk[p]]
  /\ writer' = [writer EXCEPT !.pc = "root"]
  /\ UNCHANGED <<root, shards, rootDisk, shardDirectory, reader, head, acked, pending,
                 writes, faults>>

(* atomicWrite of the root, or of the whole lock: rename ...               *)
RenameRoot ==
  /\ writer.pc = "root"
  /\ root' = [layout |-> IF shouldShard(writer.lock) THEN "sharded" ELSE "whole",
              lock |-> writer.lock]
  /\ writer' = [writer EXCEPT !.pc = "sync"]
  /\ UNCHANGED <<shards, rootDisk, shardsDisk, shardDirectory, reader, head, acked, pending,
                 writes, faults>>

(* ... and sync the directory; the write has succeeded.                    *)
SyncRoot ==
  /\ writer.pc = "sync"
  /\ rootDisk' = root
  /\ acked' = writer.lock /\ pending' = {}
  /\ writer' = IdleWriter
  /\ UNCHANGED <<root, shards, shardsDisk, shardDirectory, reader, head, writes, faults>>

-----------------------------------------------------------------------------
(* LoadLock beside a writer: the root first, then each shard it lists.  A  *)
(* root that is not sharded is read a second time to be decoded.           *)
ReadRoot ==
  /\ reader.pc = "idle"
  /\ reader' = [pc |-> "shards", root |-> root, result |-> None, parsed |-> root.lock,
                left |-> IF root.layout = "sharded" THEN Held(root.lock) ELSE {}]
  /\ UNCHANGED <<root, shards, rootDisk, shardsDisk, shardDirectory, writer, head, acked,
                 pending, writes, faults>>

ReadShard(p) ==
  /\ reader.pc = "shards" /\ p \in reader.left
  /\ reader' = IF readShard(reader.root, p, shards[p])
               THEN [reader EXCEPT !.left = @ \ {p}, !.parsed[p] = shards[p]]
               ELSE [reader EXCEPT !.pc = "done", !.result = Refused]
  /\ UNCHANGED <<root, shards, rootDisk, shardsDisk, shardDirectory, writer, head, acked,
                 pending, writes, faults>>

ReadDone ==
  /\ reader.pc = "shards" /\ reader.left = {}
  /\ reader' = [reader EXCEPT !.pc = "done",
       !.result = CASE reader.root.layout = "sharded" -> reader.parsed
                    [] root.layout = "sharded" -> Refused
                    [] OTHER -> root.lock]
  /\ UNCHANGED <<root, shards, rootDisk, shardsDisk, shardDirectory, writer, head, acked,
                 pending, writes, faults>>

ReaderLeaves ==
  /\ reader.pc = "done"
  /\ reader' = IdleReader
  /\ UNCHANGED <<root, shards, rootDisk, shardsDisk, shardDirectory, writer, head, acked,
                 pending, writes, faults>>

-----------------------------------------------------------------------------
Interrupted == IF writer.pc = "idle" THEN pending ELSE pending \union {writer.lock}

(* The writing process dies, or one of its calls fails and it gives up.    *)
Crash ==
  /\ writer.pc # "idle" /\ faults < MaxFaults
  /\ writer' = IdleWriter /\ pending' = Interrupted /\ faults' = faults + 1
  /\ UNCHANGED <<root, shards, rootDisk, shardsDisk, shardDirectory, reader, head, acked, writes>>

PowerFailure ==
  /\ faults < MaxFaults
  /\ \E survived \in SUBSET Packages, torn \in SUBSET Packages, r \in {root, rootDisk} :
       /\ torn \subseteq {p \in survived : shards[p] \notin {Absent, shardsDisk[p]}}
       /\ shards' = [p \in Packages |-> CASE p \in torn -> Torn
                                          [] p \in survived \ torn -> shards[p]
                                          [] OTHER -> shardsDisk[p]]
       /\ root' = r
  /\ shardsDisk' = shards' /\ rootDisk' = root'
  /\ writer' = IdleWriter /\ reader' = IdleReader
  /\ pending' = Interrupted /\ faults' = faults + 1
  /\ UNCHANGED <<shardDirectory, head, acked, writes>>

(* A person commits a lock that loads.                                     *)
Commit ==
  /\ writer.pc = "idle" /\ LoadLock(root, shards) # Refused
  /\ head' = [root |-> root, shards |-> shards]
  /\ UNCHANGED <<root, shards, rootDisk, shardsDisk, shardDirectory, writer, reader, acked,
                 pending, writes, faults>>

(* git checkout of the lock and its directory, the recovery writeShardedLock *)
(* names: tracked files come back, untracked ones stay.                    *)
Checkout ==
  /\ writer.pc = "idle" /\ pending # {}
  /\ root' = head.root /\ rootDisk' = root'
  /\ shards' = [p \in Packages |-> IF head.shards[p] = Absent THEN shards[p] ELSE head.shards[p]]
  /\ shardsDisk' = shards'
  /\ acked' = head.root.lock /\ pending' = {}
  /\ UNCHANGED <<shardDirectory, writer, reader, head, writes, faults>>

Next ==
  \/ \E l \in Locks : WriteLock(l)
  \/ \E p \in Packages : writeShardFile(p) \/ removeStaleShards(p) \/ ReadShard(p)
  \/ syncPaths \/ RenameRoot \/ SyncRoot
  \/ ReadRoot \/ ReadDone \/ ReaderLeaves
  \/ Crash \/ PowerFailure \/ Commit \/ Checkout

Spec == Init /\ [][Next]_vars

-----------------------------------------------------------------------------
(* What LoadLock returns beside a running write is one whole lock, the one *)
(* the root it read states, never some packages of it and some of the lock *)
(* being written.                                                          *)
NeverMixed ==
  reader'.result # reader.result /\ reader'.result \notin {None, Refused} =>
    reader'.result \in {reader.root.lock, root.lock}

(* An acknowledged write survives: from then on the lock loads as it, from *)
(* what processes see and from what a power failure would leave, until a   *)
(* later write is interrupted; and then it is refused whole or is the      *)
(* acknowledged or the interrupted lock.                                   *)
AcknowledgedSurvives ==
  writer.pc = "idle" =>
    \A l \in {LoadLock(root, shards), LoadLock(rootDisk, shardsDisk)} :
      l = acked \/ (pending # {} /\ l \in pending \union {Refused})
=============================================================================
