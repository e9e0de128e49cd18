-------------------------- MODULE WorkspaceStorage --------------------------
(***************************************************************************)
(* The parts of a workspace that keep files: the lock on disk and the blob *)
(* cache, each an instance of its module, with the properties that are its *)
(* own.                                                                    *)
(***************************************************************************)
EXTENDS Workspace

CONSTANTS
  Packages, PackageVersions, Torn, Refused, LockShardThreshold, MaxWrites,       \* shards
  Loaders, LoadSlots                                                             \* cache

VARIABLES
  root, shards, rootDisk, shardsDisk, shardDirectory, writer, reader,      \* shards
  head, acked, pending, writes,
  setup, file, object, facts, worker, putter                               \* cache

Shards == INSTANCE LockShards WITH Versions <- PackageVersions

Cache == INSTANCE BlobCache WITH Workers <- Loaders, Slots <- LoadSlots

shardVars == <<root, shards, rootDisk, shardsDisk, shardDirectory, writer, reader,
               head, acked, pending, writes>>
cacheVars == <<setup, file, object, facts, worker, putter>>
storageVars == <<part, faults, shardVars, cacheVars>>

----------------------------------------------------------------------------
(* shards: LoadLock beside a running WriteLock returns one whole lock,     *)
(* never some packages of the old one and some of the new.                 *)
NeverMixed == [][part = "shards" => Shards!NeverMixed]_storageVars

(* shards: an acknowledged lock survives power failure, a dead writer and  *)
(* a Git checkout, in either layout and on the way between them.           *)
AcknowledgedSurvives == part = "shards" => Shards!AcknowledgedSurvives

(* cache: a build gets only bytes that hash to the locked digest, and      *)
(* Store.Put succeeds only when the store holds them.                      *)
OnlyLockedBytes == part = "cache" => Cache!OnlyLockedBytes

(* cache: without a shared store a wrong cache file is left to be seen;    *)
(* only absence is made good from the origin (ensureBlob).                 *)
CorruptKept == [][part = "cache" => Cache!CorruptKept]_storageVars
=============================================================================
