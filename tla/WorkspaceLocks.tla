--------------------------- MODULE WorkspaceLocks ---------------------------
(***************************************************************************)
(* The commands of a workspace that change a lock, an instance of their    *)
(* module, with the properties that are their own.                         *)
(***************************************************************************)
EXTENDS Workspace

CONSTANTS
  LockArtifacts, LockTracks, StableTrack, VersionRank(_), Retention,
  ImportCheckpoint, LockFaults, IndexGrows, MaxFiles, MaxLockCommands

(* An artifact is its package, version, coordinate and digest.             *)
ASSUME ArtifactsAssumption ==
  \A a, b \in LockArtifacts :
    a.pkg = b.pkg /\ a.ver = b.ver /\ a.coord = b.coord /\ a.sha = b.sha => a = b

VARIABLES lock, ledger, cas, store, blobStore, cmd, last, commands

Locks == INSTANCE LockCommands WITH
  Artifacts <- LockArtifacts, Tracks <- LockTracks, Stable <- StableTrack, Rank <- VersionRank,
  Keep <- Retention, Checkpoint <- ImportCheckpoint, Faults <- LockFaults,
  MaxCommands <- MaxLockCommands

lockVars == <<lock, ledger, cas, store, blobStore, cmd, last, commands>>

----------------------------------------------------------------------------
(* locks: no command, finished or interrupted, leaves a lock that the next *)
(* command refuses to open: one that drops or changes a published binding  *)
(* stops every later command of the repository (ValidatePublishedBindings).*)
WrittenLockValid == part = "locks" => Locks!WrittenLockValid

(* locks: with a shared blob store configured every locked artifact is in  *)
(* it, whatever died between the blobs, the lock and the manifest.         *)
StoreHoldsLock == part = "locks" => Locks!StoreHoldsLock

(* locks: everything an import reports as imported is in the lock file     *)
(* with its origin, and nothing it reports as skipped was added.           *)
ImportReported == [][part = "locks" => Locks!ImportReported]_<<part, faults, lockVars>>

(* locks: prune withdraws a placement only when Keep strictly newer        *)
(* versions of the package stay on the same track.                         *)
PruneSparesNewest == [][part = "locks" => Locks!PruneSparesNewest]_<<part, faults, lockVars>>
=============================================================================
