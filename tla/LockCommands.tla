---------------------------- MODULE LockCommands ----------------------------
(***************************************************************************)
(* The commands that change one repository's lock: add, adopt and import,  *)
(* promote, yank, prune, and moving the blobs to another store             *)
(* (engine/workspace.go, adopt.go, adoptsession.go, import.go,             *)
(* placements.go, prune.go).                                               *)
(*                                                                         *)
(* Every command holds the workspace lock from its first read to its last  *)
(* write (AcquireWorkspaceLock), so one runs at a time; what interleaves   *)
(* with it is its own failures and the death of its process.  The lock     *)
(* file is replaced in one step here; module LockShards opens that step.   *)
(* A clone of the workspace carries the lock and the ledger, never the     *)
(* blob cache.                                                             *)
(***************************************************************************)
EXTENDS RepositoryLock

CONSTANTS
  Artifacts,    \* the artifacts people and indexes can name
  Tracks, Stable,  \* placement tracks; the one the repository publishes
  Keep,         \* the retention given to prune
  Checkpoint,   \* importCheckpointEvery
  Faults,       \* what can fail: subset of {"fetch", "disk", "crash"}
  IndexGrows,   \* may an index name new artifacts of a published version?
  MaxFiles, MaxCommands, MaxFaults   \* bounds

VARIABLES
  lock,         \* the lock file
  ledger,       \* what was published: LoadLedgerHistory
  cas,          \* digests in .snailmail/cas
  store,        \* digests in the shared blob store
  blobStore,    \* the manifest's blob store: "local" or "s3"
  cmd,          \* the running command, its lock in memory and its work list
  last,         \* the last command that finished
  commands, faults   \* counters, bounded

vars == <<lock, ledger, cas, store, blobStore, cmd, last, commands, faults>>

Idle == [name |-> "idle"]
Shas(S) == {a.sha : a \in S}
Valid(l) == ValidateLock(l) /\ ValidatePublishedBindings(l, ledger)

Init ==
  /\ lock = EmptyLock /\ ledger = {} /\ cas = {} /\ store = {} /\ blobStore = "local"
  /\ cmd = Idle /\ last = "none" /\ commands = 0 /\ faults = 0

(* AcquireWorkspaceLock, LoadManifest, LoadLock, ValidateLock,             *)
(* LoadLedgerHistory, ValidatePublishedBindings: how every command opens.  *)
Open ==
  /\ cmd = Idle /\ commands < MaxCommands /\ Valid(lock)
  /\ commands' = commands + 1

(* ConfigureBlobStore does not read the ledger.                            *)
OpenWithoutLedger ==
  /\ cmd = Idle /\ commands < MaxCommands /\ ValidateLock(lock)
  /\ commands' = commands + 1

Close(name) == cmd' = Idle /\ last' = name

(* A command that mutates the loaded lock and writes it when it changed.   *)
Rewrite(name, l) ==
  /\ Open
  /\ lock' = IF Valid(l) THEN l ELSE lock
  /\ Close(name)
  /\ UNCHANGED <<ledger, cas, store, blobStore, faults>>

Promote(v, track) ==
  /\ packageVersionExists(lock, v)
  /\ Rewrite("promote", PromotePlacement(lock, v, track))

Yank(v, track) ==
  /\ packageVersionExists(lock, v)
  /\ Rewrite("yank", YankPlacements(lock, v, track))

Prune == Rewrite("prune", PrunePlacements(lock, Keep))

(* A plan of this lock was reviewed and applied: module Apply.             *)
Publish ==
  /\ Open
  /\ visiblePackageVersions(lock, Stable) # {}
  /\ Shas(visiblePackageVersions(lock, Stable)) \subseteq cas  \* ensureBlob
  /\ ledger' = ledger \union publicationBindings(lock, Stable)
  /\ Close("publish")
  /\ UNCHANGED <<lock, cas, store, blobStore, faults>>

-----------------------------------------------------------------------------
(* AddArtifacts: store each artifact, and in the shared store too, then    *)
(* the lock in memory; one write of the lock at the end.                   *)
AddOpen(S) ==
  /\ Open
  /\ cmd' = [name |-> "add", mem |-> lock, todo |-> S]
  /\ UNCHANGED <<lock, ledger, cas, store, blobStore, last, faults>>

AddPut(a) ==
  /\ cmd.name = "add" /\ a \in cmd.todo
  /\ cas' = cas \union {a.sha}
  /\ store' = IF blobStore = "s3" THEN store \union {a.sha} ELSE store
  /\ IF Bound(cmd.mem, a)
       THEN Close("add")
       ELSE /\ cmd' = [cmd EXCEPT !.mem = AddBlob(@, a, Stable), !.todo = @ \ {a}]
            /\ UNCHANGED last
  /\ UNCHANGED <<lock, ledger, blobStore, commands, faults>>

(* Mutation: what is published already is not looked at.                   *)
AddWriteUnchecked ==
  /\ cmd.name = "add" /\ cmd.todo = {}
  /\ lock' = cmd.mem
  /\ Close("add")
  /\ UNCHANGED <<ledger, cas, store, blobStore, commands, faults>>

AddWrite ==
  /\ cmd.name = "add" /\ cmd.todo = {}
  /\ lock' = IF ValidatePublishedBindings(cmd.mem, ledger) THEN cmd.mem ELSE lock
  /\ Close("add")
  /\ UNCHANGED <<ledger, cas, store, blobStore, commands, faults>>

-----------------------------------------------------------------------------
(* ImportRepository: one adopt session over everything an index names.     *)
(* AdoptArtifact changes the session's lock in memory before it validates  *)
(* it and before it stores the bytes, and an artifact that fails after     *)
(* that is skipped with its change left in memory.                         *)
Importable(S) ==
  IndexGrows \/ \A a \in S, r \in ledger : SameVersion(a, r) => a.sha \in r.shas

openAdoptSession(S) ==
  /\ Open
  /\ blobStore = "local"
  /\ Importable(S)
  /\ cmd' = [name |-> "import", mem |-> lock, before |-> lock, todo |-> S, dirty |-> FALSE,
             imported |-> {}, skipped |-> {}]
  /\ UNCHANGED <<lock, ledger, cas, store, blobStore, last, faults>>

Checkpointed == Cardinality(cmd.imported) % Checkpoint = 0 => ~cmd.dirty

(* Unreachable, or bytes that do not match the digest the index states.    *)
AdoptFetchFails(a) ==
  /\ "fetch" \in Faults /\ faults < MaxFaults
  /\ cmd.name = "import" /\ a \in cmd.todo /\ Checkpointed
  /\ cmd' = [cmd EXCEPT !.todo = @ \ {a}, !.skipped = @ \union {a}]
  /\ faults' = faults + 1
  /\ UNCHANGED <<lock, ledger, cas, store, blobStore, last, commands>>

AdoptArtifact(a) ==
  /\ cmd.name = "import" /\ a \in cmd.todo /\ Checkpointed
  /\ LET mem == SetBlobOrigin(AddBlob(cmd.mem, a, Stable), a)
         skip == [cmd EXCEPT !.todo = @ \ {a}, !.skipped = @ \union {a}]
     IN \/ /\ Bound(cmd.mem, a)
           /\ cmd' = skip
           /\ UNCHANGED <<cas, faults>>
        \/ /\ ~Bound(cmd.mem, a) /\ ~Valid(mem)
           /\ cmd' = [skip EXCEPT !.mem = mem]
           /\ UNCHANGED <<cas, faults>>
        \/ /\ ~Bound(cmd.mem, a) /\ Valid(mem)
           /\ "disk" \in Faults /\ faults < MaxFaults  \* PutArtifact fails
           /\ cmd' = [skip EXCEPT !.mem = mem]
           /\ faults' = faults + 1
           /\ UNCHANGED cas
        \/ /\ ~Bound(cmd.mem, a) /\ Valid(mem)
           /\ cas' = cas \union {a.sha}
           /\ cmd' = [cmd EXCEPT !.mem = mem, !.todo = @ \ {a}, !.imported = @ \union {a},
                                 !.dirty = @ \/ mem # cmd.mem]
           /\ UNCHANGED faults
  /\ UNCHANGED <<lock, ledger, store, blobStore, last, commands>>

(* Mutation: the last checkpoint is taken to be the end.                   *)
flushAtCheckpoint ==
  /\ cmd.name = "import" /\ cmd.dirty
  /\ cmd.todo = {} \/ ~Checkpointed
  /\ lock' = IF ~Checkpointed THEN cmd.mem ELSE lock
  /\ cmd' = [cmd EXCEPT !.dirty = FALSE]
  /\ UNCHANGED <<ledger, cas, store, blobStore, last, commands, faults>>

(* flush, at a checkpoint or at the end.                                   *)
flush ==
  /\ cmd.name = "import" /\ cmd.dirty
  /\ cmd.todo = {} \/ ~Checkpointed
  /\ lock' = cmd.mem
  /\ cmd' = [cmd EXCEPT !.dirty = FALSE]
  /\ UNCHANGED <<ledger, cas, store, blobStore, last, commands, faults>>

ImportReports ==
  /\ cmd.name = "import" /\ cmd.todo = {} /\ ~cmd.dirty
  /\ Close("import")
  /\ UNCHANGED <<lock, ledger, cas, store, blobStore, commands, faults>>

-----------------------------------------------------------------------------
(* ConfigureBlobStore: every locked blob is brought here and put into the  *)
(* new store before the manifest names that store.                         *)
ConfigureOpen(target) ==
  /\ OpenWithoutLedger
  /\ cmd' = [name |-> "configure", target |-> target, todo |-> lock.blobs]
  /\ UNCHANGED <<lock, ledger, cas, store, blobStore, last, faults>>

Reachable(a) == a.sha \in cas \/ (blobStore = "s3" /\ a.sha \in store)

ConfigureBlob(a) ==
  /\ cmd.name = "configure" /\ a \in cmd.todo
  /\ IF Reachable(a)
       THEN /\ cas' = cas \union {a.sha}
            /\ store' = IF cmd.target = "s3" THEN store \union {a.sha} ELSE store
            /\ cmd' = [cmd EXCEPT !.todo = @ \ {a}]
            /\ UNCHANGED last
       ELSE /\ Close("configure")
            /\ UNCHANGED <<cas, store>>
  /\ UNCHANGED <<lock, ledger, blobStore, commands, faults>>

(* Mutation: the manifest is written before the blobs have moved.          *)
ConfigureWriteEarly ==
  /\ cmd.name = "configure"
  /\ blobStore' = cmd.target
  /\ Close("configure")
  /\ UNCHANGED <<lock, ledger, cas, store, commands, faults>>

ConfigureWrite ==
  /\ cmd.name = "configure" /\ cmd.todo = {}
  /\ blobStore' = cmd.target
  /\ Close("configure")
  /\ UNCHANGED <<lock, ledger, cas, store, commands, faults>>

-----------------------------------------------------------------------------
(* A build on a machine whose cache lacks a blob: ensureBlob, from the     *)
(* shared store or from the origin the lock records.                       *)
ensureBlob(a) ==
  /\ cmd = Idle /\ a \in lock.blobs /\ a.sha \notin cas
  /\ (blobStore = "s3" /\ a.sha \in store) \/ a \in lock.origin
  /\ cas' = cas \union {a.sha}
  /\ UNCHANGED <<lock, ledger, store, blobStore, cmd, last, commands, faults>>

Crash ==
  /\ "crash" \in Faults /\ faults < MaxFaults
  /\ cmd # Idle
  /\ cmd' = Idle /\ last' = "crash" /\ faults' = faults + 1
  /\ UNCHANGED <<lock, ledger, cas, store, blobStore, commands>>

(* Work continues in a fresh clone.                                        *)
Clone ==
  /\ cmd = Idle /\ cas # {} /\ faults < MaxFaults
  /\ cas' = {} /\ faults' = faults + 1
  /\ UNCHANGED <<lock, ledger, store, blobStore, cmd, last, commands>>

Next ==
  \/ \E v \in lock.blobs, track \in Tracks : Promote(v, track)
  \/ \E v \in lock.blobs, track \in Tracks \union {"all"} : Yank(v, track)
  \/ Prune \/ Publish
  \/ \E S \in SUBSET Artifacts : Cardinality(S) \in 1 .. MaxFiles /\ (AddOpen(S) \/ openAdoptSession(S))
  \/ \E a \in Artifacts : AddPut(a) \/ AdoptFetchFails(a) \/ AdoptArtifact(a)
  \/ AddWrite \/ flush \/ ImportReports
  \/ \E target \in {"local", "s3"} : ConfigureOpen(target)
  \/ \E a \in Artifacts : ConfigureBlob(a) \/ ensureBlob(a)
  \/ ConfigureWrite
  \/ Crash \/ Clone

Spec == Init /\ [][Next]_vars

-----------------------------------------------------------------------------
(* No command, finished or interrupted, leaves a lock that the next        *)
(* command refuses to open.  ValidatePublishedBindings in LoadLock's       *)
(* callers has no repair: a lock that drops or changes a published binding *)
(* stops every later command of that repository.                           *)
WrittenLockValid == Valid(lock)

(* With a shared blob store configured, every locked artifact is in it, so *)
(* a clone with an empty cache can build: blobs are put before the lock    *)
(* names them (AddArtifacts) and before the manifest names the store       *)
(* (ConfigureBlobStore), whatever dies in between.                         *)
StoreHoldsLock == blobStore = "s3" => Shas(lock.blobs) \subseteq store

(* What an import reports is what the lock file says: everything imported  *)
(* is recorded with its origin, and nothing it skipped has been added.     *)
ImportReported ==
  last' = "import" /\ cmd' = Idle /\ cmd # Idle /\ cmd.name = "import" =>
    /\ cmd.imported \subseteq lock'.blobs \intersect lock'.origin
    /\ cmd.skipped \intersect lock'.blobs \subseteq cmd.before.blobs

(* Prune withdraws a placement only when Keep strictly newer versions of   *)
(* the same package stay on the same track, and withdraws nothing else.    *)
PruneSparesNewest ==
  last' = "prune" /\ commands' # commands /\ lock' # lock =>
    /\ lock' = [lock EXCEPT !.placements = lock'.placements]
    /\ \A p \in lock.placements \ lock'.placements :
         Cardinality({q \in lock'.placements :
           q.pkg = p.pkg /\ q.track = p.track /\ Rank(q.ver) > Rank(p.ver)}) >= Keep
=============================================================================
