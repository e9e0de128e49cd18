----------------------------- MODULE BlobCache ------------------------------
(***************************************************************************)
(* Where an artifact's bytes are kept and how they are admitted: the cache *)
(* under .snailmail/cas (internal/state/cas.go), the shared S3 store       *)
(* (adapters/blob/s3), the origin the lock records                         *)
(* (engine/origin_restore.go), the memo of derived facts                   *)
(* (internal/factscache), and loadLockedBlobs, which reads every locked    *)
(* blob of a repository at once (engine/locked_blobs.go).                  *)
(*                                                                         *)
(* One digest is modelled, named by several entries of the lock: bytes are *)
(* Good when they hash to it.  A cache file is [bytes, inode]: replacing   *)
(* it by rename gives it another inode, and LoadBlob compares the inode it *)
(* saw with the one it opened.  Another machine shares the store and puts  *)
(* the same blob there.                                                    *)
(***************************************************************************)
EXTENDS Integers, FiniteSets

CONSTANTS
  Workers,       \* loadLockedBlobs' goroutines, one per entry of the lock
  Slots,         \* maxConcurrentBlobLoads
  MaxFaults      \* bound

VARIABLES
  setup,     \* a shared store? a recorded origin and a fetcher? store checksums?
  file,      \* the cache file
  object,    \* the store's object: "absent", "good" or "foreign"
  facts,     \* is the memo filled?
  worker,    \* goroutine -> pc, the inode it saw, where its bytes came from, its temporary
  putter,    \* the other machine's Store.Put
  faults

vars == <<setup, file, object, facts, worker, putter, faults>>

Good == "good"
Idle == [pc |-> "wait", inode |-> 0, from |-> "cache", temporary |-> "none", got |-> "none"]
Running == {w \in Workers : worker[w].pc \notin {"wait", "loaded", "failed"}}

HasStore == setup.store
HasOrigin == setup.origin

Init ==
  /\ setup \in [store : BOOLEAN, origin : BOOLEAN, checksums : BOOLEAN]
  /\ \E b \in {"absent", "good", "bad"} : file = [bytes |-> b, inode |-> 0]
  /\ object \in IF HasStore THEN {"absent", "good"} \union (IF setup.checksums THEN {} ELSE {"foreign"})
                ELSE {"absent"}
  /\ facts = FALSE
  /\ worker = [w \in Workers |-> Idle]
  /\ putter = [pc |-> IF HasStore THEN "create" ELSE "off", err |-> FALSE]
  /\ faults = 0

Go(w, pc) == worker' = [worker EXCEPT ![w].pc = pc]

-----------------------------------------------------------------------------
(* loadLockedBlobs: slots <- struct{}{}, then ensureBlob.                  *)
TakeSlot(w) ==
  /\ worker[w].pc = "wait" /\ Cardinality(Running) < Slots
  /\ Go(w, "lstat")
  /\ UNCHANGED <<setup, file, object, facts, putter, faults>>

(* Mutation: any failure to load is made good from the origin.             *)
AfterLoadAny(w, absent) ==
  CASE worker[w].from # "cache" -> "failed"
    [] HasStore                 -> "fetch"
    [] ~HasStore /\ HasOrigin   -> "origin"
    [] OTHER                    -> "failed"

(* What an error of LoadBlob leads to: EnsureBlob asks the store, if there *)
(* is one; without one ensureBlob asks the origin, for an absent blob      *)
(* only; and a blob just installed is asked for nowhere again.             *)
AfterLoad(w, absent) ==
  CASE worker[w].from # "cache"         -> "failed"
    [] HasStore                         -> "fetch"
    [] ~HasStore /\ absent /\ HasOrigin -> "origin"
    [] OTHER                            -> "failed"

(* LoadBlobContext: Lstat ...                                              *)
Lstat(w) ==
  /\ worker[w].pc = "lstat"
  /\ IF file.bytes = "absent"
       THEN Go(w, AfterLoad(w, TRUE))
       ELSE worker' = [worker EXCEPT ![w].pc = "open", ![w].inode = file.inode]
  /\ UNCHANGED <<setup, file, object, facts, putter, faults>>

(* Mutation: a memo hit stands for the hash of the bytes.                  *)
VerifiedOrKnown(bytes) == bytes = Good \/ facts

Verified(bytes) == bytes = Good

(* ... then open, the same file, and validateLockedBlobOpenContext: hash   *)
(* every byte, and only then consult the memo.                             *)
Open(w) ==
  /\ worker[w].pc = "open"
  /\ IF file.inode = worker[w].inode /\ Verified(file.bytes)
       THEN facts' = TRUE /\ worker' = [worker EXCEPT ![w].pc = "loaded", ![w].got = file.bytes]
       ELSE UNCHANGED facts /\ Go(w, AfterLoad(w, FALSE))
  /\ UNCHANGED <<setup, file, object, putter, faults>>

(* The temporary file that InstallBlob fills.                              *)
Download(w, bytes, from) ==
  worker' = [worker EXCEPT ![w].pc = "install", ![w].temporary = bytes, ![w].from = from]

(* Store.Fetch into InstallBlob's temporary: absent, or bytes that are     *)
(* hashed on the way.  ErrNotFound reaches ensureBlob, which takes it for  *)
(* an absent blob whatever the cache holds.                                *)
Fetch(w) ==
  /\ worker[w].pc = "fetch"
  /\ CASE object = "good"    -> Download(w, object, "store")
       [] object = "foreign" -> Go(w, "failed")
       [] OTHER              -> Go(w, IF HasOrigin THEN "origin" ELSE "failed")
  /\ UNCHANGED <<setup, file, object, facts, putter, faults>>

(* restoreBlobFromOrigin: the same bytes, others, or an error.             *)
FetchOrigin(w) ==
  /\ worker[w].pc = "origin"
  /\ \/ Go(w, "failed")
     \/ \E served \in {"good", "bad"} : Download(w, served, "origin")
  /\ UNCHANGED <<setup, file, object, facts, putter, faults>>

(* InstallBlob: verify the temporary, then rename it over the target and   *)
(* load it from there.                                                     *)
InstallBlob(w) ==
  /\ worker[w].pc = "install"
  /\ IF Verified(worker[w].temporary)
       THEN /\ file' = [bytes |-> worker[w].temporary, inode |-> file.inode + 1]
            /\ facts' = TRUE
            /\ worker' = [worker EXCEPT ![w].pc = "lstat", ![w].temporary = "none"]
       ELSE /\ worker' = [worker EXCEPT ![w].pc = "failed", ![w].temporary = "none"]
            /\ UNCHANGED <<file, facts>>
  /\ UNCHANGED <<setup, object, putter, faults>>

-----------------------------------------------------------------------------
(* Store.Put on the other machine: create-only, then whatever the answer,  *)
(* an object that is there counts only when it is the blob.  Without a     *)
(* checksum of the store's own it is read back and hashed.                 *)
PutCreate ==
  /\ putter.pc = "create"
  /\ \/ /\ object = "absent"
        /\ object' = "good" /\ putter' = [pc |-> "verify", err |-> FALSE]
        /\ UNCHANGED faults
     \/ /\ object = "absent" /\ faults < MaxFaults      \* stored, answer lost
        /\ object' = "good" /\ putter' = [pc |-> "verify", err |-> TRUE]
        /\ faults' = faults + 1
     \/ /\ object = "absent" /\ faults < MaxFaults      \* not stored
        /\ putter' = [pc |-> "verify", err |-> TRUE]
        /\ faults' = faults + 1
        /\ UNCHANGED object
     \/ /\ object # "absent"                            \* ErrPrecondition
        /\ putter' = [pc |-> "verify", err |-> FALSE]
        /\ UNCHANGED <<object, faults>>
  /\ UNCHANGED <<setup, file, facts, worker>>

PutVerify ==
  /\ putter.pc = "verify"
  /\ putter' = [putter EXCEPT !.pc = IF object = "good" THEN "done" ELSE "failed"]
  /\ UNCHANGED <<setup, file, object, facts, worker, faults>>

(* A cache file rots, or somebody edits it in place.                       *)
Rot ==
  /\ faults < MaxFaults /\ file.bytes = "good"
  /\ file' = [file EXCEPT !.bytes = "bad"]
  /\ faults' = faults + 1
  /\ UNCHANGED <<setup, object, facts, worker, putter>>

Next ==
  \/ \E w \in Workers : TakeSlot(w) \/ Lstat(w) \/ Open(w) \/ Fetch(w) \/ FetchOrigin(w)
                          \/ InstallBlob(w)
  \/ PutCreate \/ PutVerify \/ Rot

Spec == Init /\ [][Next]_vars

-----------------------------------------------------------------------------
(* A build is given only bytes that hashed to the locked digest when they  *)
(* were read, whoever put the file there and whatever is memoised; and     *)
(* Store.Put reports success only for a store that really holds the blob.  *)
OnlyLockedBytes ==
  /\ \A w \in Workers : worker[w].pc = "loaded" => worker[w].got = Good
  /\ putter.pc = "done" => object = "good"

(* Without a shared store a cache file that this build found in place (it  *)
(* has its first inode) and that is wrong stays there to be seen: "Only    *)
(* absence is recoverable" (ensureBlob).                                   *)
CorruptKept ==
  ~HasStore /\ file.bytes = "bad" /\ file.inode = 0 => file' = file
=============================================================================
