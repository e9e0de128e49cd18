----------------------------- MODULE SigningKeys -----------------------------
(***************************************************************************)
(* How a signing key comes to be named by the workspace manifest           *)
(* (engine/keys.go, the successor path of engine/rotation.go and the file  *)
(* backend in adapters/signer/file).  Four files have to agree: the        *)
(* encrypted private key, which lives outside the workspace, the two       *)
(* committed public forms, and the manifest.  They are written one after   *)
(* another, any write may fail, and the process may die between any two.   *)
(*                                                                         *)
(* A key is identified by the generation that produced it.  The workspace  *)
(* lock (state.AcquireWorkspaceLock) is held for a whole command, so one   *)
(* command runs at a time.  A command meets at most one failed call, the   *)
(* reason its own undoing succeeds; the number of failures and crashes     *)
(* over a behaviour is bounded by MaxFaults.                               *)
(***************************************************************************)
EXTENDS Naturals

CONSTANTS Names, None, MaxGeneration, MaxFaults

VARIABLES
    private,     \* the key store: name -> generation or None
    public,      \* name -> [binary, armor], each a generation or None
    keys,        \* manifest.Keys: name -> generation or None
    signing,     \* manifest.Repositories[Repository]: [active, successor]
    generation,  \* the number of keys generated so far
    cmd,         \* the running command and its progress
    faults

vars == <<private, public, keys, signing, generation, cmd, faults>>

Forms == {"binary", "armor"}
Idle == [op |-> "idle"]
Unsigned == [active |-> None, successor |-> None]

Init ==
    /\ private = [n \in Names |-> None]
    /\ public = [n \in Names |-> [f \in Forms |-> None]]
    /\ keys = [n \in Names |-> None]
    /\ signing = Unsigned
    /\ generation = 0
    /\ cmd = Idle
    /\ faults = 0

Running(step) == cmd.op # "idle" /\ cmd.step = step
Goto(step) == cmd' = [cmd EXCEPT !.step = step]

(* A call may fail once in a command. *)
MayFail == ~cmd.failed /\ faults < MaxFaults
Fails(step) ==
    /\ MayFail
    /\ faults' = faults + 1
    /\ cmd' = [cmd EXCEPT !.step = step, !.failed = TRUE]

Command(op, name) ==
    [op |-> op, name |-> name, step |-> "prepare", key |-> None,
     createdPrivate |-> FALSE, created |-> {}, failed |-> FALSE]

------------------------------------------------------------------------------
(* keys new: a name the manifest already has is refused. *)
NewKey(n) ==
    /\ cmd = Idle /\ keys[n] = None
    /\ cmd' = Command("new", n)
    /\ UNCHANGED <<private, public, keys, signing, generation, faults>>

(* keys rotate with a successor: the repository is signed, no rotation is  *)
(* under way and the successor is another key.  A successor the manifest   *)
(* has is used as it is; otherwise one is prepared like a new key.         *)
RotateKey(n) ==
    /\ cmd = Idle
    /\ signing.active \notin {None, n} /\ signing.successor = None
    /\ cmd' = [Command("rotate", n) EXCEPT !.step = IF keys[n] = None THEN "prepare" ELSE "validity",
                                           !.key = keys[n]]
    /\ UNCHANGED <<private, public, keys, signing, generation, faults>>

(* prepareSigningKey: a private key already in the store under this name is *)
(* adopted, whoever left it there; otherwise Generate creates one.         *)
prepareSigningKey ==
    /\ Running("prepare")
    /\ IF private[cmd.name] # None
       THEN /\ cmd' = [cmd EXCEPT !.step = "lstat", !.key = private[cmd.name]]
            /\ UNCHANGED <<private, generation, faults>>
       ELSE /\ generation < MaxGeneration
            /\ generation' = generation + 1
            /\ \/ /\ private' = [private EXCEPT ![cmd.name] = generation']
                  /\ cmd' = [cmd EXCEPT !.step = "lstat", !.key = generation',
                                        !.createdPrivate = TRUE]
                  /\ UNCHANGED faults
               \/ (* the write failed and was removed, or the directory sync did
                     and the file stays: Generate reports an error either way *)
                  /\ \/ UNCHANGED private
                     \/ private' = [private EXCEPT ![cmd.name] = generation']
                  /\ Fails("fail")
    /\ UNCHANGED <<public, keys, signing>>

(* persistPreparedSigningKey first records which public forms are absent,  *)
(* the ones its rollback will remove.                                      *)
RecordAbsent ==
    /\ Running("lstat")
    /\ cmd' = [cmd EXCEPT !.step = "binary",
                          !.created = {f \in Forms : public[cmd.name][f] = None}]
    /\ UNCHANGED <<private, public, keys, signing, generation, faults>>

(* state.WriteSigningPublic, one form: a file that holds the same bytes is *)
(* kept, one that holds others is refused, an absent one is written.       *)
WriteSigningPublic(f) ==
    LET existing == public[cmd.name][f]
        next == IF f = "binary" THEN "armor"
                ELSE CASE cmd.op = "new" -> "manifest"
                       [] cmd.op = "rotate" -> "validity"
                       [] cmd.op = "publish" -> "done"
    IN  /\ Running(f)
        /\ \/ existing = cmd.key /\ Goto(next) /\ UNCHANGED <<public, faults>>
           \/ existing \notin {None, cmd.key} /\ Goto("undo") /\ UNCHANGED <<public, faults>>
           \/ /\ existing = None
              /\ \/ /\ public' = [public EXCEPT ![cmd.name][f] = cmd.key]
                    /\ Goto(next) /\ UNCHANGED faults
                 \/ (* atomicWrite failed before its rename, or after it *)
                    /\ \/ UNCHANGED public
                       \/ public' = [public EXCEPT ![cmd.name][f] = cmd.key]
                    /\ Fails("undo")
        /\ UNCHANGED <<private, keys, signing, generation>>

(* RotateKey checks the successor's validity against the phases only now:  *)
(* a key that expires too early is refused and undone.                     *)
CheckValidity ==
    /\ Running("validity")
    /\ \/ Goto("manifest")
       \/ Goto("undo")
    /\ UNCHANGED <<private, public, keys, signing, generation, faults>>

Written ==
    /\ keys' = [keys EXCEPT ![cmd.name] = cmd.key]
    /\ signing' = IF cmd.op = "rotate" THEN [signing EXCEPT !.successor = cmd.name] ELSE signing

(* Mutation: any error of WriteManifest is taken for a manifest that was not written. *)
WriteManifestUnread ==
    /\ Running("manifest")
    /\ \/ Written /\ Goto("done") /\ UNCHANGED faults
       \/ UNCHANGED <<keys, signing>> /\ Fails("undo")
       \/ Written /\ Fails("undo")
    /\ UNCHANGED <<private, public, generation>>

(* state.WriteManifest.  A failure may come after the rename (the directory *)
(* could not be synced): manifestMatches reads the file back, and a command *)
(* whose manifest is in place counts as committed although it reports the  *)
(* error.                                                                  *)
WriteManifest ==
    /\ Running("manifest")
    /\ \/ Written /\ Goto("done") /\ UNCHANGED faults
       \/ UNCHANGED <<keys, signing>> /\ Fails("undo")
       \/ Written /\ Fails("done")
    /\ UNCHANGED <<private, public, generation>>

(* The deferred undoing, first half: the public forms this command found   *)
(* absent are removed, one at a time. *)
Rollback ==
    /\ Running("undo")
    /\ IF cmd.created = {}
       THEN Goto("fail") /\ UNCHANGED public
       ELSE \E f \in cmd.created :
                /\ public' = [public EXCEPT ![cmd.name][f] = None]
                /\ cmd' = [cmd EXCEPT !.created = @ \ {f}]
    /\ UNCHANGED <<private, keys, signing, generation, faults>>

(* Mutation: the private key is deleted although an earlier run left it there. *)
DeleteAlways ==
    /\ Running("fail")
    /\ private' = [private EXCEPT ![cmd.name] = None]
    /\ cmd' = Idle
    /\ UNCHANGED <<public, keys, signing, generation, faults>>

(* Second half: a private key this command generated is deleted. *)
Delete ==
    /\ Running("fail")
    /\ private' = IF cmd.createdPrivate THEN [private EXCEPT ![cmd.name] = None] ELSE private
    /\ cmd' = Idle
    /\ UNCHANGED <<public, keys, signing, generation, faults>>

(* keys publish: the private key must be the one the manifest names; its   *)
(* public forms are written back where they are missing.  Nothing is undone. *)
PublishKey(n) ==
    /\ cmd = Idle /\ keys[n] # None /\ private[n] = keys[n]
    /\ cmd' = [Command("publish", n) EXCEPT !.step = "binary", !.key = keys[n]]
    /\ UNCHANGED <<private, public, keys, signing, generation, faults>>

(* keys attach: an unsigned repository is signed by a key of the manifest; a *)
(* signed one has to rotate.  The single write either happens or does not.   *)
AttachKey(n) ==
    /\ cmd = Idle /\ keys[n] # None /\ signing.active = None
    /\ signing' = [signing EXCEPT !.active = n]
    /\ UNCHANGED <<private, public, keys, generation, cmd, faults>>

Return ==
    /\ Running("done")
    /\ cmd' = Idle
    /\ UNCHANGED <<private, public, keys, signing, generation, faults>>

------------------------------------------------------------------------------
(* The process dies; the files stay as they are. *)
Crash ==
    /\ cmd # Idle /\ faults < MaxFaults
    /\ faults' = faults + 1
    /\ cmd' = Idle
    /\ UNCHANGED <<private, public, keys, signing, generation>>

(* The operator discards the uncommitted manifest, or cleans the untracked *)
(* public forms of a key the manifest does not name.                       *)
DiscardManifest(n) ==
    /\ cmd = Idle /\ keys[n] # None
    /\ keys' = [keys EXCEPT ![n] = None]
    /\ signing' = IF signing.active = n THEN Unsigned
                  ELSE IF signing.successor = n THEN [signing EXCEPT !.successor = None]
                  ELSE signing
    /\ UNCHANGED <<private, public, generation, cmd, faults>>

CleanPublic(n, f) ==
    /\ cmd = Idle /\ public[n][f] # None
    /\ public' = [public EXCEPT ![n][f] = None]
    /\ UNCHANGED <<private, keys, signing, generation, cmd, faults>>

Next ==
    \/ \E n \in Names : NewKey(n) \/ RotateKey(n) \/ PublishKey(n) \/ AttachKey(n)
    \/ prepareSigningKey \/ RecordAbsent
    \/ \E f \in Forms : WriteSigningPublic(f)
    \/ CheckValidity \/ WriteManifest \/ Rollback \/ Delete \/ Return
    \/ Crash
    \/ \E n \in Names : DiscardManifest(n)
    \/ \E n \in Names, f \in Forms : CleanPublic(n, f)

Spec == Init /\ [][Next]_vars

------------------------------------------------------------------------------
(* A key the manifest names can sign: its private half is in the key store *)
(* and is the generation the manifest records, whichever write of NewKey or *)
(* RotateKey failed and wherever a process died.  A repository is signed   *)
(* only with such keys.                                                    *)
NamedKeyHeld ==
    /\ \A n \in Names : keys[n] # None => private[n] = keys[n]
    /\ \A n \in {signing.active, signing.successor} \ {None} : keys[n] # None

(* A command that failed or died can be run again: no public form on disk  *)
(* belongs to a private key that is gone or was replaced, so the next       *)
(* WriteSigningPublic of the name is never refused "refusing to overwrite   *)
(* public signing key".                                                     *)
Retryable ==
    \A n \in Names, f \in Forms : public[n][f] \in {None, private[n]}
==============================================================================
