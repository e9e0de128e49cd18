------------------------------ MODULE S3Host ------------------------------
(***************************************************************************)
(* The object-store host, adapters/host/s3/s3.go and collect.go: several   *)
(* runners stage, commit, restore and abort publications of one repository *)
(* in one bucket, each request a step of its own.  A runner may crash      *)
(* between any two requests, a request may fail with or without its        *)
(* effect, a root PUT whose answer was lost may be applied much later, and *)
(* the fifteen-minute lease may expire under its holder.                   *)
(*                                                                         *)
(* A published root is the pair of the plan and of the stage it came from: *)
(* the stage identifier is also the restore identifier, and the release,   *)
(* manifest and restore digests of the root's metadata are functions of    *)
(* the two because every object they name is written once, If-None-Match.  *)
(***************************************************************************)
EXTENDS Naturals, FiniteSets

CONSTANTS
  Runners,       \* invocations of the engine that use the bucket
  Plans,         \* reviewed plans, one change each
  Stages,        \* supply of random stage identifiers
  Trees,         \* tree digests
  Paths,         \* file paths of a tree
  RootPath,      \* the one commit path, singleRootPath
  FilesOf,       \* tree -> its paths
  RootRewriter,  \* does the format rebind its root (pypi), or not (helm, rpm)?
  Resends,       \* does the store client resend a PUT whose answer was lost (the SDK's retryer)?
  Absent,        \* there is no root object
  Unmanaged,     \* a root object that carries no publication metadata
  None           \* no plan, stage, lease, page...

ASSUME FilesAssumption == FilesOf \in [Trees -> SUBSET Paths] /\ \A t \in Trees : RootPath \in FilesOf[t]
ASSUME SwitchAssumption == RootRewriter \in BOOLEAN /\ Resends \in BOOLEAN
ASSUME NoneAssumption == None \notin Plans \union Stages \union Trees

Revisions == [plan : Plans, id : Stages]

ASSUME RootAssumption == Absent # Unmanaged /\ {Absent, Unmanaged, None} \intersect Revisions = {}
                          /\ None \notin {Absent, Unmanaged}

(* What PlanWorkspace writes down for a plan.                              *)
PlanFiles == [tree : Trees, expected : Revisions \union {Absent, Unmanaged}]

(* The mark is no plan file.                                               *)
ASSUME MarkAssumption == None \notin PlanFiles

VARIABLES
  plans,      \* plan -> [tree, expected] or None
  root,       \* the canonical root object
  stages,     \* stage -> the plan whose files and descriptor are stored there, or None
  pointer,    \* plan -> the stage its effect pointer names, or None
  objects,    \* published file objects
  releases,   \* trees that have a release descriptor
  manifests,  \* plans whose publication manifest is stored
  retained,   \* restore -> the bytes of the root retained for it, or None
  restores,   \* restore -> the root its descriptor says was replaced, or None
  lease,      \* commit.lock: [owner, expired] or None
  page,       \* the tree the browsable page lists, or None
  late,       \* root writes with a lost answer that the store may still apply
  lived,      \* history: the revisions that have been live
  session     \* runner -> where its invocation is

staging == <<stages, pointer>>
release == <<objects, releases, manifests>>
undo    == <<retained, restores>>
live    == <<root, late, lived>>
vars    == <<plans, staging, release, undo, live, lease, page, session>>

----------------------------------------------------------------------------
(* Objects and revisions                                                   *)

Idle == [pc |-> "idle", op |-> "none", plan |-> None, id |-> None, copied |-> {}, holder |-> None, ok |-> FALSE]

(* publishedFileKey: a rebound format keeps its whole tree in the release  *)
(* directory; the others write all but the root at canonical paths, which  *)
(* every tree that contains the path shares.                               *)
publishedFileKey(t, f) ==
  IF RootRewriter \/ f = RootPath THEN [dir |-> t, path |-> f] ELSE [dir |-> None, path |-> f]

KeysOf(t) == {publishedFileKey(t, f) : f \in FilesOf[t]}

TreeOf(r) == plans[r.plan].tree

(* rewriteRoot: a rebound root carries its whole binding in its bytes, any *)
(* other only in its metadata.  The store derives an ETag from the bytes.  *)
Bytes(r) == IF r \in Revisions /\ ~RootRewriter THEN TreeOf(r) ELSE r

(* The objects a revision is served from and identified by.                *)
Materialized(r) ==
  r \in Revisions =>
    /\ TreeOf(r) \in releases
    /\ KeysOf(TreeOf(r)) \subseteq objects
    /\ r.plan \in manifests

(* Everything Observe reads before it vouches for the root.                *)
Intact(r) ==
  /\ Materialized(r)
  /\ r \in Revisions =>
       /\ restores[r.id] # None
       /\ restores[r.id] # Absent => retained[r.id] = Bytes(restores[r.id])

Init ==
  /\ plans = [p \in Plans |-> None]
  /\ root \in {Absent, Unmanaged}
  /\ stages = [s \in Stages |-> None]
  /\ pointer = [p \in Plans |-> None]
  /\ objects = {} /\ releases = {} /\ manifests = {}
  /\ retained = [s \in Stages |-> None]
  /\ restores = [s \in Stages |-> None]
  /\ lease = None
  /\ page = None
  /\ late = {} /\ lived = {}
  /\ session = [r \in Runners |-> Idle]

(* PlanWorkspace records what Observe returned as the expected revision.   *)
MakePlan(p, t) ==
  /\ plans[p] = None
  /\ Intact(root)
  /\ plans' = [plans EXCEPT ![p] = [tree |-> t, expected |-> root]]
  /\ UNCHANGED <<staging, release, undo, live, lease, page, session>>

----------------------------------------------------------------------------
(* Runner bookkeeping                                                      *)

At(r, pc) == session[r].pc = pc
Revision(r) == [plan |-> session[r].plan, id |-> session[r].id]
Expected(r) == plans[session[r].plan].expected
Tree(r) == plans[session[r].plan].tree

(* The lease body is the stage identifier, or "restore-" and it.           *)
Owner(r) == [restore |-> session[r].op # "commit", id |-> session[r].id]

Goto(r, pc) == session' = [session EXCEPT ![r].pc = pc]
Finish(r, ok) == session' = [session EXCEPT ![r].pc = "unlock", ![r].ok = ok]

(* An apply aborts its stage when it is done with it; a rollback has none. *)
Leave(r) == IF session[r].op = "rollback" THEN session' = [session EXCEPT ![r] = Idle] 
            ELSE session' = [session EXCEPT ![r].pc = "abort", ![r].op = "commit", ![r].holder = None]

(* Holding the lease, or the next request would be made holding it.        *)
Holding == {"observe", "copy", "manifest", "retain", "restore", "root", "post", "examine", "validate", "put"}

----------------------------------------------------------------------------
(* Stage                                                                   *)

Begin(r, p, s, pc) ==
  session' = [session EXCEPT ![r] = [Idle EXCEPT !.pc = pc, !.op = "commit", !.plan = p, !.id = s]]

(* An exact retry finds the effect pointer and shares the stage it names.  *)
StageReuse(r, p) ==
  /\ At(r, "idle") /\ plans[p] # None
  /\ pointer[p] # None /\ stages[pointer[p]] = p
  /\ Begin(r, p, pointer[p], "lock")
  /\ UNCHANGED <<plans, staging, release, undo, live, lease, page>>

Fresh(s) ==
  /\ stages[s] = None /\ retained[s] = None /\ restores[s] = None
  /\ \A r \in Runners : session[r].id # s
  /\ \A p \in Plans : pointer[p] # s

(* Without a pointer the tree is uploaded under a new identifier, files    *)
(* before descriptor.  Nobody else knows the identifier, and an upload     *)
(* that fails is removed again: one step.                                  *)
StageUpload(r, p, s) ==
  /\ At(r, "idle") /\ plans[p] # None
  /\ pointer[p] = None
  /\ Fresh(s)
  /\ stages' = [stages EXCEPT ![s] = p]
  /\ Begin(r, p, s, "point")
  /\ UNCHANGED <<plans, pointer, release, undo, live, lease, page>>

(* PUT the effect pointer, If-None-Match.                                  *)
PublishPointer(r) ==
  LET p == session[r].plan IN
  /\ At(r, "point")
  /\ IF pointer[p] = None
     THEN pointer' = [pointer EXCEPT ![p] = session[r].id] /\ Goto(r, "lock")
     ELSE UNCHANGED pointer /\ Goto(r, "adopt")
  /\ UNCHANGED <<plans, stages, release, undo, live, lease, page>>

(* The answer to that PUT is lost.  A client that resends the request then *)
(* reads its own effect as a conflict.                                     *)
PointerUnanswered(r) ==
  LET p == session[r].plan IN
  /\ At(r, "point")
  /\ pointer[p] = None
  /\ \/ UNCHANGED pointer /\ Goto(r, "reconcile")
     \/ /\ pointer' = [pointer EXCEPT ![p] = session[r].id]
        /\ IF Resends THEN Goto(r, "adopt") ELSE Goto(r, "reconcile")
  /\ UNCHANGED <<plans, stages, release, undo, live, lease, page>>

\* Mutation: a lost answer is taken for a failure.
ReconcileGivesUp(r) ==
  /\ At(r, "reconcile")
  /\ session' = [session EXCEPT ![r] = Idle]
  /\ stages' = [stages EXCEPT ![session[r].id] = None]
  /\ UNCHANGED <<plans, pointer, release, undo, live, lease, page>>

(* After an error other than a failed precondition: is the pointer ours?   *)
(* If not, Stage fails and its deferred cleanup removes the upload.        *)
ReconcilePointer(r) ==
  LET s == session[r].id IN
  /\ At(r, "reconcile")
  /\ IF pointer[session[r].plan] = s
     THEN Goto(r, "lock") /\ UNCHANGED stages
     ELSE session' = [session EXCEPT ![r] = Idle] /\ stages' = [stages EXCEPT ![s] = None]
  /\ UNCHANGED <<plans, pointer, release, undo, live, lease, page>>

(* After a failed precondition: load the stage the pointer names, remove   *)
(* the own upload, and go on with the loaded one if it is the same effect. *)
AdoptPointer(r) ==
  LET p == session[r].plan
      adopted == pointer[p] # None /\ stages[pointer[p]] = p IN
  /\ At(r, "adopt")
  /\ stages' = [stages EXCEPT ![session[r].id] = None]
  /\ session' = [session EXCEPT ![r] = IF adopted THEN [@ EXCEPT !.pc = "lock", !.id = pointer[p]] ELSE Idle]
  /\ UNCHANGED <<plans, pointer, release, undo, live, lease, page>>

(* Abort removes the effect pointer if it still names this stage, and      *)
(* leaves the stage itself to whoever else holds its handle.               *)
Abort(r) ==
  LET p == session[r].plan
      s == session[r].id IN
  /\ At(r, "abort")
  /\ pointer' = IF stages[s] = p /\ pointer[p] = s THEN [pointer EXCEPT ![p] = None] ELSE pointer
  /\ session' = [session EXCEPT ![r] = Idle]
  /\ UNCHANGED <<plans, stages, release, undo, live, lease, page>>

----------------------------------------------------------------------------
(* The lease                                                               *)

FirstHeld(r) == IF session[r].op = "commit" THEN "observe" ELSE "examine"

Taken(r) == [owner |-> Owner(r), expired |-> FALSE]

(* PUT commit.lock, If-None-Match.  A live lease of someone else, or a     *)
(* stage that cannot be loaded first, ends the attempt.                    *)
AcquireCommitLock(r) ==
  /\ At(r, "lock")
  /\ IF session[r].op = "commit" /\ stages[session[r].id] # session[r].plan
     THEN Leave(r) /\ UNCHANGED lease
     ELSE IF lease = None THEN lease' = Taken(r) /\ Goto(r, FirstHeld(r))
     ELSE /\ UNCHANGED lease
          /\ IF lease.expired
             THEN session' = [session EXCEPT ![r].pc = "takeover", ![r].holder = lease.owner]
             ELSE Leave(r)
  /\ UNCHANGED <<plans, staging, release, undo, live, page>>

(* The lease is taken but the answer is lost: nobody will release it.      *)
LeaseUnanswered(r) ==
  /\ IF lease = None
     THEN At(r, "lock") /\ (session[r].op = "commit" => stages[session[r].id] = session[r].plan)
     ELSE At(r, "takeover") /\ lease.owner = session[r].holder
  /\ lease' = Taken(r)
  /\ Leave(r)
  /\ UNCHANGED <<plans, staging, release, undo, live, page>>

(* Replace an expired lease, If-Match the body that was inspected.         *)
TakeOverLease(r) ==
  /\ At(r, "takeover")
  /\ IF lease # None /\ lease.owner = session[r].holder
     THEN lease' = Taken(r) /\ session' = [session EXCEPT ![r].pc = FirstHeld(r), ![r].holder = None]
     ELSE UNCHANGED lease /\ Leave(r)
  /\ UNCHANGED <<plans, staging, release, undo, live, page>>

(* Fifteen minutes pass.                                                   *)
LeaseExpires ==
  /\ lease # None /\ ~lease.expired
  /\ lease' = [lease EXCEPT !.expired = TRUE]
  /\ UNCHANGED <<plans, staging, release, undo, live, page, session>>

(* The deferred unlock deletes the lease, If-Match its body.               *)
Unlock(r) ==
  /\ At(r, "unlock")
  /\ lease' = IF lease # None /\ lease.owner = Owner(r) THEN None ELSE lease
  /\ IF session[r].ok THEN Goto(r, "committed") ELSE Leave(r)
  /\ UNCHANGED <<plans, staging, release, undo, live, page>>

----------------------------------------------------------------------------
(* Commit                                                                  *)

(* Under the lease: an exact retry may find its own effect, and anything   *)
(* but the expected revision is stale.                                     *)
ObserveForCommit(r) ==
  /\ At(r, "observe")
  /\ IF ~Intact(root) \/ root \notin {Revision(r), Expected(r)} THEN Finish(r, FALSE)
     ELSE IF root = Revision(r) THEN Finish(r, TRUE)
     ELSE Goto(r, "copy")
  /\ UNCHANGED <<plans, staging, release, undo, live, lease, page>>

(* CopyCreate of one file; an object that exists already is the same.      *)
MaterializeObject(r, f) ==
  /\ At(r, "copy") /\ stages[session[r].id] = session[r].plan
  /\ f \in FilesOf[Tree(r)] \ session[r].copied
  /\ objects' = objects \union {publishedFileKey(Tree(r), f)}
  /\ session' = [session EXCEPT ![r].copied = @ \union {f}]
  /\ UNCHANGED <<plans, staging, releases, manifests, undo, live, lease, page>>

\* Mutation: the copies are not waited for.
MaterializeReleaseEarly(r) ==
  /\ At(r, "copy")
  /\ releases' = releases \union {Tree(r)}
  /\ session' = [session EXCEPT ![r].pc = "manifest", ![r].copied = {}]
  /\ UNCHANGED <<plans, staging, objects, manifests, undo, live, lease, page>>

(* The release descriptor follows the last file.                           *)
MaterializeRelease(r) ==
  /\ At(r, "copy") /\ session[r].copied = FilesOf[Tree(r)]
  /\ releases' = releases \union {Tree(r)}
  /\ session' = [session EXCEPT ![r].pc = "manifest", ![r].copied = {}]
  /\ UNCHANGED <<plans, staging, objects, manifests, undo, live, lease, page>>

MaterializeManifest(r) ==
  /\ At(r, "manifest") /\ stages[session[r].id] = session[r].plan
  /\ manifests' = manifests \union {session[r].plan}
  /\ Goto(r, "retain")
  /\ UNCHANGED <<plans, staging, objects, releases, undo, live, lease, page>>

(* prepareRestore, first half: keep the bytes of the root about to be      *)
(* replaced.  A root that changed since Observe is stale, and bytes        *)
(* retained earlier for this stage must be the same.                       *)
RetainRoot(r) ==
  LET s == session[r].id IN
  /\ At(r, "retain")
  /\ IF Expected(r) = Absent THEN Goto(r, "restore") /\ UNCHANGED retained
     ELSE IF root # Expected(r) \/ retained[s] \notin {None, Bytes(root)}
     THEN Finish(r, FALSE) /\ UNCHANGED retained
     ELSE Goto(r, "restore") /\ retained' = [retained EXCEPT ![s] = Bytes(root)]
  /\ UNCHANGED <<plans, staging, release, restores, live, lease, page>>

(* prepareRestore, second half: the descriptor that says what is replaced. *)
WriteRestore(r) ==
  LET s == session[r].id IN
  /\ At(r, "restore")
  /\ IF restores[s] \notin {None, Expected(r)} THEN Finish(r, FALSE) /\ UNCHANGED restores
     ELSE Goto(r, "root") /\ restores' = [restores EXCEPT ![s] = Expected(r)]
  /\ UNCHANGED <<plans, staging, release, retained, live, lease, page>>

(* A conditional write of the root: If-Match the ETag of `from', or        *)
(* If-None-Match when there was none.                                      *)
Write(from, to) ==
  /\ Bytes(root) = Bytes(from)
  /\ root' = to
  /\ lived' = lived \union ({to} \intersect Revisions)

(* A write whose answer is lost has happened, or may yet happen.           *)
Unanswered(from, to) ==
  \/ Write(from, to) /\ UNCHANGED late
  \/ late' = late \union {[from |-> from, to |-> to]} /\ UNCHANGED <<root, lived>>

\* Mutation: the PUT is unconditional.
PutRootUnconditional(r) ==
  /\ At(r, "root") /\ stages[session[r].id] = session[r].plan
  /\ root' = Revision(r) /\ lived' = lived \union {Revision(r)}
  /\ UNCHANGED late /\ Goto(r, "page")
  /\ UNCHANGED <<plans, staging, release, undo, lease, page>>

\* Mutation: the page is refreshed although the PUT was refused.
PutRootRefreshAnyway(r) ==
  /\ At(r, "root") /\ stages[session[r].id] = session[r].plan
  /\ IF Bytes(root) = Bytes(Expected(r))
     THEN Write(Expected(r), Revision(r)) /\ UNCHANGED late
     ELSE UNCHANGED live
  /\ Goto(r, "page")
  /\ UNCHANGED <<plans, staging, release, undo, lease, page>>

(* The one PUT that publishes.                                             *)
PutRoot(r) ==
  /\ At(r, "root") /\ stages[session[r].id] = session[r].plan
  /\ IF Bytes(root) = Bytes(Expected(r))
     THEN Write(Expected(r), Revision(r)) /\ UNCHANGED late /\ Goto(r, "page")
     ELSE UNCHANGED live /\ Goto(r, "post")
  /\ UNCHANGED <<plans, staging, release, undo, lease, page>>

RootUnanswered(r) ==
  /\ At(r, "root") /\ stages[session[r].id] = session[r].plan
  /\ Unanswered(Expected(r), Revision(r)) /\ Goto(r, "post")
  /\ UNCHANGED <<plans, staging, release, undo, lease, page>>

(* The store gets round to a write it never answered, or drops it.         *)
LateWrite ==
  \E w \in late :
    /\ late' = late \ {w}
    /\ Write(w.from, w.to) \/ UNCHANGED <<root, lived>>
    /\ UNCHANGED <<plans, staging, release, undo, lease, page, session>>

\* Mutation: any change of the root is taken for the own effect.
PostconditionAnyChange(r) ==
  /\ At(r, "post")
  /\ Finish(r, Intact(root) /\ root # Expected(r))
  /\ UNCHANGED <<plans, staging, release, undo, live, lease, page>>

(* An error is no failure if Observe now finds the intended binding.       *)
CommitPostcondition(r) ==
  /\ At(r, "post")
  /\ Finish(r, Intact(root) /\ root = Revision(r))
  /\ UNCHANGED <<plans, staging, release, undo, live, lease, page>>

(* Best effort, after the root was switched.                               *)
RefreshBrowsablePage(r) ==
  /\ At(r, "page")
  /\ page' = Tree(r)
  /\ Finish(r, TRUE)
  /\ UNCHANGED <<plans, staging, release, undo, live, lease>>

----------------------------------------------------------------------------
(* After the commit, and Restore                                           *)

(* The engine accepts the publication, or undoes it because the client     *)
(* probe failed, with the restore reference the commit returned.           *)
Accept(r) ==
  /\ At(r, "committed")
  /\ session' = [session EXCEPT ![r].pc = "abort", ![r].ok = FALSE]
  /\ UNCHANGED <<plans, staging, release, undo, live, lease, page>>

Compensate(r) ==
  /\ At(r, "committed")
  /\ session' = [session EXCEPT ![r].pc = "lock", ![r].op = "compensate", ![r].ok = FALSE]
  /\ UNCHANGED <<plans, staging, release, undo, live, lease, page>>

(* RollbackRepository: observe, and restore by the reference that the live *)
(* revision carries.                                                       *)
RollbackRepository(r) ==
  /\ At(r, "idle")
  /\ root \in Revisions /\ Intact(root)
  /\ session' = [session EXCEPT ![r] =
                   [Idle EXCEPT !.pc = "lock", !.op = "rollback", !.plan = root.plan, !.id = root.id]]
  /\ UNCHANGED <<plans, staging, release, undo, live, lease, page>>

(* Under the lease: nothing to do if the root is what the descriptor says  *)
(* was replaced, stale if it is not the revision being undone.             *)
ExamineForRestore(r) ==
  LET before == restores[session[r].id] IN
  /\ At(r, "examine")
  /\ IF before = None \/ ~Intact(root) \/ root # Revision(r) THEN Finish(r, FALSE)
     ELSE IF before = Absent THEN Goto(r, "put")
     ELSE Goto(r, "validate")
  /\ UNCHANGED <<plans, staging, release, undo, live, lease, page>>

(* The retained root and the whole release behind it must still be there.  *)
ValidateRestoreTarget(r) ==
  LET before == restores[session[r].id] IN
  /\ At(r, "validate")
  /\ IF retained[session[r].id] = Bytes(before) /\ Materialized(before) THEN Goto(r, "put") ELSE Finish(r, FALSE)
  /\ UNCHANGED <<plans, staging, release, undo, live, lease, page>>

(* PUT the retained root back, or DELETE the root if there was none, both  *)
(* If-Match the revision being undone.  The checks that follow decide only *)
(* whether an error is reported.                                           *)
PutRestored(r) ==
  /\ At(r, "put")
  /\ IF Bytes(root) = Bytes(Revision(r))
     THEN Write(Revision(r), restores[session[r].id]) /\ UNCHANGED late
     ELSE UNCHANGED live
  /\ Finish(r, FALSE)
  /\ UNCHANGED <<plans, staging, release, undo, lease, page>>

RestoreUnanswered(r) ==
  /\ At(r, "put")
  /\ Unanswered(Revision(r), restores[session[r].id])
  /\ Finish(r, FALSE)
  /\ UNCHANGED <<plans, staging, release, undo, lease, page>>

----------------------------------------------------------------------------
(* Failures                                                                *)

(* A request fails without effect: Stage removes what it uploaded, a       *)
(* holder of the lease gives it up; a failure to refresh the page or to    *)
(* release the lease is ignored.                                           *)
RequestFails(r) ==
  /\ \/ /\ session[r].pc \in {"point", "adopt"}
        /\ stages' = [stages EXCEPT ![session[r].id] = None]
        /\ session' = [session EXCEPT ![r] = Idle]
     \/ /\ session[r].pc \in Holding
        /\ Finish(r, FALSE)
        /\ UNCHANGED stages
     \/ /\ session[r].pc \in {"lock", "takeover", "unlock"}
        /\ IF session[r].ok THEN Goto(r, "committed") ELSE Leave(r)
        /\ UNCHANGED stages
     \/ At(r, "page") /\ Finish(r, TRUE) /\ UNCHANGED stages
  /\ UNCHANGED <<plans, pointer, release, undo, live, lease, page>>

(* The process dies: no cleanup, no unlock, no abort.                      *)
Crash(r) ==
  /\ ~At(r, "idle")
  /\ session' = [session EXCEPT ![r] = Idle]
  /\ UNCHANGED <<plans, staging, release, undo, live, lease, page>>

Step(r) ==
  \/ \E p \in Plans : StageReuse(r, p) \/ \E s \in Stages : StageUpload(r, p, s)
  \/ PublishPointer(r) \/ ReconcilePointer(r) \/ AdoptPointer(r) \/ Abort(r)
  \/ AcquireCommitLock(r) \/ TakeOverLease(r) \/ Unlock(r)
  \/ ObserveForCommit(r) \/ MaterializeRelease(r) \/ MaterializeManifest(r)
  \/ \E f \in Paths : MaterializeObject(r, f)
  \/ RetainRoot(r) \/ WriteRestore(r) \/ PutRoot(r) \/ CommitPostcondition(r) \/ RefreshBrowsablePage(r)
  \/ Accept(r) \/ Compensate(r) \/ RollbackRepository(r)
  \/ ExamineForRestore(r) \/ ValidateRestoreTarget(r) \/ PutRestored(r)

Fault ==
  \/ LeaseExpires
  \/ \E r \in Runners :
       \/ RequestFails(r) \/ Crash(r)
       \/ PointerUnanswered(r) \/ LeaseUnanswered(r) \/ RootUnanswered(r) \/ RestoreUnanswered(r)

Progress ==
  \/ \E p \in Plans, t \in Trees : MakePlan(p, t)
  \/ \E r \in Runners : Step(r)
  \/ LateWrite

Next == Progress \/ Fault

Spec == Init /\ [][Next]_vars

----------------------------------------------------------------------------
(* Properties                                                              *)

(* The live revision is always whole: its files, descriptor, manifest and  *)
(* restore state are in the bucket before the root names them, and stay,   *)
(* whatever crashed, failed, expired or was undone ("the last PUT          *)
(* publishes them all", s3.go:748).                                        *)
LiveIntact == Intact(root)

(* A stage handle that Stage returned stays usable until its holder is     *)
(* done: "without invalidating another caller that already holds the stage *)
(* handle" (s3.go:697).                                                    *)
HandleUsable ==
  \A r \in Runners :
    session[r].op = "commit" /\ session[r].pc \notin {"idle", "point", "reconcile", "adopt"} =>
      stages[session[r].id] = session[r].plan

(* Whoever follows an effect pointer finds the stage it names, with the    *)
(* files and the descriptor of the plan (s3.go:257): no runner removes an  *)
(* upload that its own or another runner's pointer announces.              *)
PointerResolves == \A p \in Plans : pointer[p] # None => stages[pointer[p]] = p

(* A commit that reports success did make its revision live, although the  *)
(* answer to its PUT may have been lost and another runner may since have  *)
(* replaced it.                                                            *)
SuccessWasLive ==
  \A r \in Runners : session[r].ok \/ At(r, "committed") => Revision(r) \in lived

(* "The page never advertises a revision that did not become live"         *)
(* (s3.go:533).                                                            *)
PageWasLive == page # None => \E r \in lived : TreeOf(r) = page

(* "The first publication into an empty repository replaced nothing, so    *)
(* there is no earlier root to put back" (engine/rollback.go:110): a       *)
(* rollback puts an earlier publication back, it never takes the           *)
(* repository down.                                                        *)
RollbackNeverUnpublishes ==
  [][\A r \in Runners :
       session[r].op = "rollback" /\ At(r, "put") /\ root \in Revisions => root' # Absent]_vars

(* The bucket keeps the host contract: every change of the root is a       *)
(* compare and swap from the planned revision or back to exactly what the  *)
(* live revision replaced.  The restore descriptors in the bucket are what *)
(* remembers the predecessors.                                             *)
Contract == INSTANCE Publication WITH
  Unpublished <- {Absent, Unmanaged},
  NotPlanned <- None,
  live <- root,
  planned <- [p \in Plans |-> IF plans[p] = None THEN None ELSE plans[p].expected],
  replaced <- [r \in lived |-> restores[r.id]]

KeepsContract == Contract!Spec

============================================================================
