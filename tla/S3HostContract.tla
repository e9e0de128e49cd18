-------------------------- MODULE S3HostContract --------------------------
(***************************************************************************)
(* Proof that the object-store host implements the host contract of        *)
(* Publication for every format that rebinds its root: then the ETag of a  *)
(* root identifies the publication, and a conditional write of the root,   *)
(* answered or not, is a compare and swap of revisions.  And proof that    *)
(* collection, run while nothing publishes, spares what is live.           *)
(***************************************************************************)
EXTENDS S3HostProofs, S3Collect

USE SwitchAssumption, RootAssumption, MarkAssumption

(* An unanswered write is a commit over what its plan was computed         *)
(* against, or a restore of what the named revision replaced.              *)
LateCommit(w) ==
  w.to \in Revisions /\ w.from = plans[w.to.plan].expected /\ w.from = restores[w.to.id]
LateRestore(w) ==
  w.from \in Revisions /\ w.to = restores[w.from.id]

ContractInv ==
  /\ \A p \in Plans : plans[p] # None /\ plans[p].expected \in Revisions => plans[p].expected.plan # p
  /\ \A w \in late : LateCommit(w) \/ LateRestore(w)

----------------------------------------------------------------------------

(* What a step may do to the root, the history, the plans and the restore  *)
(* descriptors.                                                            *)
Planning ==
  \E p \in Plans :
    /\ plans[p] = None /\ plans'[p] # None /\ plans'[p].expected = root
    /\ \A q \in Plans \ {p} : plans'[q] = plans[q]
    /\ UNCHANGED <<root, lived, late, restores>>
Remembering ==
  /\ \A s \in Stages : restores[s] # None => restores'[s] = restores[s]
  /\ UNCHANGED <<root, lived, late, plans>>
Writing(from, to) ==
  /\ UNCHANGED <<plans, restores>>
  /\ \/ UNCHANGED live
     \/ Write(from, to) /\ late' \subseteq late
     \/ UNCHANGED <<root, lived>> /\ late' = late \union {[from |-> from, to |-> to]}
Committing(r) == At(r, "root") /\ Writing(Expected(r), Revision(r))
Restoring(r) == At(r, "put") /\ Writing(Revision(r), restores[session[r].id])

(* Every step is one of these.                                             *)
LEMMA StepKinds ==
  ASSUME IInv, [Next]_vars
  PROVE  \/ Planning \/ Remembering \/ LateWrite
         \/ \E r \in Runners : Committing(r) \/ Restoring(r)
<1>1. CASE UNCHANGED <<root, lived, late, plans, restores>>
  BY <1>1 DEF Remembering
<1>2. ASSUME NEW p \in Plans, NEW t \in Trees, MakePlan(p, t) PROVE Planning
  <2>1. plans \in [Plans -> PlanFiles \union {None}]
    BY DEF IInv, TypeInv, StoreType
  <2>2. [tree |-> t, expected |-> root] \in PlanFiles
    BY DEF IInv, TypeInv, StoreType, PlanFiles, Roots
  <2>3. PICK f \in PlanFiles : plans' = [plans EXCEPT ![p] = f] /\ f.expected = root
    BY <1>2, <2>2, Zenon DEF MakePlan
  <2>4. plans'[p] = f /\ f # None /\ \A q \in Plans \ {p} : plans'[q] = plans[q]
    BY <2>1, <2>3
  <2>5. plans[p] = None /\ UNCHANGED <<root, lived, late, restores>>
    BY <1>2 DEF MakePlan, live, undo
  <2> QED
    BY <2>3, <2>4, <2>5 DEF Planning
<1>3. ASSUME NEW r \in Runners, WriteRestore(r) PROVE Remembering
  <2>1. restores \in [Stages -> Roots \union {None}]
    BY DEF IInv, TypeInv, StoreType
  <2>2. restores' = restores \/ (restores[session[r].id] \in {None, Expected(r)}
                                 /\ restores' = [restores EXCEPT ![session[r].id] = Expected(r)])
    BY <1>3, Zenon DEF WriteRestore
  <2>3. \A s \in Stages : restores[s] # None => restores'[s] = restores[s]
    BY <2>1, <2>2
  <2> QED
    BY <1>3, <2>3 DEF WriteRestore, Remembering, live
<1>4. ASSUME NEW r \in Runners, PutRoot(r) \/ RootUnanswered(r) PROVE Committing(r)
  BY <1>4 DEF PutRoot, RootUnanswered, Unanswered, Committing, Writing, live, undo
<1>5. ASSUME NEW r \in Runners, PutRestored(r) \/ RestoreUnanswered(r) PROVE Restoring(r)
  BY <1>5, Zenon DEF PutRestored, RestoreUnanswered, Unanswered, Restoring, Writing, live, undo
<1>6. ASSUME NEW r \in Runners,
             \/ \E p \in Plans : StageReuse(r, p) \/ \E s \in Stages : StageUpload(r, p, s)
             \/ PublishPointer(r) \/ ReconcilePointer(r) \/ AdoptPointer(r) \/ Abort(r) \/ PointerUnanswered(r)
             \/ AcquireCommitLock(r) \/ LeaseUnanswered(r) \/ TakeOverLease(r) \/ Unlock(r)
             \/ RequestFails(r) \/ Crash(r)
      PROVE  Remembering
  BY <1>6, Zenon DEF StageReuse, StageUpload, PublishPointer, ReconcilePointer, AdoptPointer, Abort, PointerUnanswered,
              AcquireCommitLock, LeaseUnanswered, TakeOverLease, Unlock, RequestFails, Crash, Remembering, undo, live
<1>7. ASSUME NEW r \in Runners,
             \/ ObserveForCommit(r) \/ MaterializeRelease(r) \/ MaterializeManifest(r)
             \/ \E f \in Paths : MaterializeObject(r, f)
             \/ RetainRoot(r) \/ CommitPostcondition(r) \/ RefreshBrowsablePage(r)
             \/ Accept(r) \/ Compensate(r) \/ RollbackRepository(r)
             \/ ExamineForRestore(r) \/ ValidateRestoreTarget(r)
      PROVE  Remembering
  BY <1>7, ZenonT(60) DEF ObserveForCommit, MaterializeRelease, MaterializeManifest, MaterializeObject, RetainRoot,
              CommitPostcondition, RefreshBrowsablePage, Accept, Compensate, RollbackRepository, ExamineForRestore,
              ValidateRestoreTarget, Remembering, undo, live
<1>8. ASSUME NEW r \in Runners, Step(r) PROVE Remembering \/ Committing(r) \/ Restoring(r)
  BY <1>3, <1>4, <1>5, <1>6, <1>7, <1>8 DEF Step
<1>9. CASE Fault
  BY <1>1, <1>4, <1>5, <1>6, <1>9 DEF Fault, LeaseExpires, undo, live
<1>10. CASE Progress
  BY <1>2, <1>8, <1>10 DEF Progress
<1> QED
  BY <1>1, <1>9, <1>10 DEF Next, vars, undo, live

(* The writes under way are those two, and a plan is never computed        *)
(* against its own publication.                                            *)
LEMMA NextContractInv ==
  ASSUME IInv, ContractInv, [Next]_vars
  PROVE  ContractInv'
<1>0. StoreType /\ StoreInv
  BY DEF IInv, TypeInv
<1>1. ASSUME NEW w \in late, \A s \in Stages : restores[s] # None => restores'[s] = restores[s],
             \A p \in Plans : plans[p] # None => plans'[p] = plans[p]
      PROVE  LateCommit(w)' \/ LateRestore(w)'
  <2>1. w.from \in Roots /\ w.to \in Roots /\ w.from # None /\ w.to # None
    BY <1>0 DEF StoreType, Roots
  <2>2. CASE LateCommit(w)
    <3>1. w.to.plan \in Plans /\ w.to.id \in Stages /\ plans[w.to.plan] # None
      BY <1>0, <2>2 DEF LateCommit, Revisions, StoreInv, Sound, Recorded
    <3>2. plans'[w.to.plan] = plans[w.to.plan] /\ restores'[w.to.id] = restores[w.to.id]
      BY <1>1, <2>1, <2>2, <3>1 DEF LateCommit
    <3> QED
      BY <2>2, <3>2, ZenonT(60) DEF LateCommit
  <2>3. CASE LateRestore(w)
    <3>1. w.from.id \in Stages
      BY <2>3 DEF LateRestore, Revisions
    <3>2. restores'[w.from.id] = restores[w.from.id]
      BY <1>1, <2>1, <2>3, <3>1 DEF LateRestore
    <3> QED
      BY <2>3, <3>2 DEF LateRestore
  <2> QED
    BY <2>2, <2>3 DEF ContractInv
<1>2. CASE Planning
  <2>1. PICK p \in Plans : /\ plans[p] = None /\ plans'[p].expected = root
                           /\ \A q \in Plans \ {p} : plans'[q] = plans[q]
    BY <1>2 DEF Planning
  <2>2. UNCHANGED <<root, lived, late, restores>>
    BY <1>2 DEF Planning
  <2>3. root \in Revisions => root.plan # p
    BY <2>1, RootSeen
  <2>4. \A q \in Plans : plans[q] # None => plans'[q] = plans[q]
    BY <2>1
  <2>5. \A w \in late' : LateCommit(w)' \/ LateRestore(w)'
    BY <1>1, <2>2, <2>4
  <2> QED
    BY <2>1, <2>3, <2>5 DEF ContractInv
<1>3. CASE Remembering
  <2>1. \A w \in late' : LateCommit(w)' \/ LateRestore(w)'
    BY <1>1, <1>3 DEF Remembering
  <2> QED
    BY <1>3, <2>1 DEF ContractInv, Remembering
<1>4. ASSUME UNCHANGED <<plans, restores>>,
             \A w \in late' : w \in late \/ LateCommit(w) \/ LateRestore(w)
      PROVE  ContractInv'
  BY <1>4 DEF ContractInv, LateCommit, LateRestore
<1>5. CASE LateWrite
  BY <1>4, <1>5 DEF LateWrite, undo
<1>6. ASSUME NEW r \in Runners, Committing(r) PROVE ContractInv'
  <2>1. PICK v \in Revisions : v = Revision(r) /\ v.plan = session[r].plan /\ v.id = session[r].id
    BY <1>6, ReadySound DEF Committing, Revision
  <2>2. PICK e \in Roots : e = Expected(r) /\ e = restores[v.id] /\ e = plans[v.plan].expected
    BY <1>6, <2>1, ReadySound DEF Committing, Expected
  <2>3. LateCommit([from |-> e, to |-> v])
    BY <2>1, <2>2, ZenonT(60) DEF LateCommit
  <2>4. UNCHANGED <<plans, restores>> /\ \A w \in late' : w \in late \/ w = [from |-> e, to |-> v]
    BY <1>6, <2>1, <2>2 DEF Committing, Writing, live
  <2> QED
    BY <1>4, <2>3, <2>4
<1>7. ASSUME NEW r \in Runners, Restoring(r) PROVE ContractInv'
  <2>1. session[r].plan \in Plans /\ session[r].id \in Stages
    BY <1>7, Active DEF Restoring, IInv, TypeInv, At
  <2>2. Revision(r) \in Revisions /\ Revision(r).id = session[r].id
    BY <2>1 DEF Revision, Revisions
  <2>3. LateRestore([from |-> Revision(r), to |-> restores[session[r].id]])
    BY <2>2 DEF LateRestore
  <2>4. /\ UNCHANGED <<plans, restores>>
        /\ \A w \in late' : w \in late \/ w = [from |-> Revision(r), to |-> restores[session[r].id]]
    BY <1>7 DEF Restoring, Writing, live
  <2> QED
    BY <1>4, <2>3, <2>4
<1> QED
  BY <1>2, <1>3, <1>5, <1>6, <1>7, StepKinds

----------------------------------------------------------------------------
(* The steps of the contract *)

Planned == [p \in Plans |-> IF plans[p] = None THEN None ELSE plans[p].expected]
Replaced == [x \in lived |-> restores[x.id]]

(* A conditional write to a revision from what its plan was computed       *)
(* against is a commit of the contract.                                    *)
LEMMA CommitStep ==
  ASSUME RootRewriter, IInv, ContractInv, UNCHANGED <<plans, restores>>,
         NEW e \in Roots, NEW v \in Revisions, plans[v.plan] # None, e = plans[v.plan].expected, e = restores[v.id],
         Write(e, v)
  PROVE  Contract!Commit(v)
<1>1. root = e /\ root' = v /\ lived' = lived \union {v}
  BY DEF Write, Bytes
<1>2. v.plan \in Plans
  BY DEF Revisions
<1>3. e # v
  BY <1>2, Zenon DEF ContractInv
<1>4. Planned[v.plan] = e /\ Planned' = Planned
  BY <1>2, ZenonT(60) DEF Planned
<1>5. v \in DOMAIN Replaced => Replaced[v] = root
  BY <1>1 DEF Replaced
<1>6. Replaced' = [q \in DOMAIN Replaced \union {v} |-> IF q = v THEN root ELSE Replaced[q]]
  BY <1>1 DEF Replaced
<1> QED
  BY <1>1, <1>3, <1>4, <1>5, <1>6 DEF Contract!Commit, Planned, Replaced

(* A conditional write from a live revision to what it replaced is a       *)
(* restore of the contract.                                                *)
LEMMA RestoreStep ==
  ASSUME RootRewriter, IInv, UNCHANGED <<plans, restores>>,
         NEW v \in Revisions, restores[v.id] # None, Write(v, restores[v.id])
  PROVE  Contract!Restore
<1>1. root = v /\ root' = restores[v.id] /\ lived' = lived \union ({restores[v.id]} \intersect Revisions)
  BY DEF Write, Bytes
<1>2. v \in lived
  BY <1>1, RootSeen
<1>3. lived' = lived
  BY <1>1 DEF IInv, StoreInv, Seen, Revisions
<1>4. Planned' = Planned /\ Replaced' = Replaced
  BY <1>3 DEF Planned, Replaced
<1> QED
  BY <1>1, <1>2, <1>4 DEF Contract!Restore, Planned, Replaced

(* Every step of the bucket and its runners is a step of the contract, or  *)
(* changes nothing that the contract speaks of.                            *)
LEMMA NextContract ==
  ASSUME RootRewriter, IInv, ContractInv, [Next]_vars
  PROVE  [Contract!Next]_(Contract!pvars)
<1>0. StoreType /\ StoreInv
  BY DEF IInv, TypeInv
<1>1. CASE Planning
  <2>1. PICK p \in Plans : /\ plans[p] = None /\ plans'[p] # None /\ plans'[p].expected = root
                           /\ \A q \in Plans \ {p} : plans'[q] = plans[q]
    BY <1>1 DEF Planning
  <2>2. UNCHANGED <<root, lived, restores>>
    BY <1>1 DEF Planning
  <2>6. /\ \A q \in Plans : Planned[q] = IF plans[q] = None THEN None ELSE plans[q].expected
        /\ \A q \in Plans : Planned'[q] = IF plans'[q] = None THEN None ELSE plans'[q].expected
        /\ Planned = [q \in Plans |-> Planned[q]] /\ Planned' = [q \in Plans |-> Planned'[q]]
    BY DEF Planned
  <2>3. Planned[p] = None /\ Planned' = [Planned EXCEPT ![p] = root]
    BY <2>1, <2>6
  <2>4. Replaced' = Replaced
    BY <2>2 DEF Replaced
  <2>5. Contract!Plan(p)
    BY <2>2, <2>3, <2>4 DEF Contract!Plan, Planned, Replaced
  <2> QED
    BY <2>5 DEF Contract!Next
<1>2. ASSUME UNCHANGED <<root, lived, plans>>, \A s \in Stages : restores[s] # None => restores'[s] = restores[s]
      PROVE  UNCHANGED Contract!pvars
  <2>1. \A x \in lived : restores'[x.id] = restores[x.id]
    BY <1>0, <1>2 DEF StoreType, StoreInv, Recorded, Revisions
  <2>2. Planned' = Planned /\ Replaced' = Replaced
    BY <1>2, <2>1 DEF Planned, Replaced
  <2> QED
    BY <1>2, <2>2 DEF Contract!pvars, Planned, Replaced
<1>3. CASE Remembering
  BY <1>2, <1>3 DEF Remembering
<1>4. CASE LateWrite
  <2>1. PICK w \in late : Write(w.from, w.to) \/ UNCHANGED <<root, lived>>
    BY <1>4 DEF LateWrite
  <2>2. UNCHANGED <<plans, restores>>
    BY <1>4 DEF LateWrite, undo
  <2>3. w.from \in Roots /\ w.to \in Roots /\ w.from # None /\ w.to # None
    BY <1>0 DEF StoreType, Roots
  <2>4. CASE Write(w.from, w.to) /\ LateCommit(w)
    <3>1. w.to \in Revisions /\ plans[w.to.plan] # None
      BY <1>0, <2>4 DEF LateCommit, StoreInv, Sound, Recorded
    <3>2. Contract!Commit(w.to)
      BY <2>2, <2>3, <2>4, <3>1, CommitStep, ZenonT(60) DEF LateCommit
    <3> QED
      BY <3>1, <3>2 DEF Contract!Next
  <2>5. CASE Write(w.from, w.to) /\ LateRestore(w)
    <3>1. Contract!Restore
      BY <2>2, <2>3, <2>5, RestoreStep DEF LateRestore
    <3> QED
      BY <3>1 DEF Contract!Next
  <2> QED
    BY <1>2, <2>1, <2>2, <2>4, <2>5 DEF ContractInv
<1>5. ASSUME NEW r \in Runners, Committing(r) PROVE [Contract!Next]_(Contract!pvars)
  <2>1. PICK v \in Revisions : v = Revision(r) /\ v.plan = session[r].plan /\ v.id = session[r].id /\ Sound(v)
    BY <1>5, ReadySound DEF Committing, Revision
  <2>2. PICK e \in Roots : e = Expected(r) /\ e = restores[v.id] /\ e = plans[v.plan].expected
    BY <1>5, <2>1, ReadySound DEF Committing, Expected
  <2>3. UNCHANGED <<plans, restores>> /\ (UNCHANGED <<root, lived>> \/ Write(e, v))
    BY <1>5, <2>1, <2>2 DEF Committing, Writing, live
  <2>4. CASE Write(e, v)
    <3>1. Contract!Commit(v)
      BY <2>1, <2>2, <2>3, <2>4, CommitStep, Zenon DEF Sound, Recorded
    <3> QED
      BY <3>1 DEF Contract!Next
  <2> QED
    BY <1>2, <2>3, <2>4
<1>6. ASSUME NEW r \in Runners, Restoring(r) PROVE [Contract!Next]_(Contract!pvars)
  <2>1. session[r].plan \in Plans /\ session[r].id \in Stages
    BY <1>6, Active DEF Restoring, IInv, TypeInv, At
  <2>6. Revision(r) \in Revisions /\ Revision(r).id = session[r].id
    BY <2>1 DEF Revision, Revisions
  <2>2. PICK v \in Revisions : v = Revision(r) /\ v.id = session[r].id
    BY <2>6
  <2>3. restores[v.id] # None
    BY <1>6, <2>2, ZenonT(60) DEF Restoring, IInv, SessionInv, Claims, At
  <2>4. UNCHANGED <<plans, restores>> /\ (UNCHANGED <<root, lived>> \/ Write(v, restores[v.id]))
    BY <1>6, <2>2 DEF Restoring, Writing, live
  <2>5. CASE Write(v, restores[v.id])
    <3>1. Contract!Restore
      BY <2>3, <2>4, <2>5, RestoreStep
    <3> QED
      BY <3>1 DEF Contract!Next
  <2> QED
    BY <1>2, <2>4, <2>5
<1> QED
  BY <1>1, <1>3, <1>4, <1>5, <1>6, StepKinds

(* The bucket keeps the host contract, for any number of runners and any   *)
(* faults, when the format rebinds its root.                               *)
THEOREM BucketKeepsContract == RootRewriter /\ Spec => KeepsContract
<1> SUFFICES ASSUME RootRewriter PROVE Spec => KeepsContract
  OBVIOUS
<1>1. Init => ContractInv /\ Contract!Init
  BY DEF Init, ContractInv, Contract!Init
<1>2. IInv /\ ContractInv /\ [Next]_vars => ContractInv'
  BY NextContractInv
<1>3. IInv /\ ContractInv /\ [Next]_vars => [Contract!Next]_(Contract!pvars)
  BY NextContract
<1> QED
  BY <1>1, <1>2, <1>3, Invariance, PTL DEF Spec, KeepsContract, Contract!Spec

----------------------------------------------------------------------------
(* Collection *)

(* While a collection runs alone, what it protects covers the live tree    *)
(* and the one that it replaced.                                           *)
CollectInv ==
  /\ IInv
  /\ collector # Resting =>
       Quiet /\ root \in Revisions /\ ProtectedTrees({}) \subseteq collector.keep /\ collector.keep \subseteq Trees

(* A deletion: the protected trees are spared.                             *)
Spares ==
  /\ UNCHANGED <<plans, staging, manifests, undo, live, lease, page, session, collector>>
  /\ \A t \in collector.keep : (t \in releases => t \in releases') /\ (KeysOf(t) \subseteq objects => KeysOf(t) \subseteq objects')

LEMMA DeletionsSpare ==
  ASSUME collector.keep \subseteq Trees,
         \/ \E k \in objects : DeleteReleaseObject(k) \/ DeleteOrphan(k)
         \/ \E t \in Trees : DeleteReleaseDescriptor(t)
  PROVE  Spares
<1>1. ASSUME NEW t \in Trees, NEW k \in KeysOf(t) PROVE k.path \in FilesOf[t] /\ (k.dir = t \/ k.dir = None)
  BY <1>1 DEF KeysOf, publishedFileKey
<1>2. ASSUME NEW k \in objects, DeleteReleaseObject(k) PROVE Spares
  <2>1. k.dir \in Trees \ collector.keep /\ objects' = objects \ {k} /\ releases' = releases
    BY <1>2 DEF DeleteReleaseObject
  <2>2. ASSUME NEW t \in collector.keep PROVE k \notin KeysOf(t)
    BY <1>1, <2>1, NoneAssumption
  <2>3. UNCHANGED <<plans, staging, manifests, undo, live, lease, page, session, collector>>
    BY <1>2, Zenon DEF DeleteReleaseObject
  <2> QED
    BY <2>1, <2>2, <2>3, Zenon DEF Spares
<1>3. ASSUME NEW k \in objects, DeleteOrphan(k) PROVE Spares
  <2>1. (\A t \in collector.keep : k.path \notin FilesOf[t]) /\ objects' = objects \ {k} /\ releases' = releases
    BY <1>3 DEF DeleteOrphan
  <2>2. ASSUME NEW t \in collector.keep PROVE k \notin KeysOf(t)
    BY <1>1, <2>1
  <2>3. UNCHANGED <<plans, staging, manifests, undo, live, lease, page, session, collector>>
    BY <1>3, Zenon DEF DeleteOrphan
  <2> QED
    BY <2>1, <2>2, <2>3, Zenon DEF Spares
<1>4. ASSUME NEW t \in Trees, DeleteReleaseDescriptor(t) PROVE Spares
  BY <1>4, Zenon DEF DeleteReleaseDescriptor, Spares
<1> QED
  BY <1>2, <1>3, <1>4

(* A planned revision of a protected tree stays whole.                     *)
LEMMA SparedStays ==
  ASSUME Spares, NEW x, x \in Revisions => TreeOf(x) \in collector.keep, Materialized(x)
  PROVE  Materialized(x)'
<1>1. CASE x \in Revisions
  <2>1. TreeOf(x)' = TreeOf(x) /\ manifests' = manifests
    BY DEF Spares, TreeOf
  <2>2. TreeOf(x) \in releases' /\ KeysOf(TreeOf(x)) \subseteq objects'
    BY <1>1, Zenon DEF Materialized, Spares
  <2> QED
    BY <1>1, <2>1, <2>2, Zenon DEF Materialized, KeysOf, publishedFileKey
<1>2. CASE x \notin Revisions
  BY <1>2 DEF Materialized
<1> QED
  BY <1>1, <1>2

(* The trees of the live revision and of what it replaced are known.       *)
LEMMA LiveTrees ==
  ASSUME IInv, root \in Revisions
  PROVE  /\ root.id \in Stages /\ restores[root.id] \in Roots /\ restores[root.id] # None
         /\ plans[root.plan] # None /\ TreeOf(root) \in Trees
         /\ restores[root.id] \in Revisions => plans[restores[root.id].plan] # None /\ TreeOf(restores[root.id]) \in Trees
<1>1. ASSUME NEW x \in Revisions, plans[x.plan] # None PROVE TreeOf(x) \in Trees
  BY <1>1 DEF IInv, TypeInv, StoreType, Revisions, PlanFiles, TreeOf
<1>2. root.id \in Stages /\ plans[root.plan] # None /\ restores[root.id] # None
  BY RootSeen DEF IInv, StoreInv, Sound, Recorded
<1>3. restores[root.id] \in Roots /\ Seen(restores[root.id])
  BY <1>2 DEF IInv, TypeInv, StoreType, StoreInv
<1>4. restores[root.id] \in Revisions => plans[restores[root.id].plan] # None
  BY <1>3, SeenPlanned DEF IInv
<1> QED
  BY <1>1, <1>2, <1>3, <1>4, Zenon

(* A deletion leaves the live revision and what it replaced as they were.  *)
LEMMA DeletionStep ==
  ASSUME CollectInv, collector # Resting, Spares
  PROVE  /\ CollectInv' /\ root' = root
         /\ Materialized(restores[root.id]) => Materialized(restores[root.id])'
<1>0. /\ IInv /\ Quiet /\ root \in Revisions /\ StoreType /\ SessionType /\ StoreInv /\ SessionInv
      /\ ProtectedTrees({}) \subseteq collector.keep /\ collector.keep \subseteq Trees
  BY DEF CollectInv, IInv, TypeInv
<1>1. /\ UNCHANGED <<plans, stages, pointer, manifests, retained, restores, root, late, lived, lease, page, session>>
      /\ collector' = collector
  BY DEF Spares, staging, undo, live
<1>2. TreeOf(root) \in collector.keep /\ (restores[root.id] \in Revisions => TreeOf(restores[root.id]) \in collector.keep)
  BY <1>0 DEF ProtectedTrees
<1>3. Materialized(root)' /\ (Materialized(restores[root.id]) => Materialized(restores[root.id])')
  <2>1. PICK v : v = root /\ v = root'
    BY <1>1
  <2>2. Materialized(v)'
    BY <1>0, <1>2, <2>1, SparedStays, Zenon DEF StoreInv, Sound
  <2>3. PICK e : e = restores[root.id] /\ e = restores'[root'.id]
    BY <1>1
  <2>4. Materialized(e) => Materialized(e)'
    BY <1>2, <2>3, SparedStays, Zenon
  <2> QED
    BY <2>1, <2>2, <2>3, <2>4 DEF Materialized, TreeOf
<1>4. StoreType' /\ SessionType'
  BY <1>0, <1>1, Zenon DEF StoreType, SessionType, At
<1>5. StoreInv'
  <2>1. \A x : Recorded(x) => Recorded(x)'
    BY <1>1, Zenon DEF Recorded, Bytes, TreeOf
  <2>2. Sound(root)'
    BY <1>0, <1>1, <1>3, Zenon DEF StoreInv, Sound, Recorded, Bytes, TreeOf
  <2>3. late' = {}
    BY <1>0, <1>1 DEF Quiet
  <2>4. PageWasLive'
    BY <1>0, <1>1, Zenon DEF StoreInv, PageWasLive, TreeOf
  <2> QED
    BY <1>0, <1>1, <2>1, <2>2, <2>3, <2>4, Zenon DEF StoreInv, Seen
<1>6. SessionInv'
  <2>1. ASSUME NEW r \in Runners
        PROVE  Claims(session[r].pc, session[r].plan, session[r].id, session[r].copied, session[r].ok)'
    <3>1. session'[r].pc = "idle" /\ session'[r].copied = {} /\ session'[r].ok = FALSE
      BY <1>0, <1>1, Active, Zenon DEF Quiet, At, SessionInv, Claims
    <3> QED
      BY <3>1 DEF Claims
  <2> QED
    BY <2>1 DEF SessionInv
<1>7. ProtectedTrees({})' = ProtectedTrees({}) /\ Quiet'
  BY <1>0, <1>1, Zenon DEF ProtectedTrees, TreeOf, Quiet, At
<1> QED
  BY <1>0, <1>1, <1>3, <1>4, <1>5, <1>6, <1>7, Zenon DEF CollectInv, IInv, TypeInv

(* Publications only add to the bucket.                                    *)
LEMMA BucketGrows ==
  ASSUME [Next]_vars
  PROVE  objects \subseteq objects' /\ releases \subseteq releases' /\ manifests \subseteq manifests'
<1> DEFINE Goal == objects \subseteq objects' /\ releases \subseteq releases' /\ manifests \subseteq manifests'
<1> SUFFICES Goal
  OBVIOUS
<1>1. ASSUME UNCHANGED release PROVE Goal
  BY <1>1 DEF release
<1> HIDE DEF Goal
<1>2. CASE UNCHANGED vars
  BY <1>1, <1>2 DEF vars
<1>3. ASSUME NEW r \in Runners,
             MaterializeRelease(r) \/ MaterializeManifest(r) \/ \E f \in Paths : MaterializeObject(r, f)
      PROVE  Goal
  BY <1>3, Zenon DEF Goal, MaterializeRelease, MaterializeManifest, MaterializeObject
<1>4. ASSUME NEW r \in Runners, Step(r) PROVE Goal
  <2>1. ASSUME NEW p, NEW s, StageReuse(r, p) \/ StageUpload(r, p, s) PROVE Goal
    BY <1>1, <2>1 DEF StageReuse, StageUpload
  <2>2. CASE PublishPointer(r) \/ ReconcilePointer(r) \/ AdoptPointer(r) \/ Abort(r)
    BY <1>1, <2>2 DEF PublishPointer, ReconcilePointer, AdoptPointer, Abort
  <2>3. CASE AcquireCommitLock(r) \/ TakeOverLease(r) \/ Unlock(r)
    BY <1>1, <2>3 DEF AcquireCommitLock, TakeOverLease, Unlock
  <2>4. CASE ObserveForCommit(r) \/ RetainRoot(r) \/ WriteRestore(r) \/ PutRoot(r) \/ CommitPostcondition(r)
    BY <1>1, <2>4, Zenon DEF ObserveForCommit, RetainRoot, WriteRestore, PutRoot, CommitPostcondition
  <2>5. CASE RefreshBrowsablePage(r) \/ Accept(r) \/ Compensate(r) \/ RollbackRepository(r)
    BY <1>1, <2>5, Zenon DEF RefreshBrowsablePage, Accept, Compensate, RollbackRepository
  <2>6. CASE ExamineForRestore(r) \/ ValidateRestoreTarget(r) \/ PutRestored(r)
    BY <1>1, <2>6, Zenon DEF ExamineForRestore, ValidateRestoreTarget, PutRestored
  <2> QED
    BY <1>3, <1>4, <2>1, <2>2, <2>3, <2>4, <2>5, <2>6, Zenon DEF Step
<1>5. CASE Fault
  <2>1. ASSUME NEW r \in Runners, RequestFails(r) \/ Crash(r) \/ PointerUnanswered(r) PROVE Goal
    BY <1>1, <2>1, Zenon DEF RequestFails, Crash, PointerUnanswered
  <2>2. ASSUME NEW r \in Runners, LeaseUnanswered(r) \/ RootUnanswered(r) \/ RestoreUnanswered(r) PROVE Goal
    BY <1>1, <2>2, Zenon DEF LeaseUnanswered, RootUnanswered, RestoreUnanswered
  <2>3. CASE LeaseExpires
    BY <1>1, <2>3 DEF LeaseExpires
  <2> QED
    BY <1>5, <2>1, <2>2, <2>3, Zenon DEF Fault
<1>6. CASE Progress
  <2>1. ASSUME NEW p, NEW t, MakePlan(p, t) PROVE Goal
    BY <1>1, <2>1 DEF MakePlan
  <2>2. CASE LateWrite
    BY <1>1, <2>2 DEF LateWrite
  <2> QED
    BY <1>4, <1>6, <2>1, <2>2, Zenon DEF Progress
<1> QED
  BY <1>2, <1>5, <1>6, Zenon DEF Next

(* A publication leaves what the live revision replaced as it was.         *)
LEMMA PublicationSpares ==
  ASSUME IInv, [Next]_vars, root' = root, root \in Revisions, Materialized(restores[root.id])
  PROVE  Materialized(restores[root.id])'
<1>1. /\ \A s \in Stages : restores[s] # None => restores'[s] = restores[s]
      /\ \A p \in Plans : plans[p] # None => plans'[p] = plans[p]
  BY StepKinds, Zenon DEF Planning, Remembering, LateWrite, undo, Committing, Restoring, Writing
<1>2. PICK e \in Roots : e = restores[root.id] /\ e = restores'[root'.id] /\ (e \in Revisions => plans[e.plan] # None)
  BY <1>1, LiveTrees
<1>3. CASE e \in Revisions
  <2>1. plans'[e.plan] = plans[e.plan]
    BY <1>1, <1>2, <1>3 DEF Revisions
  <2>2. Materialized(e)'
    BY <1>2, <1>3, <2>1, BucketGrows DEF Materialized, TreeOf
  <2> QED
    BY <1>2, <2>2 DEF Materialized, TreeOf
<1>4. CASE e \notin Revisions
  BY <1>2, <1>4 DEF Materialized
<1> QED
  BY <1>3, <1>4

(* The steps of a system in which collection runs alone.                   *)
LEMMA CollectStep ==
  ASSUME Alone, CollectInv, [CollectNext]_cvars
  PROVE  /\ CollectInv'
         /\ root' = root /\ root \in Revisions /\ Materialized(restores[root.id]) => Materialized(restores[root.id])'
<1>0. IInv
  BY DEF CollectInv
<1>1. ASSUME [Next]_vars, collector' = Resting
      PROVE  /\ CollectInv'
             /\ root' = root /\ root \in Revisions /\ Materialized(restores[root.id]) => Materialized(restores[root.id])'
  <2>1. IInv'
    BY <1>0, <1>1, NextIInv
  <2> QED
    BY <1>0, <1>1, <2>1, PublicationSpares, Zenon DEF CollectInv
<1>2. ASSUME UNCHANGED vars,
             collector' # Resting =>
               (Quiet /\ root \in Revisions /\ ProtectedTrees({}) \subseteq collector'.keep /\ collector'.keep \subseteq Trees)
      PROVE  /\ CollectInv'
             /\ root' = root /\ root \in Revisions /\ Materialized(restores[root.id]) => Materialized(restores[root.id])'
  <2>1. IInv'
    BY <1>0, <1>2, NextIInv
  <2>2. Quiet' = Quiet /\ ProtectedTrees({})' = ProtectedTrees({}) /\ root' = root
    BY <1>2, Zenon DEF vars, live, undo, Quiet, At, ProtectedTrees, TreeOf
  <2>3. CollectInv'
    BY <1>2, <2>1, <2>2, Zenon DEF CollectInv
  <2> QED
    BY <1>0, <1>2, <2>3, PublicationSpares, Zenon
<1>3. CASE \/ \E k \in objects : DeleteReleaseObject(k) \/ DeleteOrphan(k)
           \/ \E t \in Trees : DeleteReleaseDescriptor(t)
  <2>1. collector # Resting
    BY <1>3 DEF DeleteReleaseObject, DeleteOrphan, DeleteReleaseDescriptor, Resting
  <2>2. Spares
    BY <1>3, <2>1, DeletionsSpare DEF CollectInv
  <2> QED
    BY <2>1, <2>2, DeletionStep, Zenon
<1>4. ASSUME NEW ledger \in SUBSET Trees, StartCollect(ledger)
      PROVE  Quiet /\ root \in Revisions /\ ProtectedTrees({}) \subseteq collector'.keep /\ collector'.keep \subseteq Trees
  <2>1. Quiet /\ root \in Revisions /\ collector' = [pc |-> "releases", keep |-> ProtectedTrees(ledger)]
    BY <1>4 DEF StartCollect
  <2>2. collector'.keep = ProtectedTrees(ledger)
    BY <2>1
  <2>3. ProtectedTrees(ledger) \subseteq Trees /\ ProtectedTrees({}) \subseteq ProtectedTrees(ledger)
    BY <1>0, <2>1, LiveTrees DEF ProtectedTrees
  <2> QED
    BY <2>1, <2>2, <2>3, Zenon
<1>5. CASE EndReleases \/ EndOrphans \/ UNCHANGED cvars
  <2>1. CASE EndOrphans \/ (EndReleases /\ collector' = Resting)
    BY <1>2, <2>1, Zenon DEF EndOrphans, EndReleases
  <2>2. CASE UNCHANGED cvars
    <3>1. UNCHANGED vars /\ collector' = collector
      BY <2>2 DEF cvars
    <3> QED
      BY <1>2, <3>1, Zenon DEF CollectInv
  <2>3. CASE EndReleases /\ collector' # Resting
    <3>1. UNCHANGED vars /\ collector.pc = "releases" /\ collector' = [collector EXCEPT !.pc = "orphans"]
      BY <2>3, Zenon DEF EndReleases
    <3>2. collector'.keep = collector.keep /\ collector # Resting
      BY <3>1 DEF Resting
    <3> QED
      BY <1>2, <3>1, <3>2, Zenon DEF CollectInv
  <2> QED
    BY <1>5, <2>1, <2>2, <2>3, Zenon
<1>6. CASE Collect
  <2>1. ASSUME NEW ledger \in SUBSET Trees, StartCollect(ledger) PROVE UNCHANGED vars
    BY <2>1 DEF StartCollect
  <2> QED
    BY <1>2, <1>3, <1>4, <1>5, <1>6, <2>1, Zenon DEF Collect
<1>7. CASE (Progress \/ Fault) /\ PublishStep
  BY <1>1, <1>7, Zenon DEF PublishStep, Next
<1> QED
  BY <1>5, <1>6, <1>7, Zenon DEF CollectNext

LEMMA CollectInvariance ==
  ASSUME Alone
  PROVE  CollectSpec => []CollectInv
<1>1. CollectInit => CollectInv
  BY InitIInv DEF CollectInit, CollectInv
<1> QED
  BY <1>1, CollectStep, PTL DEF CollectSpec

(* THEOREM: when collection runs only while nothing publishes, the live    *)
(* revision stays whole through any number of collections, publications,   *)
(* rollbacks, crashes and lost answers, whatever trees the ledger of the   *)
(* collecting checkout names.                                              *)
THEOREM CollectionKeepsLiveIntact ==
  ASSUME Alone
  PROVE  CollectSpec => []LiveIntact
<1>1. CollectInv => LiveIntact
  BY LiveWhole DEF CollectInv
<1> QED
  BY <1>1, CollectInvariance, PTL

(* THEOREM: then no step that leaves the root alone takes anything from    *)
(* the live revision or from what its rollback depends on.                 *)
THEOREM CollectionSparesLive ==
  ASSUME Alone
  PROVE  CollectSpec => CollectSpares
<1>1. CollectInv /\ [CollectNext]_cvars =>
        [root' = root /\ root \in Revisions =>
           /\ Intact(root) => Intact(root)'
           /\ Materialized(restores[root.id]) => Materialized(restores[root.id])']_cvars
  <2> SUFFICES ASSUME CollectInv, [CollectNext]_cvars, root' = root, root \in Revisions
               PROVE  /\ Intact(root)'
                      /\ Materialized(restores[root.id]) => Materialized(restores[root.id])'
    OBVIOUS
  <2>1. Sound(root)'
    BY CollectStep, Zenon DEF CollectInv, IInv, StoreInv
  <2>2. Intact(root)'
    BY <2>1, Zenon DEF Intact, Sound, Recorded
  <2> QED
    BY <2>2, CollectStep, Zenon
<1> QED
  BY <1>1, CollectInvariance, PTL DEF CollectSpec, CollectSpares
============================================================================
