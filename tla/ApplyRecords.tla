---------------------------- MODULE ApplyRecords ----------------------------
(***************************************************************************)
(* Proofs about what plan, apply and rollback leave on record, for any     *)
(* repositories, plans and locks: a version that a host has served never   *)
(* changes bytes, a receipt in Git was probed, and an apply that succeeds  *)
(* has its receipts in one commit.                                         *)
(***************************************************************************)
EXTENDS ApplyProofs

USE OrderAssumption, LockAssumption, KindAssumption, MarkAssumption

(* Every tree a host has served is covered by the history's ledgers, and   *)
(* the lock of a repository that was prepared binds every version that the *)
(* history or the working ledger of the repository has on record.          *)
LivedCovered == \A x \in lived : /\ x[1] \in Repos /\ x[2] \in Locks
                                 /\ Covered(history, x[1], x[2])
ReadyBound ==
  session.pc # "idle" => \A r \in session.ready :
    /\ ValidatePublishedBindings(ThePlan.desired[r], work[r].ledger)
    /\ \A n \in DOMAIN history : ValidatePublishedBindings(ThePlan.desired[r], history[n].files[r].ledger)
VersionInv == LivedCovered /\ ReadyBound /\ VersionsImmutable

(* A receipt in a commit, in the working tree, or kept to be put back was  *)
(* probed; so was every change that the running apply is past.             *)
Probed(r, receipt) == receipt # None => <<r, receipt>> \in proved
FilesProbed == /\ \A r \in Repos : Probed(r, work[r].receipt)
               /\ \A r \in DOMAIN session.prior : Probed(r, session.prior[r])
ChangesProbed ==
  /\ session.pc \in {"publish", "probe"} => \A i \in 1..(session.at - 1) :
       Order[i] \in ThePlan.changes => <<Order[i], ReceiptOf(session.plan, Order[i])>> \in proved
  /\ session.pc = "receipts" => \A r \in ThePlan.changes : <<r, ReceiptOf(session.plan, r)>> \in proved
ProbedInv == ReceiptsProved /\ FilesProbed /\ ChangesProbed

(* From the publication lock on, the working tree's receipts are those of  *)
(* HEAD except where the apply has written its own, and a repository that  *)
(* the apply passed without writing has its receipt already.               *)
ReceiptPhases == {"publish", "probe", "receipts", "commit"}
Written == DOMAIN session.prior
Passed == CASE session.pc = "receipts" -> {Order[i] : i \in 1..(session.at - 1)}
            [] session.pc = "commit" -> Repos
            [] OTHER -> {}
ReceiptsTracked ==
  session.pc \in ReceiptPhases => \A r \in Repos :
    /\ r \notin Written => work[r].receipt = HEAD[r].receipt
    /\ r \in Written => work[r].receipt \in {HEAD[r].receipt, ReceiptOf(session.plan, r)}
    /\ r \in Passed \ Written /\ r \in ThePlan.changes => work[r].receipt = ReceiptOf(session.plan, r)
NothingWritten == session.pc \notin {"receipts", "commit"} => Written = {}
SucceededPlanned == \A p \in succeeded : p \in Plans /\ plans[p] # None
SuccessInv == ReceiptsTracked /\ NothingWritten /\ SucceededPlanned /\ SuccessRecorded

----------------------------------------------------------------------------
(* What one step can do to the files, and to what a host has served.       *)

(* A commit is of the working tree, whoever makes it.                      *)
LEMMA CommitMoves ==
  ASSUME TypeInv, [Next]_vars
  PROVE  \/ history' = history
         \/ \E c \in Commits : c.files = work /\ history' = Append(history, c) /\ work' = work
<1>1. CASE CommitPublicationLedgers
  BY <1>1 DEF CommitPublicationLedgers, Commits, TypeInv, GitType, SessionType
<1>2. CASE CommitDeployments
  BY <1>2, Zenon DEF CommitDeployments, Commits, TypeInv, GitType, SessionType
<1>3. CASE GitCommit
  BY <1>3, Zenon DEF GitCommit, Commits, TypeInv, GitType
<1>4. CASE ApplyStep
  BY <1>1, <1>2, <1>4, Zenon DEF ApplyStep, git, prepareRepository, stageOnHosts, ResumeLedgers,
     PreparePublicationRecords, NothingToRecord, LockIndex, AcquireGitRevisionLock, VerifyNoop, VerifyCurrent,
     Publish, ProbePasses, ReleaseGit, WriteReceipt, NothingToCommit, LockIndexAgain, Refuse, GiveUp
<1>5. CASE Fault
  BY <1>5 DEF Fault, VerifyCurrentFails, PublishUnanswered, ProbeFails, StepFails, Crash, GiveUp, git
<1>6. CASE Command \/ Outside
  BY <1>6, Zenon DEF Command, PlanWorkspace, openApply, ApprovePlan, Outside, PlanExpires, ApprovalLapses,
     Drift, RollbackRepository, git
<1>7. CASE Recover \/ Edit
  BY <1>3, <1>7 DEF Recover, Edit, GitReset, RemoveGitLocks, RevertLedger, EditLock
<1>8. CASE UNCHANGED vars
  BY <1>8 DEF vars, git
<1> QED
  BY <1>4, <1>5, <1>6, <1>7, <1>8 DEF Next

(* What holds of the working tree and of every commit holds of every       *)
(* commit afterwards.                                                      *)
LEMMA CommitsKeep ==
  ASSUME TypeInv, [Next]_vars, NEW n \in DOMAIN history'
  PROVE  \/ n \in DOMAIN history /\ history'[n] = history[n]
         \/ history'[n].files = work /\ work' = work
<1>1. CASE history' = history
  BY <1>1
<1>2. ASSUME NEW c \in Commits, c.files = work, history' = Append(history, c), work' = work
      PROVE  \/ n \in DOMAIN history /\ history'[n] = history[n]
             \/ history'[n].files = work
  <2>1. history \in Seq(Commits)
    BY DEF TypeInv, GitType
  <2> QED
    BY <1>2, <2>1
<1> QED
  BY <1>1, <1>2, CommitMoves

(* A working ledger changes when the apply records its bindings, and is    *)
(* otherwise kept, emptied, or taken from HEAD.                            *)
LEMMA LedgerMoves ==
  ASSUME TypeInv, [Next]_vars
  PROVE  \/ \A r \in Repos : work'[r].ledger \in {work[r].ledger, {}}
         \/ PreparePublicationRecords
         \/ GitReset
<1> DEFINE Kept == \A r \in Repos : work'[r].ledger \in {work[r].ledger, {}}
<1>0. work \in [Repos -> Files]
  BY DEF TypeInv, GitType
<1>1. ASSUME work' = work PROVE Kept
  BY <1>1
<1>2. ASSUME GiveUp PROVE Kept
  BY <1>0, <1>2 DEF GiveUp, Files
<1>3. ASSUME WriteReceipt PROVE Kept
  BY <1>0, <1>3 DEF WriteReceipt, Files
<1>4. ASSUME NEW r \in Repos, RevertLedger(r) \/ \E l \in Locks : EditLock(r, l) PROVE Kept
  <2>1. CASE RevertLedger(r)
    BY <1>0, <2>1 DEF RevertLedger, Files
  <2>2. CASE \E l \in Locks : EditLock(r, l)
    BY <1>0, <2>2 DEF EditLock, Files
  <2> QED
    BY <1>4, <2>1, <2>2
<1> HIDE DEF Kept
<1>5. CASE ApplyStep
  BY <1>1, <1>2, <1>3, <1>5, Zenon DEF ApplyStep, git, prepareRepository, stageOnHosts, ResumeLedgers,
     NothingToRecord, LockIndex, CommitPublicationLedgers, AcquireGitRevisionLock, VerifyNoop, VerifyCurrent,
     Publish, ProbePasses, ReleaseGit, NothingToCommit, LockIndexAgain, CommitDeployments, Refuse, Kept
<1>6. CASE Fault
  BY <1>1, <1>2, <1>6 DEF Fault, VerifyCurrentFails, PublishUnanswered, ProbeFails, StepFails, Crash, git, Kept
<1>7. CASE Command \/ Outside
  BY <1>1, <1>7, Zenon DEF Command, PlanWorkspace, openApply, ApprovePlan, Outside, PlanExpires, ApprovalLapses,
     Drift, RollbackRepository, git, Kept
<1>8. CASE Recover \/ Edit
  BY <1>1, <1>4, <1>8 DEF Recover, Edit, RemoveGitLocks, GitCommit, Kept
<1>9. CASE UNCHANGED vars
  BY <1>1, <1>9 DEF vars, git, Kept
<1> QED
  BY <1>5, <1>6, <1>7, <1>8, <1>9 DEF Next, Kept

(* A working receipt changes when the apply writes its own or puts back    *)
(* what it overwrote, or when it is taken from HEAD.                       *)
LEMMA ReceiptMoves ==
  ASSUME TypeInv, [Next]_vars
  PROVE  \/ \A r \in Repos : work'[r].receipt = work[r].receipt
         \/ WriteReceipt \/ GiveUp \/ GitReset
<1> DEFINE Kept == \A r \in Repos : work'[r].receipt = work[r].receipt
<1>0. work \in [Repos -> Files]
  BY DEF TypeInv, GitType
<1>1. ASSUME work' = work PROVE Kept
  BY <1>1
<1>2. ASSUME PreparePublicationRecords PROVE Kept
  BY <1>0, <1>2 DEF PreparePublicationRecords, Files
<1>3. ASSUME NEW r \in Repos, RevertLedger(r) \/ \E l \in Locks : EditLock(r, l) PROVE Kept
  <2>1. CASE RevertLedger(r)
    BY <1>0, <2>1 DEF RevertLedger, Files
  <2>2. CASE \E l \in Locks : EditLock(r, l)
    BY <1>0, <2>2 DEF EditLock, Files
  <2> QED
    BY <1>3, <2>1, <2>2
<1> HIDE DEF Kept
<1>4. CASE ApplyStep
  BY <1>1, <1>2, <1>4, Zenon DEF ApplyStep, git, prepareRepository, stageOnHosts, ResumeLedgers,
     NothingToRecord, LockIndex, CommitPublicationLedgers, AcquireGitRevisionLock, VerifyNoop, VerifyCurrent,
     Publish, ProbePasses, ReleaseGit, NothingToCommit, LockIndexAgain, CommitDeployments, Refuse, Kept
<1>5. CASE Fault
  BY <1>1, <1>5 DEF Fault, VerifyCurrentFails, PublishUnanswered, ProbeFails, StepFails, Crash, git, Kept
<1>6. CASE Command \/ Outside
  BY <1>1, <1>6, Zenon DEF Command, PlanWorkspace, openApply, ApprovePlan, Outside, PlanExpires, ApprovalLapses,
     Drift, RollbackRepository, git, Kept
<1>7. CASE Recover \/ Edit
  BY <1>1, <1>3, <1>7 DEF Recover, Edit, RemoveGitLocks, GitCommit, Kept
<1>8. CASE UNCHANGED vars
  BY <1>1, <1>8 DEF vars, git, Kept
<1> QED
  BY <1>4, <1>5, <1>6, <1>7, <1>8 DEF Next, Kept

(* Only a publication by the running apply makes a host serve a tree it    *)
(* had not served.                                                         *)
LEMMA LivedMoves ==
  ASSUME TypeInv, [Next]_vars
  PROVE  lived' = lived \/ PublishMove
<1>1. CASE ApplyStep
  BY <1>1, Zenon DEF ApplyStep, hosts, review, prepareRepository, stageOnHosts, ResumeLedgers,
     PreparePublicationRecords, NothingToRecord, LockIndex, CommitPublicationLedgers,
     AcquireGitRevisionLock, VerifyNoop, VerifyCurrent, Publish, PublishMove, ProbePasses, ReleaseGit,
     WriteReceipt, NothingToCommit, LockIndexAgain, CommitDeployments, Refuse
<1>2. CASE Fault
  BY <1>2 DEF Fault, VerifyCurrentFails, PublishUnanswered, ProbeFails, StepFails, Crash, GiveUp,
     restoreFailedPublication, Restore, PublishMove, hosts, review
<1>3. CASE Command \/ Outside
  BY <1>3, Zenon DEF Command, PlanWorkspace, openApply, ApprovePlan, Outside, PlanExpires, ApprovalLapses,
     Drift, RollbackRepository, Restore, hosts
<1>4. CASE Recover \/ Edit
  BY <1>4 DEF Recover, Edit, GitReset, RemoveGitLocks, RevertLedger, EditLock, GitCommit, hosts
<1>5. CASE UNCHANGED vars
  BY <1>5 DEF vars, hosts
<1> QED
  BY <1>1, <1>2, <1>3, <1>4, <1>5 DEF Next

(* A session keeps its plan and its prepared repositories, except that it  *)
(* ends, prepares one more, or starts with none.                           *)
LEMMA ReadyMoves ==
  ASSUME TypeInv, [Next]_vars
  PROVE  \/ session'.pc = "idle"
         \/ session.pc # "idle" /\ session'.plan = session.plan /\ session'.ready = session.ready
         \/ session'.ready = {}
         \/ \E r \in Repos : prepareRepository(r)
<1>0. DOMAIN session = Fields
  BY DEF TypeInv, SessionType
<1> DEFINE Same == session'.plan = session.plan /\ session'.ready = session.ready
<1>1. session' = Idle => session'.pc = "idle"
  BY IdleType
<1>2. /\ \A x : Goto(x) => Same
      /\ NextRepo => Same
      /\ \A n : session' = [session EXCEPT !.pc = "lock", !.rev = n] => Same
  BY SessionFields, Zenon
<1>3. CASE ApplyStep
  <2>1. CASE stageOnHosts \/ LockIndex \/ AcquireGitRevisionLock \/ ReleaseGit
    BY <1>2, <2>1, Zenon DEF stageOnHosts, LockIndex, AcquireGitRevisionLock, ReleaseGit, At
  <2>2. CASE PreparePublicationRecords \/ VerifyNoop \/ VerifyCurrent
    BY <1>2, <2>2, Zenon DEF PreparePublicationRecords, VerifyNoop, VerifyCurrent, Publishing, At
  <2>3. CASE ResumeLedgers \/ NothingToRecord \/ CommitPublicationLedgers
    <3>1. CASE ResumeLedgers \/ NothingToRecord
      BY <1>2, <3>1, Zenon DEF ResumeLedgers, NothingToRecord, At
    <3>2. CASE CommitPublicationLedgers
      <4>1. session' = [session EXCEPT !.pc = "lock", !.rev = Revision + 1] \/ session' = Idle
        BY <3>2, Zenon DEF CommitPublicationLedgers
      <4>2. session.pc # "idle"
        BY <3>2 DEF CommitPublicationLedgers, At
      <4> QED
        BY <1>1, <1>2, <4>1, <4>2, Zenon
    <3> QED
      BY <2>3, <3>1, <3>2
  <2>4. CASE Publish \/ ProbePasses \/ WriteReceipt \/ LockIndexAgain
    <3>1. CASE Publish \/ LockIndexAgain
      BY <1>0, <3>1 DEF Publish, Publishing, LockIndexAgain, At, Fields
    <3>2. CASE ProbePasses
      BY <1>0, <3>2 DEF ProbePasses, At, Fields
    <3>3. CASE WriteReceipt
      <4>1. PICK a, b : session' = [session EXCEPT !.at = a, !.prior = b]
        BY <3>3, Zenon DEF WriteReceipt
      <4> QED
        BY <1>0, <3>3, <4>1 DEF WriteReceipt, At, Fields
    <3> QED
      BY <2>4, <3>1, <3>2, <3>3
  <2>5. CASE NothingToCommit \/ CommitDeployments \/ Refuse
    BY <1>1, <2>5 DEF NothingToCommit, CommitDeployments, Succeed, Refuse, GiveUp
  <2> QED
    BY <1>3, <2>1, <2>2, <2>3, <2>4, <2>5 DEF ApplyStep
<1>4. CASE Fault
  BY <1>1, <1>4 DEF Fault, VerifyCurrentFails, PublishUnanswered, ProbeFails, StepFails, Crash, GiveUp
<1>5. ASSUME NEW p \in Plans, openApply(p) PROVE session'.ready = {}
  BY <1>5 DEF openApply, Idle
<1>6. CASE session' = session
  BY <1>6
<1>7. CASE Command \/ Outside
  BY <1>5, <1>6, <1>7, ZenonT(60) DEF Command, PlanWorkspace, ApprovePlan, Outside, PlanExpires, ApprovalLapses,
     Drift, RollbackRepository
<1>8. CASE Recover \/ Edit
  BY <1>6, <1>8 DEF Recover, Edit, GitReset, RemoveGitLocks, RevertLedger, EditLock, GitCommit
<1>9. CASE UNCHANGED vars
  BY <1>6, <1>9 DEF vars
<1> QED
  BY <1>3, <1>4, <1>7, <1>8, <1>9 DEF Next

----------------------------------------------------------------------------
(* A version that a host has served never changes bytes. *)

(* At first no host has served anything.                                   *)
LEMMA InitVersions == Init => VersionInv
<1> SUFFICES ASSUME Init PROVE VersionInv
  OBVIOUS
<1>1. LivedCovered /\ VersionsImmutable
  BY DEF Init, LivedCovered, VersionsImmutable
<1>2. ReadyBound
  BY IdleType, Zenon DEF Init, ReadyBound
<1> QED
  BY <1>1, <1>2 DEF VersionInv

(* A lock that binds what the base recorded also binds what the plan's own *)
(* records add.                                                            *)
LEMMA ExpectedBound ==
  ASSUME NEW p \in Plans, NEW r \in Repos, plans[p].desired[r] \in Locks,
         ValidatePublishedBindings(plans[p].desired[r], history[plans[p].base].files[r].ledger)
  PROVE  ValidatePublishedBindings(plans[p].desired[r], expectedPublicationLedger(p, r))
BY DEF ValidatePublishedBindings, expectedPublicationLedger, Recorded

(* A smaller ledger records fewer bindings.                                *)
LEMMA RecordedMonotone ==
  ASSUME NEW a, NEW b, a \subseteq b
  PROVE  Recorded(a) \subseteq Recorded(b)
BY DEF Recorded

(* Every step keeps the prepared repositories' locks in agreement with     *)
(* what is on record.                                                      *)
LEMMA NextReadyBound ==
  ASSUME TypeInv, ReadyBound, [Next]_vars
  PROVE  ReadyBound'
<1> SUFFICES ASSUME session'.pc # "idle", NEW r \in session'.ready
             PROVE  /\ ValidatePublishedBindings(ThePlan'.desired[r], work'[r].ledger)
                    /\ \A n \in DOMAIN history' :
                         ValidatePublishedBindings(ThePlan'.desired[r], history'[n].files[r].ledger)
  BY ZenonT(60) DEF ReadyBound, ValidatePublishedBindings, Recorded
<1> DEFINE l == ThePlan.desired[r]
<1>1. CASE session.pc # "idle" /\ session'.plan = session.plan /\ session'.ready = session.ready
  <2>1. session.plan \in Plans /\ plans[session.plan] # None /\ r \in Repos
    BY <1>1 DEF TypeInv, SessionType
  <2>2. ThePlan' = ThePlan /\ ThePlan \in PlanFiles
    BY <1>1, <2>1, PlansStay DEF ThePlan, TypeInv, ReviewType
  <2>3. /\ ValidatePublishedBindings(l, work[r].ledger)
        /\ \A n \in DOMAIN history : ValidatePublishedBindings(l, history[n].files[r].ledger)
    BY <1>1 DEF ReadyBound
  <2>4. \A n \in DOMAIN history' : ValidatePublishedBindings(l, history'[n].files[r].ledger)
    BY <2>3, CommitsKeep
  <2>5. ValidatePublishedBindings(l, work'[r].ledger)
    <3>1. CASE \A q \in Repos : work'[q].ledger \in {work[q].ledger, {}}
      BY <2>1, <2>3, <3>1 DEF ValidatePublishedBindings, Recorded
    <3>2. CASE GitReset
      BY <2>1, <2>3, <3>2, HeadType DEF GitReset, HEAD, TypeInv
    <3>3. CASE PreparePublicationRecords
      <4>1. ValidatePublishedBindings(l, expectedPublicationLedger(session.plan, r))
        BY <2>1, <2>2, <2>3, ExpectedBound, ZenonT(60) DEF ThePlan, PlanFiles
      <4>2. work'[r].ledger \in {work[r].ledger, expectedPublicationLedger(session.plan, r)}
        BY <2>1, <3>3 DEF PreparePublicationRecords, TypeInv, GitType, Files
      <4> QED
        BY <2>3, <4>1, <4>2
    <3> QED
      BY <3>1, <3>2, <3>3, LedgerMoves
  <2> QED
    BY <2>2, <2>4, <2>5
<1>2. ASSUME NEW q \in Repos, prepareRepository(q)
      PROVE  /\ ValidatePublishedBindings(ThePlan'.desired[r], work'[r].ledger)
             /\ \A n \in DOMAIN history' :
                  ValidatePublishedBindings(ThePlan'.desired[r], history'[n].files[r].ledger)
  <2>1. /\ session'.ready = session.ready \union {q} /\ session'.plan = session.plan
        /\ session.pc = "prepare" /\ Fresh(session.plan, q, session.committed)
        /\ UNCHANGED <<history, work, plans>>
    BY <1>2 DEF prepareRepository, At, TypeInv, SessionType, Fields, git, review
  <2>2. CASE r \in session.ready
    BY <2>1, <2>2 DEF ReadyBound, ThePlan
  <2>3. CASE r = q
    <3>1. /\ work[q].lock = ThePlan.desired[q] /\ ThePlan' = ThePlan
          /\ LedgerReplays(q) /\ ValidatePublishedBindings(work[q].lock, work[q].ledger)
      BY <2>1, Zenon DEF Fresh, ThePlan
    <3>2. ASSUME NEW n \in DOMAIN history
          PROVE  ValidatePublishedBindings(ThePlan.desired[q], history[n].files[q].ledger)
      <4>1. history[n].files[q].ledger \subseteq work[q].ledger
        BY <3>1, Zenon DEF LedgerReplays
      <4>2. Recorded(history[n].files[q].ledger) \subseteq Recorded(work[q].ledger)
        BY <4>1, RecordedMonotone
      <4> QED
        BY <3>1, <4>2, Zenon DEF ValidatePublishedBindings
    <3> QED
      BY <2>1, <2>3, <3>1, <3>2, Zenon
  <2> QED
    BY <2>1, <2>2, <2>3
<1> QED
  BY <1>1, <1>2, ReadyMoves

(* Every step keeps the versions served so far immutable: the tree that an *)
(* apply publishes binds what the history has on record, hence all that    *)
(* was served before.                                                      *)
LEMMA NextVersions ==
  ASSUME TypeInv, CoverInv, VersionInv, [Next]_vars
  PROVE  VersionInv'
<1> USE DEF VersionInv
<1>1. ReadyBound'
  BY NextReadyBound
<1>2. CASE lived' = lived
  BY <1>1, <1>2, CommittedGrows DEF LivedCovered, VersionsImmutable
<1>3. CASE PublishMove
  <2> DEFINE t == ThePlan.desired[Repo]
  <2>1. /\ session.pc = "publish" /\ Repo \in Repos
        /\ session.plan \in Plans /\ plans[session.plan] # None
    BY <1>3, OrderLength DEF PublishMove, Publishing, At, TypeInv, SessionType, More, Repo
  <2>2. t \in Locks
    BY <2>1 DEF ThePlan, TypeInv, ReviewType, PlanFiles
  <2>3. lived' = lived \union {<<Repo, t>>}
    BY <1>3 DEF PublishMove, SwitchLive, RevisionOf, ThePlan
  <2>4. Covered(history, Repo, t) /\ Repo \in session.ready
    BY <2>1 DEF CoverInv, SessionCovered, PublishCovered, ReadyCovered
  <2> HIDE DEF t
  <2>5. \A n \in DOMAIN history : Recorded(history[n].files[Repo].ledger) \subseteq BindingsOf[t]
    BY <2>1, <2>4, Zenon DEF ReadyBound, ValidatePublishedBindings, t
  <2>6. \A x \in lived' : x[1] = Repo => VisibleOf[x[2]] \subseteq BindingsOf[t]
    BY <2>3, <2>4, <2>5 DEF LivedCovered, Covered, Committed
  <2>7. VersionsImmutable'
    <3> SUFFICES ASSUME NEW x \in lived', NEW y \in lived', x[1] = y[1],
                        NEW b \in VisibleOf[x[2]], NEW c \in VisibleOf[y[2]], b[1] = c[1]
                 PROVE  b = c
      BY DEF VersionsImmutable
    <3>1. CASE x \in lived /\ y \in lived
      BY <3>1 DEF VersionsImmutable
    <3>2. CASE x[1] = Repo
      <4>1. b \in BindingsOf[t] /\ c \in BindingsOf[t]
        BY <2>6, <3>2, Zenon
      <4> QED
        BY <2>2, <4>1
    <3>3. x[1] = Repo \/ (x \in lived /\ y \in lived)
      BY <2>3
    <3> QED
      BY <3>1, <3>2, <3>3, Zenon
  <2>8. LivedCovered'
    BY <2>1, <2>2, <2>3, <2>4, CommittedGrows DEF LivedCovered
  <2> QED
    BY <1>1, <2>7, <2>8
<1> QED
  BY <1>2, <1>3, LivedMoves

(* VersionsImmutable: whatever is edited, reverted, rolled back, drifts or *)
(* is half applied, two trees that a host has served never bind the same   *)
(* version to different bytes.                                             *)
THEOREM VersionsNeverChange == Spec => []VersionsImmutable
<1>1. Spec => []TypeInv
  BY InitType, NextType, PTL DEF Spec
<1>2. TypeInv /\ CoverInv /\ [Next]_vars => CoverInv'
  BY NextLiveCovered, NextSessionCovered DEF CoverInv
<1>3. TypeInv /\ CoverInv /\ VersionInv /\ [Next]_vars => VersionInv'
  BY NextVersions
<1>4. VersionInv => VersionsImmutable
  BY DEF VersionInv
<1> QED
  BY <1>1, <1>2, <1>3, <1>4, InitCovered, InitVersions, PTL DEF Spec

----------------------------------------------------------------------------
(* A receipt in Git was probed. *)

(* The probes that passed are never forgotten.                             *)
LEMMA ProvedGrows ==
  ASSUME TypeInv, [Next]_vars
  PROVE  proved \subseteq proved'
<1>1. CASE ApplyStep
  BY <1>1, Zenon DEF ApplyStep, prepareRepository, stageOnHosts, ResumeLedgers,
     PreparePublicationRecords, NothingToRecord, LockIndex, CommitPublicationLedgers,
     AcquireGitRevisionLock, VerifyNoop, VerifyCurrent, Publish, ProbePasses, ReleaseGit,
     WriteReceipt, NothingToCommit, LockIndexAgain, CommitDeployments, Refuse, GiveUp
<1>2. CASE Fault
  BY <1>2 DEF Fault, VerifyCurrentFails, PublishUnanswered, ProbeFails, StepFails, Crash, GiveUp
<1>3. CASE Command \/ Outside
  BY <1>3, Zenon DEF Command, PlanWorkspace, openApply, ApprovePlan, Outside, PlanExpires, ApprovalLapses,
     Drift, RollbackRepository
<1>4. CASE Recover \/ Edit
  BY <1>4 DEF Recover, Edit, GitReset, RemoveGitLocks, RevertLedger, EditLock, GitCommit
<1>5. CASE UNCHANGED vars
  BY <1>5 DEF vars
<1> QED
  BY <1>1, <1>2, <1>3, <1>4, <1>5 DEF Next

(* What the steps from the publication lock to the receipt commit do to    *)
(* the session.                                                            *)
LEMMA PhaseFields ==
  ASSUME TypeInv
  PROVE  /\ AcquireGitRevisionLock =>
              session' = [session EXCEPT !.pc = "publish", !.at = 1] /\ session'.pc = "publish"
              /\ session'.at = 1 /\ session'.plan = session.plan /\ session'.prior = session.prior
         /\ VerifyNoop \/ VerifyCurrent \/ ProbePasses =>
              session'.pc = "publish" /\ session'.at = session.at + 1
              /\ session'.plan = session.plan /\ session'.prior = session.prior
         /\ Publish => session'.pc = "probe" /\ session'.at = session.at
              /\ session'.plan = session.plan /\ session'.prior = session.prior
         /\ ReleaseGit => session'.pc = "receipts" /\ session'.at = 1
              /\ session'.plan = session.plan /\ session'.prior = session.prior
         /\ WriteReceipt =>
              session'.pc = "receipts" /\ session'.at = session.at + 1 /\ session'.plan = session.plan
         /\ LockIndexAgain => session'.pc = "commit" /\ session'.at = session.at
              /\ session'.plan = session.plan /\ session'.prior = session.prior
<1>1. DOMAIN session = Fields
  BY DEF TypeInv, SessionType
<1>2. ASSUME AcquireGitRevisionLock
      PROVE  session' = [session EXCEPT !.pc = "publish", !.at = 1] /\ session'.pc = "publish"
              /\ session'.at = 1 /\ session'.plan = session.plan /\ session'.prior = session.prior
  BY <1>1, <1>2 DEF AcquireGitRevisionLock, Goto, Fields
<1>3. ASSUME VerifyNoop \/ VerifyCurrent
      PROVE  session'.pc = "publish" /\ session'.at = session.at + 1
              /\ session'.plan = session.plan /\ session'.prior = session.prior
  BY <1>1, <1>3 DEF VerifyNoop, VerifyCurrent, Publishing, At, NextRepo, Fields
<1>4. ASSUME ProbePasses
      PROVE  session'.pc = "publish" /\ session'.at = session.at + 1
              /\ session'.plan = session.plan /\ session'.prior = session.prior
  BY <1>1, <1>4 DEF ProbePasses, Fields
<1>5. ASSUME Publish
      PROVE  session'.pc = "probe" /\ session'.at = session.at
              /\ session'.plan = session.plan /\ session'.prior = session.prior
  BY <1>1, <1>5 DEF Publish, Fields
<1>6. ASSUME ReleaseGit
      PROVE  session'.pc = "receipts" /\ session'.at = 1
              /\ session'.plan = session.plan /\ session'.prior = session.prior
  BY <1>1, <1>6 DEF ReleaseGit, Goto, Fields
<1>7. ASSUME WriteReceipt
      PROVE  session'.pc = "receipts" /\ session'.at = session.at + 1 /\ session'.plan = session.plan
  <2>1. PICK b : session' = [session EXCEPT !.at = @ + 1, !.prior = b]
    BY <1>7, Zenon DEF WriteReceipt
  <2> QED
    BY <1>1, <1>7, <2>1 DEF WriteReceipt, At, Fields
<1>8. ASSUME LockIndexAgain
      PROVE  session'.pc = "commit" /\ session'.at = session.at
              /\ session'.plan = session.plan /\ session'.prior = session.prior
  BY <1>1, <1>8 DEF LockIndexAgain, Fields
<1> QED
  BY <1>2, <1>3, <1>4, <1>5, <1>6, <1>7, <1>8

(* The steps by which a session can be past the publication lock.          *)
LEMMA PhaseMoves ==
  ASSUME TypeInv, [Next]_vars, session'.pc \in ReceiptPhases
  PROVE  \/ session' = session
         \/ AcquireGitRevisionLock \/ VerifyNoop \/ VerifyCurrent \/ Publish \/ ProbePasses
         \/ ReleaseGit \/ WriteReceipt \/ LockIndexAgain
<1>0. DOMAIN session = Fields
  BY DEF TypeInv, SessionType
<1>1. session' # Idle
  BY IdleType DEF ReceiptPhases
<1>2. CASE ApplyStep
  <2>1. ASSUME NEW r \in Repos PROVE ~prepareRepository(r)
    BY <1>0, ZenonT(60) DEF prepareRepository, At, ReceiptPhases, Fields
  <2>2. ~stageOnHosts /\ ~LockIndex
    BY <1>0, ZenonT(60) DEF stageOnHosts, LockIndex, Goto, ReceiptPhases, Fields
  <2>3. ~ResumeLedgers /\ ~NothingToRecord /\ ~CommitPublicationLedgers
    BY <1>1, SessionFields, Zenon DEF ResumeLedgers, NothingToRecord, CommitPublicationLedgers, ReceiptPhases
  <2>4. ~PreparePublicationRecords
    BY SessionFields, Zenon DEF PreparePublicationRecords, At, ReceiptPhases
  <2> QED
    BY <1>1, <1>2, <2>1, <2>2, <2>3, <2>4
       DEF ApplyStep, NothingToCommit, CommitDeployments, Succeed, Refuse, GiveUp
<1>3. CASE Fault
  BY <1>1, <1>3 DEF Fault, VerifyCurrentFails, PublishUnanswered, ProbeFails, StepFails, Crash, GiveUp
<1>4. ASSUME NEW p \in Plans PROVE ~openApply(p)
  BY ZenonT(60) DEF openApply, Idle, ReceiptPhases
<1>5. CASE Command \/ Outside
  BY <1>4, <1>5, Zenon DEF Command, PlanWorkspace, ApprovePlan, Outside, PlanExpires, ApprovalLapses,
     Drift, RollbackRepository
<1>6. CASE Recover \/ Edit
  BY <1>6 DEF Recover, Edit, GitReset, RemoveGitLocks, RevertLedger, EditLock, GitCommit
<1>7. CASE UNCHANGED vars
  BY <1>7 DEF vars
<1> QED
  BY <1>2, <1>3, <1>5, <1>6, <1>7 DEF Next

(* The receipts kept to be put back change only when one is written.       *)
LEMMA PriorMoves ==
  ASSUME TypeInv, [Next]_vars
  PROVE  session'.prior = session.prior \/ DOMAIN session'.prior = {} \/ WriteReceipt
<1>0. DOMAIN session = Fields
  BY DEF TypeInv, SessionType
<1> DEFINE Same == session'.prior = session.prior
           None0 == DOMAIN session'.prior = {}
<1>1. session' = Idle => None0
  BY DEF Idle
<1>2. ASSUME NEW x, Goto(x) PROVE Same
  BY <1>0, <1>2 DEF Goto, Fields
<1>3. ASSUME NextRepo PROVE Same
  BY <1>0, <1>3 DEF NextRepo, Fields
<1>4. ASSUME NEW n, session' = [session EXCEPT !.pc = "lock", !.rev = n] PROVE Same
  BY <1>0, <1>4 DEF Fields
<1>5. ASSUME NEW r \in Repos, prepareRepository(r) PROVE Same
  BY <1>0, <1>5 DEF prepareRepository, Fields
<1>6. ASSUME NEW p \in Plans, openApply(p) PROVE None0
  BY <1>6 DEF openApply, Idle
<1> HIDE DEF Same, None0
<1>7. CASE ApplyStep
  <2>1. CASE stageOnHosts \/ LockIndex \/ PreparePublicationRecords
    BY <1>2, <1>3, <2>1 DEF stageOnHosts, LockIndex, PreparePublicationRecords, Same
  <2>2. CASE ResumeLedgers \/ NothingToRecord \/ CommitPublicationLedgers
    BY <1>1, <1>4, <2>2, Zenon DEF ResumeLedgers, NothingToRecord, CommitPublicationLedgers, Same, None0
  <2>3. CASE NothingToCommit \/ CommitDeployments \/ Refuse
    BY <1>1, <2>3 DEF NothingToCommit, CommitDeployments, Succeed, Refuse, GiveUp, None0
  <2> QED
    BY <1>5, <1>7, <2>1, <2>2, <2>3, PhaseFields DEF ApplyStep, Same
<1>8. CASE Fault
  BY <1>1, <1>8 DEF Fault, VerifyCurrentFails, PublishUnanswered, ProbeFails, StepFails, Crash, GiveUp, None0
<1>9. CASE Command \/ Outside
  BY <1>6, <1>9, Zenon DEF Command, PlanWorkspace, ApprovePlan, Outside, PlanExpires, ApprovalLapses,
     Drift, RollbackRepository, None0
<1>10. CASE Recover \/ Edit
  BY <1>10 DEF Recover, Edit, GitReset, RemoveGitLocks, RevertLedger, EditLock, GitCommit
<1>11. CASE UNCHANGED vars
  BY <1>11 DEF vars
<1> QED
  BY <1>7, <1>8, <1>9, <1>10, <1>11 DEF Next

(* What writing a receipt does to the working tree and to the session.     *)
LEMMA WriteReceiptFacts ==
  ASSUME TypeInv, WriteReceipt
  PROVE  /\ session.pc = "receipts" /\ More /\ Repo \in Repos
         /\ session.plan \in Plans /\ plans[session.plan] # None /\ plans' = plans
         /\ history' = history /\ proved' = proved
         /\ \/ /\ work' = work /\ session'.prior = session.prior
               /\ Repo \in ThePlan.changes => work[Repo].receipt = ReceiptOf(session.plan, Repo)
            \/ /\ Repo \in ThePlan.changes
               /\ \A r \in Repos : work'[r].receipt = IF r = Repo THEN ReceiptOf(session.plan, r)
                                                                 ELSE work[r].receipt
               /\ session'.prior = [r \in DOMAIN session.prior \union {Repo} |->
                                     IF r = Repo THEN work[Repo].receipt ELSE session.prior[r]]
<1> DEFINE receipt == ReceiptOf(session.plan, Repo)
           write == Repo \in ThePlan.changes /\ work[Repo].receipt # receipt
           kept == [r \in DOMAIN session.prior \union {Repo} |->
                      IF r = Repo THEN work[Repo].receipt ELSE session.prior[r]]
<1>1. /\ session.pc = "receipts" /\ More /\ UNCHANGED <<plans, history, proved>>
      /\ work' = IF write THEN [work EXCEPT ![Repo].receipt = receipt] ELSE work
      /\ session' = [session EXCEPT !.at = @ + 1, !.prior = IF write THEN kept ELSE session.prior]
  BY DEF WriteReceipt, At, review, TypeInv, SessionType, Fields
<1>2. Repo \in Repos /\ session.plan \in Plans /\ plans[session.plan] # None
  BY <1>1, OrderLength DEF More, Repo, TypeInv, SessionType
<1>3. work \in [Repos -> Files] /\ DOMAIN session = Fields
  BY DEF TypeInv, GitType, SessionType
<1> HIDE DEF receipt, kept
<1>4. session'.prior = IF write THEN kept ELSE session.prior
  BY <1>1, <1>3 DEF Fields
<1>5. write => \A r \in Repos : work'[r].receipt = IF r = Repo THEN receipt ELSE work[r].receipt
  BY <1>1, <1>2, <1>3 DEF Files
<1> QED
  BY <1>1, <1>2, <1>4, <1>5 DEF receipt, kept

(* At first there is no receipt.                                           *)
LEMMA InitProbed == Init => ProbedInv
<1> SUFFICES ASSUME Init PROVE ProbedInv
  OBVIOUS
<1>1. ReceiptsProved
  <2>1. ASSUME NEW n \in DOMAIN history, NEW r \in Repos PROVE history[n].files[r].receipt = None
    BY DEF Init
  <2> QED
    BY <2>1, Zenon DEF ReceiptsProved
<1>2. FilesProbed
  BY DEF Init, Idle, FilesProbed, Probed
<1>3. ChangesProbed
  BY IdleType, Zenon DEF Init, ChangesProbed
<1> QED
  BY <1>1, <1>2, <1>3 DEF ProbedInv

(* Every step keeps the receipts that are, or can come, in Git probed.     *)
LEMMA NextFilesProbed ==
  ASSUME TypeInv, ProbedInv, [Next]_vars
  PROVE  ReceiptsProved' /\ FilesProbed'
<1> USE DEF ProbedInv
<1>1. ReceiptsProved'
  <2> SUFFICES ASSUME NEW n \in DOMAIN history', NEW r \in Repos, history'[n].files[r].receipt # None
               PROVE  <<r, history'[n].files[r].receipt>> \in proved'
    BY DEF ReceiptsProved
  <2>1. CASE n \in DOMAIN history /\ history'[n] = history[n]
    BY <2>1, ProvedGrows DEF ReceiptsProved
  <2>2. CASE history'[n].files = work
    BY <2>2, ProvedGrows DEF FilesProbed, Probed
  <2> QED
    BY <2>1, <2>2, CommitsKeep
<1>2. ASSUME NEW r \in Repos PROVE Probed(r, work[r].receipt)'
  <2>1. CASE \A q \in Repos : work'[q].receipt = work[q].receipt
    BY <2>1, ProvedGrows DEF FilesProbed, Probed
  <2>2. CASE WriteReceipt
    BY <2>2, WriteReceiptFacts DEF FilesProbed, Probed, ChangesProbed
  <2>3. CASE GiveUp
    <3>1. work'[r].receipt = IF r \in DOMAIN session.prior THEN session.prior[r] ELSE work[r].receipt
      BY <2>3 DEF GiveUp, TypeInv, GitType, Files
    <3> QED
      BY <3>1, ProvedGrows DEF FilesProbed, Probed
  <2>4. CASE GitReset
    BY <2>4, HeadType, ProvedGrows DEF GitReset, HEAD, ReceiptsProved, Probed, TypeInv
  <2> QED
    BY <2>1, <2>2, <2>3, <2>4, ReceiptMoves
<1>3. ASSUME NEW r \in DOMAIN session'.prior PROVE Probed(r, session.prior[r])'
  <2>1. CASE session'.prior = session.prior
    BY <2>1, ProvedGrows DEF FilesProbed, Probed
  <2>2. CASE WriteReceipt
    BY <2>2, WriteReceiptFacts DEF FilesProbed, Probed
  <2> QED
    BY <2>1, <2>2, PriorMoves
<1> QED
  BY <1>1, <1>2, <1>3 DEF FilesProbed

(* Every step keeps the changes that the apply is past probed.             *)
LEMMA NextChangesProbed ==
  ASSUME TypeInv, ProbedInv, [Next]_vars
  PROVE  ChangesProbed'
<1> USE DEF ProbedInv
<1> SUFFICES ASSUME session'.pc \in ReceiptPhases PROVE ChangesProbed'
  BY DEF ChangesProbed, ReceiptPhases
<1>g. \A x \in proved : x \in proved'
  BY ProvedGrows
<1>0. session.plan \in Plans /\ plans[session.plan] # None => plans'[session.plan] = plans[session.plan]
  BY PlansStay
<1>1. CASE session' = session
  <2>1. session.plan \in Plans /\ plans[session.plan] # None
    BY <1>1 DEF ReceiptPhases, TypeInv, SessionType
  <2>2. ThePlan' = ThePlan /\ \A r : ReceiptOf(session.plan, r)' = ReceiptOf(session.plan, r)
    BY <1>0, <1>1, <2>1, Zenon DEF ThePlan, ReceiptOf, RevisionOf
  <2> QED
    BY <1>1, <2>2, <1>g, SMTT(60) DEF ChangesProbed
<1>2. CASE AcquireGitRevisionLock \/ LockIndexAgain
  BY <1>2, PhaseFields DEF ChangesProbed
<1> DEFINE Later == VerifyNoop \/ VerifyCurrent \/ Publish \/ ProbePasses \/ ReleaseGit \/ WriteReceipt
<1>3. ASSUME Later
      PROVE  /\ session.pc \in {"publish", "probe", "receipts"} /\ plans' = plans
             /\ session'.plan = session.plan /\ session.at \in Nat
             /\ ThePlan' = ThePlan /\ \A r : ReceiptOf(session.plan, r)' = ReceiptOf(session.plan, r)
  <2>1. session.pc \in {"publish", "probe", "receipts"} /\ plans' = plans
    BY <1>3 DEF VerifyNoop, VerifyCurrent, Publish, ProbePasses, ReleaseGit, WriteReceipt, Publishing, At, review
  <2>2. session'.plan = session.plan /\ session.at \in Nat
    BY <1>3, PhaseFields, OrderLength DEF TypeInv, SessionType
  <2> QED
    BY <2>1, <2>2, Zenon DEF ThePlan, ReceiptOf, RevisionOf
<1>p. ASSUME Later, session'.pc \in {"publish", "probe"},
             \A i \in 1..(session'.at - 1) : Order[i] \in ThePlan.changes =>
               <<Order[i], ReceiptOf(session.plan, Order[i])>> \in proved'
      PROVE  ChangesProbed'
  <2>1. session'.plan = session.plan /\ plans' = plans
    BY <1>3, <1>p, Zenon
  <2> QED
    BY <1>p, <2>1, Zenon DEF ChangesProbed, ThePlan, ReceiptOf, RevisionOf
<1>o. ASSUME session.pc \in {"publish", "probe"}, NEW i \in 1..(session.at - 1), Order[i] \in ThePlan.changes
      PROVE  <<Order[i], ReceiptOf(session.plan, Order[i])>> \in proved'
  BY <1>g, <1>o, Zenon DEF ChangesProbed
<1>4. CASE VerifyNoop
  <2>1. /\ session.pc = "publish" /\ Repo \notin ThePlan.changes
        /\ session'.pc = "publish" /\ session'.at = session.at + 1
    BY <1>4, PhaseFields DEF VerifyNoop, Publishing, At
  <2>2. \A i \in 1..(session'.at - 1) : i \in 1..(session.at - 1) \/ Order[i] = Repo
    BY <1>3, <1>4, <2>1 DEF Repo
  <2>3. session.pc \in {"publish", "probe"} /\ session'.pc \in {"publish", "probe"}
    BY <2>1, Zenon
  <2>4. \A i \in 1..(session'.at - 1) : Order[i] \in ThePlan.changes =>
          <<Order[i], ReceiptOf(session.plan, Order[i])>> \in proved'
    BY <1>o, <2>1, <2>2, <2>3, Zenon
  <2> QED
    BY <1>p, <1>4, <2>3, <2>4, Zenon
<1>5. CASE VerifyCurrent \/ ProbePasses
  <2>1. /\ session.pc \in {"publish", "probe"} /\ session'.pc = "publish" /\ session'.at = session.at + 1
        /\ <<Repo, ReceiptOf(session.plan, Repo)>> \in proved'
    BY <1>5, PhaseFields DEF VerifyCurrent, ProbePasses, Publishing, At
  <2>2. \A i \in 1..(session'.at - 1) : i \in 1..(session.at - 1) \/ Order[i] = Repo
    BY <1>3, <1>5, <2>1 DEF Repo
  <2>3. session.pc \in {"publish", "probe"} /\ session'.pc \in {"publish", "probe"}
    BY <2>1, Zenon
  <2>4. \A i \in 1..(session'.at - 1) : Order[i] \in ThePlan.changes =>
          <<Order[i], ReceiptOf(session.plan, Order[i])>> \in proved'
    BY <1>o, <2>1, <2>2, <2>3, Zenon
  <2> QED
    BY <1>p, <1>5, <2>3, <2>4, Zenon
<1>6. CASE Publish
  <2>1. session.pc = "publish" /\ session'.pc = "probe" /\ session'.at = session.at
    BY <1>6, PhaseFields DEF Publish, Publishing, At
  <2> QED
    BY <1>o, <1>p, <1>6, <2>1, Zenon
<1>7. CASE ReleaseGit
  <2>1. /\ session.pc = "publish" /\ session.at > Len(Order) /\ session'.pc = "receipts"
    BY <1>7, PhaseFields, OrderLength DEF ReleaseGit, At, More, TypeInv, SessionType
  <2>2. ASSUME NEW r \in ThePlan.changes PROVE <<r, ReceiptOf(session.plan, r)>> \in proved
    <3>1. r \in Repos
      BY <1>3, <1>7 DEF ThePlan, TypeInv, SessionType, ReviewType, PlanFiles
    <3>2. PICK i \in DOMAIN Order : Order[i] = r
      BY <3>1
    <3>3. i \in 1..(session.at - 1)
      BY <1>3, <1>7, <2>1, OrderLength
    <3> QED
      BY <2>1, <3>2, <3>3 DEF ChangesProbed
  <2>3. session'.pc \notin {"publish", "probe"}
    BY <2>1
  <2> QED
    BY <1>3, <1>7, <1>g, <2>2, <2>3, SMTT(60) DEF ChangesProbed
<1>8. CASE WriteReceipt
  BY <1>3, <1>8, PhaseFields, ProvedGrows DEF ChangesProbed, WriteReceipt, At
<1> QED
  BY <1>1, <1>2, <1>4, <1>5, <1>6, <1>7, <1>8, PhaseMoves

(* ReceiptsProved: a receipt in a commit, whoever made the commit, names a *)
(* revision that its plan published and whose probe passed.                *)
THEOREM ReceiptsAreProved == Spec => []ReceiptsProved
<1>1. Spec => []TypeInv
  BY InitType, NextType, PTL DEF Spec
<1>2. TypeInv /\ ProbedInv /\ [Next]_vars => ProbedInv'
  BY NextFilesProbed, NextChangesProbed DEF ProbedInv
<1>3. ProbedInv => ReceiptsProved
  BY DEF ProbedInv
<1> QED
  BY <1>1, <1>2, <1>3, InitProbed, PTL DEF Spec

----------------------------------------------------------------------------
(* An apply that succeeds has its receipts in one commit. *)

(* An apply that writes receipts goes on writing, commits, or ends.        *)
LEMMA ReceiptSteps ==
  ASSUME TypeInv, [Next]_vars, session.pc \in {"receipts", "commit"}
  PROVE  session' = session \/ session' = Idle \/ WriteReceipt \/ LockIndexAgain
<1>1. CASE ApplyStep
  BY <1>1, Zenon DEF ApplyStep, At, Publishing, prepareRepository, stageOnHosts, ResumeLedgers,
     PreparePublicationRecords, NothingToRecord, LockIndex, CommitPublicationLedgers,
     AcquireGitRevisionLock, VerifyNoop, VerifyCurrent, Publish, ProbePasses, ReleaseGit,
     NothingToCommit, CommitDeployments, Succeed, Refuse, GiveUp
<1>2. CASE Fault
  BY <1>2 DEF Fault, VerifyCurrentFails, PublishUnanswered, ProbeFails, StepFails, Crash, GiveUp
<1>3. CASE Command \/ Outside
  BY <1>3, IdleType, Zenon DEF Command, PlanWorkspace, openApply, ApprovePlan, Outside, PlanExpires, ApprovalLapses,
     Drift, RollbackRepository
<1>4. CASE Recover \/ Edit
  BY <1>4 DEF Recover, Edit, GitReset, RemoveGitLocks, RevertLedger, EditLock, GitCommit
<1>5. CASE UNCHANGED vars
  BY <1>5 DEF vars
<1> QED
  BY <1>1, <1>2, <1>3, <1>4, <1>5 DEF Next

(* An apply succeeds with its receipt commit, or when it wrote none.       *)
LEMMA SuccessMoves ==
  ASSUME TypeInv, [Next]_vars
  PROVE  succeeded' = succeeded \/ NothingToCommit \/ CommitDeployments
<1>1. CASE ApplyStep
  BY <1>1, Zenon DEF ApplyStep, prepareRepository, stageOnHosts, ResumeLedgers,
     PreparePublicationRecords, NothingToRecord, LockIndex, CommitPublicationLedgers,
     AcquireGitRevisionLock, VerifyNoop, VerifyCurrent, Publish, ProbePasses, ReleaseGit,
     WriteReceipt, LockIndexAgain, Refuse, GiveUp
<1>2. CASE Fault
  BY <1>2 DEF Fault, VerifyCurrentFails, PublishUnanswered, ProbeFails, StepFails, Crash, GiveUp
<1>3. CASE Command \/ Outside
  BY <1>3, Zenon DEF Command, PlanWorkspace, openApply, ApprovePlan, Outside, PlanExpires, ApprovalLapses,
     Drift, RollbackRepository
<1>4. CASE Recover \/ Edit
  BY <1>4 DEF Recover, Edit, GitReset, RemoveGitLocks, RevertLedger, EditLock, GitCommit
<1>5. CASE UNCHANGED vars
  BY <1>5 DEF vars
<1> QED
  BY <1>1, <1>2, <1>3, <1>4, <1>5 DEF Next

(* Past the last index the session is past every repository.               *)
LEMMA AllPassed ==
  ASSUME SessionType, ~More
  PROVE  Repos \subseteq {Order[i] : i \in 1..(session.at - 1)}
<1> SUFFICES ASSUME NEW r \in Repos PROVE \E i \in 1..(session.at - 1) : Order[i] = r
  OBVIOUS
<1>1. PICK i \in DOMAIN Order : Order[i] = r
  OBVIOUS
<1> QED
  BY <1>1, OrderLength DEF SessionType, More

(* A commit of the working tree becomes HEAD.                              *)
LEMMA CommitHead ==
  ASSUME TypeInv, NEW c \in Commits, c.files = work, history' = Append(history, c)
  PROVE  HEAD' = work /\ Revision' \in DOMAIN history' /\ history'[Revision'].files = work
<1>1. history \in Seq(Commits)
  BY DEF TypeInv, GitType
<1> QED
  BY <1>1 DEF HEAD, Revision

(* At first no plan has succeeded.                                         *)
LEMMA InitSuccess == Init => SuccessInv
<1> SUFFICES ASSUME Init PROVE SuccessInv
  OBVIOUS
<1>1. ReceiptsTracked
  BY IdleType, Zenon DEF Init, ReceiptsTracked, ReceiptPhases
<1>2. NothingWritten /\ SucceededPlanned /\ SuccessRecorded
  BY Zenon DEF Init, Idle, NothingWritten, Written, SucceededPlanned, SuccessRecorded
<1> QED
  BY <1>1, <1>2 DEF SuccessInv

(* Nothing is written before the receipts' phase.                          *)
LEMMA NextNothingWritten ==
  ASSUME TypeInv, NothingWritten, [Next]_vars
  PROVE  NothingWritten'
<1> SUFFICES ASSUME session'.pc \notin {"receipts", "commit"} PROVE DOMAIN session'.prior = {}
  BY DEF NothingWritten, Written
<1>1. CASE session.pc \in {"receipts", "commit"}
  <2>1. session' = Idle
    BY <1>1, ReceiptSteps, PhaseFields
  <2> QED
    BY <2>1 DEF Idle
<1>2. CASE session.pc \notin {"receipts", "commit"}
  BY <1>2, PriorMoves DEF NothingWritten, Written, WriteReceipt, At
<1> QED
  BY <1>1, <1>2

(* Every step keeps track of where the working receipts come from.         *)
LEMMA NextTracked ==
  ASSUME TypeInv, ReceiptsTracked, NothingWritten, [Next]_vars
  PROVE  ReceiptsTracked'
<1> SUFFICES ASSUME session'.pc \in ReceiptPhases, NEW r \in Repos
             PROVE  /\ r \notin Written' => work'[r].receipt = HEAD'[r].receipt
                    /\ r \in Written' =>
                         work'[r].receipt \in {HEAD'[r].receipt, ReceiptOf(session.plan, r)'}
                    /\ r \in Passed' \ Written' /\ r \in ThePlan'.changes =>
                         work'[r].receipt = ReceiptOf(session.plan, r)'
  BY DEF ReceiptsTracked
<1> DEFINE Tracked == /\ r \notin Written => work[r].receipt = HEAD[r].receipt
                      /\ r \in Written => work[r].receipt \in {HEAD[r].receipt, ReceiptOf(session.plan, r)}
                      /\ r \in Passed \ Written /\ r \in ThePlan.changes =>
                           work[r].receipt = ReceiptOf(session.plan, r)
<1>0. session.pc \in ReceiptPhases => Tracked
  BY DEF ReceiptsTracked
<1>1. CASE session' = session
  <2>1. session.plan \in Plans /\ plans[session.plan] # None
    BY <1>1 DEF ReceiptPhases, TypeInv, SessionType
  <2>2. plans'[session.plan] = plans[session.plan]
    BY <2>1, PlansStay
  <2>3. /\ ThePlan' = ThePlan /\ ReceiptOf(session.plan, r)' = ReceiptOf(session.plan, r)
        /\ Passed' = Passed /\ Written' = Written
    BY <1>1, <2>2 DEF ThePlan, ReceiptOf, RevisionOf, Passed, Written
  <2>4. Tracked
    BY <1>0, <1>1
  <2>5. CASE history' # history
    <3>1. PICK c \in Commits : c.files = work /\ history' = Append(history, c) /\ work' = work
      BY <2>5, CommitMoves
    <3> QED
      BY <2>3, <2>4, <3>1, CommitHead
  <2>6. CASE history' = history /\ \A q \in Repos : work'[q].receipt = work[q].receipt
    BY <2>3, <2>4, <2>6, Zenon DEF HEAD, Revision
  <2>7. CASE GitReset
    <3>1. work' = HEAD /\ HEAD' = HEAD
      BY <2>7 DEF GitReset, HEAD, Revision
    <3> QED
      BY <2>3, <2>4, <3>1
  <2>8. ~WriteReceipt /\ ~GiveUp
    <3>1. session.at \in Nat
      BY OrderLength DEF TypeInv, SessionType
    <3> QED
      BY <1>1, <3>1, PhaseFields, IdleType DEF GiveUp, ReceiptPhases
  <2> QED
    BY <2>5, <2>6, <2>7, <2>8, ReceiptMoves
<1>2. CASE AcquireGitRevisionLock
  <2>1. /\ work = HEAD /\ UNCHANGED <<history, work>> /\ session.pc = "lock"
    BY <1>2 DEF AcquireGitRevisionLock, LockAllowed, At
  <2>2. Written' = {} /\ session'.pc = "publish"
    BY <1>2, <2>1, PhaseFields DEF Written, NothingWritten
  <2> QED
    BY <2>1, <2>2 DEF Passed, HEAD, Revision
<1>3. CASE VerifyNoop \/ VerifyCurrent \/ Publish \/ ProbePasses \/ ReleaseGit
  <2>1. UNCHANGED <<history, work>> /\ session.pc \in {"publish", "probe"}
    BY <1>3 DEF VerifyNoop, VerifyCurrent, Publish, ProbePasses, ReleaseGit, Publishing, At, git
  <2>2. Written = {} /\ Written' = {}
    BY <1>3, <2>1, PhaseFields DEF Written, NothingWritten
  <2>3. session'.pc \in {"publish", "probe"} \/ (session'.pc = "receipts" /\ session'.at = 1)
    BY <1>3, PhaseFields
  <2>4. Passed' = {}
    BY <2>3 DEF Passed
  <2> QED
    BY <1>0, <2>1, <2>2, <2>4 DEF HEAD, Revision, ReceiptPhases
<1>4. CASE WriteReceipt
  <2> DEFINE own == ReceiptOf(session.plan, r)
  <2>1. /\ session.pc = "receipts" /\ history' = history /\ plans' = plans /\ Repo \in Repos
        /\ session'.pc = "receipts" /\ session'.at = session.at + 1 /\ session'.plan = session.plan
    BY <1>4, WriteReceiptFacts, PhaseFields
  <2>2. ThePlan' = ThePlan /\ ReceiptOf(session.plan, r)' = own /\ HEAD' = HEAD /\ Tracked
    BY <1>0, <2>1, Zenon DEF ThePlan, ReceiptOf, RevisionOf, HEAD, Revision, ReceiptPhases
  <2>3. r \in Passed' => r \in Passed \/ r = Repo
    <3>1. session.at \in Nat
      BY OrderLength DEF TypeInv, SessionType
    <3> QED
      BY <2>1, <3>1 DEF Passed, Repo
  <2>4. CASE /\ work' = work /\ session'.prior = session.prior
             /\ Repo \in ThePlan.changes => work[Repo].receipt = ReceiptOf(session.plan, Repo)
    BY <2>1, <2>2, <2>3, <2>4, Zenon DEF Written
  <2>5. CASE /\ Repo \in ThePlan.changes
             /\ \A q \in Repos : work'[q].receipt = IF q = Repo THEN ReceiptOf(session.plan, q)
                                                               ELSE work[q].receipt
             /\ session'.prior = [q \in DOMAIN session.prior \union {Repo} |->
                                   IF q = Repo THEN work[Repo].receipt ELSE session.prior[q]]
    <3>1. Written' = Written \union {Repo}
      BY <2>5 DEF Written
    <3> QED
      BY <2>1, <2>2, <2>3, <2>5, <3>1, Zenon
  <2> QED
    BY <1>4, <2>4, <2>5, WriteReceiptFacts, Zenon
<1>5. CASE LockIndexAgain
  <2>1. /\ session.pc = "receipts" /\ ~More /\ UNCHANGED <<history, work, plans>>
        /\ session'.pc = "commit" /\ session'.plan = session.plan /\ session'.prior = session.prior
    BY <1>5, PhaseFields DEF LockIndexAgain, At, review
  <2>2. r \in Passed
    BY <2>1, AllPassed DEF Passed, TypeInv
  <2> QED
    BY <1>0, <2>1, <2>2, Zenon DEF ThePlan, ReceiptOf, RevisionOf, HEAD, Revision, Written, ReceiptPhases
<1> QED
  BY <1>1, <1>2, <1>3, <1>4, <1>5, PhaseMoves, Zenon

(* The step that makes an apply succeed leaves a commit with all receipts. *)
LEMMA SuccessCommitted ==
  ASSUME TypeInv, ReceiptsTracked, [Next]_vars, NothingToCommit \/ CommitDeployments
  PROVE  /\ session.plan \in Plans /\ plans[session.plan] # None /\ plans' = plans
         /\ succeeded' = succeeded \union {session.plan}
         /\ \E n \in DOMAIN history' : \A r \in ThePlan.changes :
              history'[n].files[r].receipt = ReceiptOf(session.plan, r)
<1>1. /\ session.plan \in Plans /\ plans[session.plan] # None /\ plans' = plans
      /\ succeeded' = succeeded \union {session.plan} /\ session.pc \in {"receipts", "commit"}
  BY DEF NothingToCommit, CommitDeployments, Succeed, At, review, TypeInv, SessionType
<1>2. ThePlan.changes \subseteq Repos
  BY <1>1 DEF ThePlan, TypeInv, ReviewType, PlanFiles
<1>3. CASE NothingToCommit
  <2>1. session.pc = "receipts" /\ ~More /\ Written = {} /\ history' = history
    BY <1>3 DEF NothingToCommit, At, Written, git
  <2>2. \A r \in ThePlan.changes : HEAD[r].receipt = ReceiptOf(session.plan, r)
    BY <1>2, <2>1, AllPassed DEF ReceiptsTracked, ReceiptPhases, Passed, TypeInv
  <2>3. Revision \in DOMAIN history'
    BY <2>1, HeadType DEF TypeInv
  <2> QED
    BY <1>1, <2>1, <2>2, <2>3 DEF HEAD
<1>4. CASE CommitDeployments
  <2>1. session.pc = "commit" /\ OnlyReceiptsDiffer(Written)
    BY <1>4 DEF CommitDeployments, ReceiptCommitAllowed, At, Written
  <2>2. \A r \in ThePlan.changes : work[r].receipt = ReceiptOf(session.plan, r)
    BY <1>2, <2>1, ZenonT(60) DEF ReceiptsTracked, ReceiptPhases, Passed, OnlyReceiptsDiffer
  <2> DEFINE c == [by |-> "receipts", plan |-> session.plan, files |-> work]
  <2>3. c \in Commits /\ c.files = work /\ history' = Append(history, c)
    BY <1>1, <1>4 DEF CommitDeployments, Commits, TypeInv, GitType
  <2>4. Revision' \in DOMAIN history' /\ history'[Revision'].files = work
    BY <2>3, CommitHead
  <2> QED
    BY <1>1, <2>2, <2>4
<1> QED
  BY <1>3, <1>4

(* Every step keeps the receipts of the plans that succeeded on record.    *)
LEMMA NextSuccess ==
  ASSUME TypeInv, SuccessInv, [Next]_vars
  PROVE  SuccessInv'
<1> USE DEF SuccessInv
<1>1. ReceiptsTracked' /\ NothingWritten'
  BY NextTracked, NextNothingWritten
<1>2. ASSUME NEW p \in succeeded
      PROVE  /\ p \in Plans /\ plans'[p] # None
             /\ \E n \in DOMAIN history' : \A r \in plans'[p].changes :
                  history'[n].files[r].receipt = ReceiptOf(p, r)'
  <2>1. p \in Plans /\ plans'[p] = plans[p] /\ plans[p] # None
    BY PlansStay DEF SucceededPlanned
  <2>2. PICK n \in DOMAIN history :
          \A r \in plans[p].changes : history[n].files[r].receipt = ReceiptOf(p, r)
    BY DEF SuccessRecorded
  <2>3. n \in DOMAIN history' /\ history'[n] = history[n]
    BY HistoryGrows
  <2>4. \A r \in plans'[p].changes : history'[n].files[r].receipt = ReceiptOf(p, r)'
    BY <2>1, <2>2, <2>3 DEF ReceiptOf, RevisionOf
  <2> QED
    BY <2>1, <2>3, <2>4
<1>3. CASE succeeded' = succeeded
  BY <1>1, <1>2, <1>3 DEF SucceededPlanned, SuccessRecorded
<1>4. CASE NothingToCommit \/ CommitDeployments
  <2>1. PICK p \in Plans : p = session.plan /\ plans'[p] # None /\ succeeded' = succeeded \union {p}
    BY <1>4, SuccessCommitted
  <2>2. \E n \in DOMAIN history' : \A r \in plans'[p].changes :
          history'[n].files[r].receipt = ReceiptOf(p, r)'
    <3>1. plans' = plans /\ ThePlan = plans[p]
      BY <1>4, <2>1, SuccessCommitted DEF ThePlan
    <3>2. PICK n \in DOMAIN history' : \A r \in plans[p].changes : history'[n].files[r].receipt = ReceiptOf(p, r)
      BY <1>4, <2>1, <3>1, SuccessCommitted, Zenon
    <3>3. ASSUME NEW r \in plans'[p].changes PROVE history'[n].files[r].receipt = ReceiptOf(p, r)'
      BY <3>1, <3>2 DEF ReceiptOf, RevisionOf
    <3> QED
      BY <3>3
  <2>3. ASSUME NEW q \in succeeded'
        PROVE  /\ q \in Plans /\ plans'[q] # None
               /\ \E n \in DOMAIN history' : \A r \in plans'[q].changes :
                    history'[n].files[r].receipt = ReceiptOf(q, r)'
    <3>1. q \in succeeded \/ q = p
      BY <2>1
    <3>2. CASE q \in succeeded
      BY <1>2, <3>2
    <3>3. CASE q = p
      BY <2>1, <2>2, <3>3
    <3> QED
      BY <3>1, <3>2, <3>3
  <2> QED
    BY <1>1, <2>3, Zenon DEF SucceededPlanned, SuccessRecorded
<1> QED
  BY <1>3, <1>4, SuccessMoves

(* SuccessRecorded: when an apply returns no error, one commit holds the   *)
(* receipts of all the repositories it changed, although people may edit,  *)
(* commit and reset between its writes.                                    *)
THEOREM SuccessIsRecorded == Spec => []SuccessRecorded
<1>1. Spec => []TypeInv
  BY InitType, NextType, PTL DEF Spec
<1>2. TypeInv /\ SuccessInv /\ [Next]_vars => SuccessInv'
  BY NextSuccess
<1>3. SuccessInv => SuccessRecorded
  BY DEF SuccessInv
<1> QED
  BY <1>1, <1>2, <1>3, InitSuccess, PTL DEF Spec
=============================================================================
