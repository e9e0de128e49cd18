------------------------------- MODULE Apply -------------------------------
(***************************************************************************)
(* One workspace and the hosts it publishes to: plan, approve, apply, and  *)
(* rollback (engine/workspace.go, engine/rollback.go), over the Git        *)
(* repository that holds the desired state, the publication ledgers and    *)
(* the deployment receipts (internal/state).                               *)
(*                                                                         *)
(* A tree is identified with the lock it is built from: builds are         *)
(* reproducible, and apply refuses a rebuild whose digest differs.  A host *)
(* is its live revision and what each revision replaced (see Publication); *)
(* staging changes neither.  The snailmail processes of the workspace are  *)
(* serialised by its flock, so there is one session; the people who run    *)
(* Git, the clock, and the rest of the world interleave with every step.   *)
(***************************************************************************)
EXTENDS Naturals, Sequences

CONSTANTS
  Repos,       \* repositories of the manifest
  Order,       \* the order the plan lists them in
  Managed,     \* those on a host that binds a revision to its plan and restores
  Gated,       \* those whose gate is not "auto"
  Plans,       \* plan identities
  Locks,       \* contents a repository's lock file can have
  BindingsOf,  \* lock -> the <<package version, digest>> pairs it records
  VisibleOf,   \* lock -> those its placements make visible
  FirstLock,   \* the lock of a workspace that was just set up
  Foreign,     \* a live root that no snailmail plan published
  None

ASSUME OrderAssumption ==
  /\ Order \in Seq(Repos)
  /\ \A r \in Repos : \E i \in DOMAIN Order : Order[i] = r
  /\ \A i, j \in DOMAIN Order : Order[i] = Order[j] => i = j
ASSUME LockAssumption ==
  /\ FirstLock \in Locks
  /\ \A l \in Locks :
       /\ VisibleOf[l] \subseteq BindingsOf[l]
       /\ \A b, c \in BindingsOf[l] : b[1] = c[1] => b = c
ASSUME KindAssumption == Managed \subseteq Repos /\ Gated \subseteq Repos

VARIABLES
  history,   \* the commits reachable from HEAD, oldest first
  work,      \* repository -> its files in the working tree
  gitLock,   \* Git's lock files: None, "index", or "publication" (index, HEAD and ref)
  plans,     \* plan -> the reviewed plan file, or None
  approved,  \* the <<plan, repository>> pairs with gate evidence that holds now
  expired,   \* plans whose ExpiresAt has passed
  live,      \* repository -> the revision its host serves
  replaced,  \* repository -> (published revision -> what it replaced)
  session,   \* the apply that holds the workspace lock
  lived,     \* <<repository, tree>> pairs a host has served, for the properties
  proved,    \* <<repository, receipt>> pairs whose probe passed, likewise
  succeeded  \* plans whose apply returned no error, likewise

git == <<history, work, gitLock>>
review == <<plans, approved, expired>>
hosts == <<live, replaced, lived>>
vars == <<git, review, hosts, session, proved, succeeded>>

Published == [tree : Locks, plan : Plans \union {None}]
Receipts == [plan : Plans, rev : Published]
Records == [plan : Plans, binding : UNION {BindingsOf[l] : l \in Locks}]

(* The marks are no revisions.                                            *)
ASSUME MarkAssumption == Published \intersect {None, Foreign} = {}

(* pc is the phase, at the next index of Order; ready and current are the  *)
(* prepared repositories and those needing no publication; committed is    *)
(* ledgerCommitted, rev is applyGitRevision; prior holds the receipts that *)
(* CommitDeployments has overwritten.                                      *)
Idle == [pc |-> "idle", plan |-> None, ready |-> {}, current |-> {}, at |-> 1,
         committed |-> FALSE, rev |-> 0, prior |-> [r \in {} |-> None]]

Init ==
  LET files == [r \in Repos |-> [lock |-> FirstLock, ledger |-> {}, receipt |-> None]] IN
  /\ history = <<[by |-> "edit", plan |-> None, files |-> files]>>
  /\ work = files
  /\ gitLock = None
  /\ plans = [p \in Plans |-> None]
  /\ approved = {} /\ expired = {}
  /\ live = [r \in Repos |-> None]
  /\ replaced = [r \in Repos |-> [q \in {} |-> None]]
  /\ session = Idle
  /\ lived = {} /\ proved = {} /\ succeeded = {}

----------------------------------------------------------------------------
(* Git and the files in it *)

Revision == Len(history)
HEAD == history[Revision].files

\* Mutation: trust the working ledger alone.
LedgerTrusted(r) == r \in Repos

(* LoadLedgerHistory: every record of the reachable history must still be  *)
(* in the working ledger.                                                  *)
LedgerReplays(r) == \A n \in DOMAIN history : history[n].files[r].ledger \subseteq work[r].ledger

Recorded(ledger) == {rec.binding : rec \in ledger}

(* A version in the ledger stays in the lock, with the same bytes.         *)
ValidatePublishedBindings(lock, ledger) == Recorded(ledger) \subseteq BindingsOf[lock]

missingPublicationBindings(lock, ledger) == VisibleOf[lock] \ Recorded(ledger)

(* updatedPublicationRecords over the ledger of the plan's base revision.  *)
expectedPublicationLedger(p, r) ==
  history[plans[p].base].files[r].ledger
    \union [plan : {p}, binding : VisibleOf[plans[p].desired[r]]]

TreeOf(rev) == IF rev \in Published THEN rev.tree ELSE None

deploymentMatchesDesired(receipt, observed, tree) ==
  receipt # None /\ receipt.rev = observed /\ TreeOf(observed) = tree

(* What publishing repository r under plan p makes the host report: a      *)
(* local directory is identified by its tree alone.                        *)
RevisionOf(p, r) ==
  [tree |-> plans[p].desired[r], plan |-> IF r \in Managed THEN p ELSE None]

ReceiptOf(p, r) == [plan |-> p, rev |-> RevisionOf(p, r)]

----------------------------------------------------------------------------
(* Plan and approve *)

(* The plan's action for a repository is not "noop".                       *)
Effect(observed, desired, receipt, missing) ==
  \/ TreeOf(observed) # desired
  \/ missing # {}
  \/ ~deploymentMatchesDesired(receipt, observed, desired)

PlanWorkspace(p) ==
  LET missing(r) == missingPublicationBindings(work[r].lock, work[r].ledger) IN
  /\ session = Idle /\ plans[p] = None
  /\ work = HEAD
  /\ \A r \in Repos : /\ LedgerReplays(r)
                      /\ ValidatePublishedBindings(work[r].lock, work[r].ledger)
                      /\ live[r] = Foreign => r \in Managed
  /\ plans' = [plans EXCEPT ![p] =
       [base |-> Revision,
        observed |-> live,
        desired |-> [r \in Repos |-> work[r].lock],
        receipt |-> [r \in Repos |-> work[r].receipt],
        records |-> {r \in Repos : missing(r) # {}},
        changes |-> {r \in Repos : Effect(live[r], work[r].lock, work[r].receipt, missing(r))}]]
  /\ UNCHANGED <<git, approved, expired, hosts, session, proved, succeeded>>

ApprovePlan(p, r) ==
  /\ session = Idle
  /\ plans[p] # None /\ p \notin expired /\ r \in Gated \intersect plans[p].changes
  /\ approved' = approved \union {<<p, r>>}
  /\ UNCHANGED <<git, plans, expired, hosts, session, proved, succeeded>>

(* Approvals carry an expiry of their own; forge evidence can be withdrawn. *)
ApprovalLapses(p, r) ==
  /\ <<p, r>> \in approved
  /\ approved' = approved \ {<<p, r>>}
  /\ UNCHANGED <<git, plans, expired, hosts, session, proved, succeeded>>

PlanExpires(p) ==
  /\ plans[p] # None /\ p \notin expired
  /\ expired' = expired \union {p}
  /\ UNCHANGED <<git, plans, approved, hosts, session, proved, succeeded>>

----------------------------------------------------------------------------
(* Apply: read the plan, revalidate every repository, stage *)

At(pc) == session.pc = pc
ThePlan == plans[session.plan]
Repo == Order[session.at]
More == session.at <= Len(Order)
Goto(pc) == session' = [session EXCEPT !.pc = pc, !.at = 1]
NextRepo == session' = [session EXCEPT !.at = @ + 1]

authorize(p, r) ==
  r \in plans[p].changes => p \notin expired /\ (r \in Gated => <<p, r>> \in approved)

(* ValidatePlanGit: HEAD is the plan's base (only its ledgers may differ   *)
(* in the working tree), its ledger commit, or its receipt commit.         *)
LedgerRevision(p) ==
  IF history[Revision].by = "receipts" /\ history[Revision].plan = p THEN Revision - 1 ELSE Revision
ReceiptsChanged(n) ==
  {r \in Repos : history[n].files[r].receipt # history[n - 1].files[r].receipt}
ValidatePlanGit(p) ==
  LET base == plans[p].base
      ledger == LedgerRevision(p)
  IN \/ /\ Revision = base
        /\ \A r \in Repos : work[r] = [HEAD[r] EXCEPT !.ledger =
                                         IF r \in plans[p].records THEN work[r].ledger ELSE @]
     \/ /\ Revision # base /\ work = HEAD
        /\ ledger # Revision => ReceiptsChanged(Revision) = plans[p].changes
        /\ \/ ledger # Revision /\ plans[p].records = {} /\ ledger = base
           \/ ledger = base + 1 /\ history[ledger].by = "ledgers" /\ history[ledger].plan = p

openApply(p) ==
  /\ session = Idle
  /\ plans[p] # None /\ p \notin expired
  /\ ValidatePlanGit(p)
  /\ session' = [Idle EXCEPT !.pc = "prepare", !.plan = p,
                             !.committed = Revision # plans[p].base]
  /\ UNCHANGED <<git, review, hosts, proved, succeeded>>

deploymentApplied(p, r) == work[r].receipt = ReceiptOf(p, r) /\ live[r] = RevisionOf(p, r)
matchesApplied(p, r) == r \in plans[p].changes /\ live[r] = RevisionOf(p, r)

(* What prepareRepository requires of repository r before it builds it.    *)
Fresh(p, r, committed) ==
  LET plan == plans[p]
      file == work[r]
      missing == missingPublicationBindings(file.lock, file.ledger)
  IN /\ file.lock = plan.desired[r]
     /\ LedgerReplays(r) /\ ValidatePublishedBindings(file.lock, file.ledger)
     /\ IF committed THEN r \in plan.records \/ missing = {}
                     ELSE r \in plan.records <=> missing # {}
     /\ file.receipt = plan.receipt[r] \/ deploymentApplied(p, r)
     /\ live[r] = plan.observed[r] \/ matchesApplied(p, r)
     /\ r \in plan.changes <=> Effect(plan.observed[r], plan.desired[r], plan.receipt[r], missing)

\* Mutation: a published tree counts only once its receipt exists.
CurrentNeedsReceipt(p, r) ==
  /\ TreeOf(live[r]) = plans[p].desired[r]
  /\ deploymentApplied(p, r) \/ r \notin plans[p].changes

(* The host already serves the desired tree, and this plan (or, for a      *)
(* no-op, the receipt) accounts for it.                                    *)
Current(p, r) ==
  /\ TreeOf(live[r]) = plans[p].desired[r]
  /\ \/ deploymentApplied(p, r)
     \/ /\ r \notin plans[p].changes
        /\ deploymentMatchesDesired(work[r].receipt, live[r], plans[p].desired[r])
     \/ matchesApplied(p, r) /\ work[r].receipt = plans[p].receipt[r]

prepareRepository(r) ==
  LET p == session.plan IN
  /\ At("prepare") /\ r \notin session.ready
  /\ Fresh(p, r, session.committed)
  /\ session' = [session EXCEPT !.ready = @ \union {r},
                   !.current = IF Current(p, r) THEN @ \union {r} ELSE @,
                   !.pc = IF session.ready \union {r} = Repos THEN "stage" ELSE @]
  /\ UNCHANGED <<git, review, hosts, proved, succeeded>>

\* Mutation: go live from the staged trees without recording their bindings.
stagePublishesFirst ==
  /\ At("stage") /\ \A r \in Repos : authorize(session.plan, r)
  /\ session' = [session EXCEPT !.pc = "lock", !.rev = Revision]
  /\ UNCHANGED <<git, review, hosts, proved, succeeded>>

(* Every gate, then every gate again right before its stage; the bytes     *)
(* that reach a host here are not live (S3Host models them).               *)
stageOnHosts ==
  /\ At("stage") /\ \A r \in Repos : authorize(session.plan, r)
  /\ Goto("record")
  /\ UNCHANGED <<git, review, hosts, proved, succeeded>>

----------------------------------------------------------------------------
(* Apply: record the bindings in Git before any host changes *)

LedgersChanged(n) == {r \in Repos : history[n].files[r].ledger # history[n - 1].files[r].ledger}

(* A retry whose ledgers an earlier run committed: validated, not written. *)
LedgersValid(p) ==
  /\ work = HEAD
  /\ plans[p].records # {} =>
       /\ LedgersChanged(LedgerRevision(p)) = plans[p].records
       /\ \A r \in plans[p].records :
            history[LedgerRevision(p)].files[r].ledger = expectedPublicationLedger(p, r)

ResumeLedgers ==
  /\ At("record") /\ session.committed /\ LedgersValid(session.plan)
  /\ session' = [session EXCEPT !.pc = "lock", !.rev = Revision]
  /\ UNCHANGED <<git, review, hosts, proved, succeeded>>

(* The gates are asked once more before the first ledger is touched.       *)
RecordAllowed(p, r) ==
  /\ session.at = 1 => \A q \in plans[p].records : authorize(p, q)
  /\ r \in plans[p].records =>
       work[r].ledger \in {history[plans[p].base].files[r].ledger, expectedPublicationLedger(p, r)}

PreparePublicationRecords ==
  LET p == session.plan IN
  /\ At("record") /\ ~session.committed /\ More
  /\ RecordAllowed(p, Repo)
  /\ work' = IF Repo \in ThePlan.records
             THEN [work EXCEPT ![Repo].ledger = expectedPublicationLedger(p, Repo)]
             ELSE work
  /\ NextRepo
  /\ UNCHANGED <<history, gitLock, review, hosts, proved, succeeded>>

NothingToRecord ==
  /\ At("record") /\ ~session.committed /\ ~More /\ ThePlan.records = {}
  /\ session' = [session EXCEPT !.pc = "lock", !.rev = ThePlan.base]
  /\ UNCHANGED <<git, review, hosts, proved, succeeded>>

(* CommitPublicationLedgers takes index.lock, an O_EXCL file that outlives *)
(* a crash, and then commits with a compare and swap of the branch.        *)
LockIndex ==
  /\ At("record") /\ ~session.committed /\ ~More /\ ThePlan.records # {}
  /\ gitLock = None /\ Revision = ThePlan.base
  /\ gitLock' = "index"
  /\ Goto("ledgers")
  /\ UNCHANGED <<history, work, review, hosts, proved, succeeded>>

OnlyLedgersDiffer(repos) ==
  \A r \in Repos : /\ work[r] = [HEAD[r] EXCEPT !.ledger = work[r].ledger]
                   /\ work[r].ledger # HEAD[r].ledger <=> r \in repos
LedgerCommitAllowed == Revision = ThePlan.base /\ OnlyLedgersDiffer(ThePlan.records)

(* ValidateCommittedPublicationLedger runs after the commit: when a ledger *)
(* was edited meanwhile the apply stops, and the commit stays.             *)
CommitPublicationLedgers ==
  LET p == session.plan IN
  /\ At("ledgers") /\ LedgerCommitAllowed
  /\ history' = Append(history, [by |-> "ledgers", plan |-> p, files |-> work])
  /\ gitLock' = None
  /\ session' = IF \A r \in ThePlan.records : work[r].ledger = expectedPublicationLedger(p, r)
                THEN [session EXCEPT !.pc = "lock", !.rev = Revision + 1]
                ELSE Idle
  /\ UNCHANGED <<work, review, hosts, proved, succeeded>>

----------------------------------------------------------------------------
(* Apply: switch the repositories live, in plan order *)

LockAllowed ==
  /\ session.current # Repos => gitLock = None
  /\ work = HEAD /\ Revision = session.rev

AcquireGitRevisionLock ==
  /\ At("lock") /\ LockAllowed
  /\ gitLock' = IF session.current = Repos THEN gitLock ELSE "publication"
  /\ Goto("publish")
  /\ UNCHANGED <<history, work, review, hosts, proved, succeeded>>

Holding ==
  \/ session.pc \in {"ledgers", "commit"}
  \/ session.pc \in {"publish", "probe"} /\ session.current # Repos

(* An error return: the locks go, and CommitDeployments puts back the      *)
(* receipts it had overwritten.                                            *)
GiveUp ==
  /\ session' = Idle
  /\ gitLock' = IF Holding THEN None ELSE gitLock
  /\ work' = [r \in Repos |-> [work[r] EXCEPT !.receipt =
                IF r \in DOMAIN session.prior THEN session.prior[r] ELSE @]]
  /\ UNCHANGED <<history, review, proved, succeeded>>

Publishing == At("publish") /\ More

VerifyNoop ==
  /\ Publishing /\ Repo \in session.current \ ThePlan.changes
  /\ NextRepo
  /\ UNCHANGED <<git, review, hosts, proved, succeeded>>

(* A client installs from the endpoint before the receipt claims the tree. *)
VerifyCurrent ==
  /\ Publishing /\ Repo \in session.current \intersect ThePlan.changes
  /\ proved' = proved \union {<<Repo, ReceiptOf(session.plan, Repo)>>}
  /\ NextRepo
  /\ UNCHANGED <<git, review, hosts, succeeded>>

(* Host.Restore: a compare and swap back to what the revision replaced.    *)
Restore(r, from) ==
  /\ live' = IF live[r] = from /\ from \in DOMAIN replaced[r]
             THEN [live EXCEPT ![r] = replaced[r][from]] ELSE live
  /\ UNCHANGED <<replaced, lived>>

(* restoreFailedPublication is gated like the change that failed.          *)
restoreFailedPublication(p, r) ==
  IF authorize(p, r) THEN Restore(r, RevisionOf(p, r)) ELSE UNCHANGED hosts

VerifyCurrentFails ==
  /\ Publishing /\ Repo \in session.current \intersect ThePlan.changes
  /\ restoreFailedPublication(session.plan, Repo)
  /\ GiveUp

\* Mutation: an unconditional Host.Commit.
PublishUnconditional(p, r) == Revision = session.rev /\ authorize(p, r)

PublishAllowed(p, r) ==
  Revision = session.rev /\ authorize(p, r) /\ live[r] = plans[p].observed[r]

(* Host.Commit, a compare and swap from the revision the plan reviewed.    *)
SwitchLive(p, r) ==
  LET rev == RevisionOf(p, r) IN
  /\ live' = [live EXCEPT ![r] = rev]
  /\ replaced' = IF r \in Managed
                 THEN [replaced EXCEPT ![r] = [q \in DOMAIN @ \union {rev} |->
                                                 IF q = rev THEN live[r] ELSE @[q]]]
                 ELSE replaced
  /\ lived' = lived \union {<<r, rev.tree>>}

\* Mutation: take Host.Commit's answer for the probe.
PublishUnprobed ==
  /\ Publishing /\ Repo \notin session.current
  /\ PublishAllowed(session.plan, Repo)
  /\ SwitchLive(session.plan, Repo)
  /\ NextRepo
  /\ UNCHANGED <<git, review, proved, succeeded>>

Publish ==
  /\ Publishing /\ Repo \notin session.current
  /\ PublishAllowed(session.plan, Repo)
  /\ SwitchLive(session.plan, Repo)
  /\ session' = [session EXCEPT !.pc = "probe"]
  /\ UNCHANGED <<git, review, proved, succeeded>>

(* The switch happened and its answer was lost.                            *)
PublishUnanswered ==
  /\ Publishing /\ Repo \notin session.current
  /\ PublishAllowed(session.plan, Repo)
  /\ SwitchLive(session.plan, Repo)
  /\ GiveUp

ProbePasses ==
  /\ At("probe") /\ live[Repo] = RevisionOf(session.plan, Repo) /\ Revision = session.rev
  /\ proved' = proved \union {<<Repo, ReceiptOf(session.plan, Repo)>>}
  /\ session' = [session EXCEPT !.pc = "publish", !.at = @ + 1]
  /\ UNCHANGED <<git, review, hosts, succeeded>>

ProbeFails ==
  /\ At("probe")
  /\ restoreFailedPublication(session.plan, Repo)
  /\ GiveUp

----------------------------------------------------------------------------
(* Apply: the deployment receipts, only when every repository passed *)

ReleaseGit ==
  /\ At("publish") /\ ~More
  /\ gitLock' = IF Holding THEN None ELSE gitLock
  /\ Goto("receipts")
  /\ UNCHANGED <<history, work, review, hosts, proved, succeeded>>

WriteReceipt ==
  LET receipt == ReceiptOf(session.plan, Repo)
      write == Repo \in ThePlan.changes /\ work[Repo].receipt # receipt
  IN /\ At("receipts") /\ More
     /\ work' = IF write THEN [work EXCEPT ![Repo].receipt = receipt] ELSE work
     /\ session' = [session EXCEPT !.at = @ + 1, !.prior =
                      IF write THEN [r \in DOMAIN @ \union {Repo} |->
                                       IF r = Repo THEN work[Repo].receipt ELSE @[r]]
                               ELSE @]
     /\ UNCHANGED <<history, gitLock, review, hosts, proved, succeeded>>

Succeed == session' = Idle /\ succeeded' = succeeded \union {session.plan}

\* Mutation: return before the receipts are committed.
ReturnUncommitted ==
  /\ At("receipts") /\ ~More
  /\ Succeed
  /\ UNCHANGED <<git, review, hosts, proved>>

NothingToCommit ==
  /\ At("receipts") /\ ~More /\ DOMAIN session.prior = {}
  /\ Succeed
  /\ UNCHANGED <<git, review, hosts, proved>>

LockIndexAgain ==
  /\ At("receipts") /\ ~More /\ DOMAIN session.prior # {}
  /\ gitLock = None /\ Revision = session.rev
  /\ gitLock' = "index"
  /\ session' = [session EXCEPT !.pc = "commit"]
  /\ UNCHANGED <<history, work, review, hosts, proved, succeeded>>

OnlyReceiptsDiffer(repos) ==
  \A r \in Repos : /\ work[r] = [HEAD[r] EXCEPT !.receipt = work[r].receipt]
                   /\ work[r].receipt # HEAD[r].receipt <=> r \in repos
ReceiptCommitAllowed == Revision = session.rev /\ OnlyReceiptsDiffer(DOMAIN session.prior)

CommitDeployments ==
  /\ At("commit") /\ ReceiptCommitAllowed
  /\ history' = Append(history, [by |-> "receipts", plan |-> session.plan, files |-> work])
  /\ gitLock' = None
  /\ Succeed
  /\ UNCHANGED <<work, review, hosts, proved>>

----------------------------------------------------------------------------
(* Refusals, faults, and everyone else *)

(* The next step's condition does not hold and the apply returns an error. *)
(* When the observation after a switch is not the revision just committed, *)
(* the compare and swap of the restore fails as well.                      *)
Refused ==
  LET p == session.plan IN
  \/ At("prepare") /\ \E r \in Repos \ session.ready : ~Fresh(p, r, session.committed)
  \/ At("stage") /\ \E r \in Repos : ~authorize(p, r)
  \/ At("record") /\ session.committed /\ ~LedgersValid(p)
  \/ At("record") /\ ~session.committed /\ More /\ ~RecordAllowed(p, Repo)
  \/ At("record") /\ ~More /\ ThePlan.records # {} /\ ~(gitLock = None /\ Revision = ThePlan.base)
  \/ At("ledgers") /\ ~LedgerCommitAllowed
  \/ At("lock") /\ ~LockAllowed
  \/ Publishing /\ Repo \notin session.current /\ ~PublishAllowed(p, Repo)
  \/ At("probe") /\ ~(live[Repo] = RevisionOf(p, Repo) /\ Revision = session.rev)
  \/ At("receipts") /\ ~More /\ DOMAIN session.prior # {} /\ ~(gitLock = None /\ Revision = session.rev)
  \/ At("commit") /\ ~ReceiptCommitAllowed

Refuse == Refused /\ GiveUp /\ UNCHANGED hosts

(* A host, registry, disk or Git command fails without an effect.          *)
StepFails == session # Idle /\ GiveUp /\ UNCHANGED hosts

(* The flock goes with the process; lock files and the working tree stay.  *)
Crash ==
  /\ session # Idle
  /\ session' = Idle
  /\ UNCHANGED <<git, review, hosts, proved, succeeded>>

(* RollbackRepository, which holds the workspace lock.                     *)
RollbackRepository(r) ==
  /\ session = Idle /\ live[r] \in DOMAIN replaced[r]
  /\ Restore(r, live[r])
  /\ UNCHANGED <<git, review, session, proved, succeeded>>

(* Somebody writes to the host outside snailmail.                          *)
Drift(r) ==
  /\ live[r] # Foreign
  /\ live' = [live EXCEPT ![r] = Foreign]
  /\ UNCHANGED <<git, review, replaced, lived, session, proved, succeeded>>

(* People edit locks, and may take a ledger back to an earlier state; Git  *)
(* itself respects the lock files and not the workspace lock.              *)
EditLock(r, l) ==
  /\ work[r].lock # l
  /\ work' = [work EXCEPT ![r].lock = l]
  /\ UNCHANGED <<history, gitLock, review, hosts, session, proved, succeeded>>

RevertLedger(r) ==
  /\ work[r].ledger # {}
  /\ work' = [work EXCEPT ![r].ledger = {}]
  /\ UNCHANGED <<history, gitLock, review, hosts, session, proved, succeeded>>

GitCommit ==
  /\ gitLock = None /\ work # HEAD
  /\ history' = Append(history, [by |-> "edit", plan |-> None, files |-> work])
  /\ UNCHANGED <<work, gitLock, review, hosts, session, proved, succeeded>>

GitReset ==
  /\ gitLock = None /\ work # HEAD
  /\ work' = HEAD
  /\ UNCHANGED <<history, gitLock, review, hosts, session, proved, succeeded>>

(* What describeGitLockConflict tells the operator to do.                  *)
RemoveGitLocks ==
  /\ session = Idle /\ gitLock # None
  /\ gitLock' = None
  /\ UNCHANGED <<history, work, review, hosts, session, proved, succeeded>>

----------------------------------------------------------------------------
(* The steps of an apply that go well, or are refused for a reason. *)
ApplyStep ==
  \/ \E r \in Repos : prepareRepository(r)
  \/ stageOnHosts
  \/ ResumeLedgers \/ PreparePublicationRecords \/ NothingToRecord
  \/ LockIndex \/ CommitPublicationLedgers
  \/ AcquireGitRevisionLock
  \/ VerifyNoop \/ VerifyCurrent \/ Publish \/ ProbePasses
  \/ ReleaseGit \/ WriteReceipt \/ NothingToCommit \/ LockIndexAgain \/ CommitDeployments
  \/ Refuse

Fault == VerifyCurrentFails \/ PublishUnanswered \/ ProbeFails \/ StepFails \/ Crash

Command == \E p \in Plans : PlanWorkspace(p) \/ openApply(p) \/ \E r \in Repos : ApprovePlan(p, r)

Outside ==
  \/ \E p \in Plans : PlanExpires(p) \/ \E r \in Repos : ApprovalLapses(p, r)
  \/ \E r \in Repos : Drift(r) \/ RollbackRepository(r)

Recover == GitReset \/ RemoveGitLocks

Edit ==
  \/ \E r \in Repos : RevertLedger(r) \/ \E l \in Locks : EditLock(r, l)
  \/ GitCommit

Next == ApplyStep \/ Fault \/ Command \/ Recover \/ Edit \/ Outside

Spec == Init /\ [][Next]_vars

----------------------------------------------------------------------------
Revisions == Published \union {None, Foreign}
Files == [lock : Locks, ledger : SUBSET Records, receipt : Receipts \union {None}]
PlanFiles ==
  [base : DOMAIN history, observed : [Repos -> Revisions], desired : [Repos -> Locks],
   receipt : [Repos -> Receipts \union {None}], records : SUBSET Repos, changes : SUBSET Repos]

Phases == {"idle", "prepare", "stage", "record", "ledgers", "lock", "publish", "probe",
           "receipts", "commit"}

(* Every file, plan, revision and phase is one the code can produce.       *)
TypeOK ==
  /\ \A n \in DOMAIN history :
       /\ history[n].by \in {"edit", "ledgers", "receipts"}
       /\ history[n].plan \in Plans \union {None}
       /\ history[n].files \in [Repos -> Files]
  /\ work \in [Repos -> Files]
  /\ gitLock \in {None, "index", "publication"}
  /\ DOMAIN plans = Plans /\ \A p \in Plans : plans[p] # None => plans[p] \in PlanFiles
  /\ approved \subseteq Plans \X Repos /\ expired \subseteq Plans
  /\ live \in [Repos -> Revisions]
  /\ DOMAIN replaced = Repos
  /\ \A r \in Repos : /\ DOMAIN replaced[r] \subseteq Published
                      /\ \A q \in DOMAIN replaced[r] : replaced[r][q] \in Revisions
  /\ session.pc \in Phases /\ session.plan \in Plans \union {None}
  /\ session.at \in 1..(Len(Order) + 1) /\ session.current \subseteq Repos
  /\ session.pc # "idle" => plans[session.plan] # None

(* ARCHITECTURE 4.2: the bindings a host serves were committed to the      *)
(* ledger first, and no crash, failed apply, rollback or revert in between *)
(* leaves a published version that Git's history does not account for.     *)
LedgerCoversLive ==
  \A r \in Repos : live[r] \in Published =>
    \A b \in VisibleOf[live[r].tree] :
      \E n \in DOMAIN history : b \in Recorded(history[n].files[r].ledger)

(* A version a host has ever served never changes bytes, whatever is       *)
(* edited, reverted or half-applied afterwards.                            *)
VersionsImmutable ==
  \A x, y \in lived : x[1] = y[1] =>
    \A b \in VisibleOf[x[2]], c \in VisibleOf[y[2]] : b[1] = c[1] => b = c

(* A receipt in Git names a revision that its plan made live and whose     *)
(* probe passed, also when a person committed what a crash left behind.    *)
ReceiptsProved ==
  \A n \in DOMAIN history, r \in Repos :
    LET receipt == history[n].files[r].receipt IN receipt # None => <<r, receipt>> \in proved

(* An apply that returns no error has one commit with the receipts of all  *)
(* the repositories it changed; publishing only some is never a success.   *)
SuccessRecorded ==
  \A p \in succeeded : \E n \in DOMAIN history : \A r \in plans[p].changes :
    history[n].files[r].receipt = ReceiptOf(p, r)

(* An apply moves a host only between the revision its plan reviewed and   *)
(* the plan's own: it never publishes over, or restores, anything else.    *)
OnlyReviewedMoves ==
  [][\A r \in Repos : live'[r] \notin {live[r], Foreign} /\ session # Idle =>
       {live[r], live'[r]} = {ThePlan.observed[r], RevisionOf(session.plan, r)}]_vars

(* Another change reached Git or a host after the plan was made, so that   *)
(* the plan is stale and a new one is needed.                              *)
Overtaken(p) ==
  /\ plans[p] # None
  /\ \/ \E n \in plans[p].base + 1 .. Revision : history[n].plan # p
     \/ \E r \in Repos : live[r] \notin {plans[p].observed[r], RevisionOf(p, r)}

(* ARCHITECTURE 4.2, "an interrupted apply resume[s]": wherever an apply   *)
(* is interrupted, running it again (after removing the lock files and     *)
(* resetting the files a crash left) completes the plan, unless it expires *)
(* or is overtaken first.                                                  *)
Completes ==
  \A p \in Plans : plans[p] # None ~> (p \in succeeded \/ p \in expired \/ Overtaken(p))

(* internal/state/ledger.go, PreparePublicationRecords: an apply retry     *)
(* takes the reviewed base ledger or the bytes an interrupted run already  *)
(* prepared, when nothing else has changed.                                *)
PreparedLedgersAccepted ==
  \A p \in Plans :
    /\ session = Idle /\ plans[p] # None
    /\ Revision = plans[p].base /\ ValidatePlanGit(p)
    /\ live = plans[p].observed
    /\ \A r \in plans[p].records :
         work[r].ledger \in {HEAD[r].ledger, expectedPublicationLedger(p, r)}
    => \A r \in Repos : Fresh(p, r, FALSE)
============================================================================
