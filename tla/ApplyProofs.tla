---------------------------- MODULE ApplyProofs ----------------------------
(***************************************************************************)
(* Proofs about plan, apply and rollback for any repositories, plans and   *)
(* locks: the type invariant, strengthened to be inductive; a host moves   *)
(* only between the revision a plan reviewed and the plan's own; and the   *)
(* bindings a host serves were committed to the ledger before.             *)
(***************************************************************************)
EXTENDS Apply, TLAPS

Commits == [by : {"edit", "ledgers", "receipts"}, plan : Plans \union {None}, files : [Repos -> Files]]

Fields == {"pc", "plan", "ready", "current", "at", "committed", "rev", "prior"}

(* The type invariant in parts, with what it takes to be inductive: the    *)
(* history is a sequence that starts with an edit, receipts put back are   *)
(* receipts, and a running session has a plan.                             *)
GitType ==
  /\ history \in Seq(Commits) /\ history # << >> /\ history[1].by = "edit"
  /\ work \in [Repos -> Files]
  /\ gitLock \in {None, "index", "publication"}

ReviewType ==
  /\ DOMAIN plans = Plans /\ \A p \in Plans : plans[p] # None => plans[p] \in PlanFiles
  /\ approved \subseteq Plans \X Repos /\ expired \subseteq Plans

HostType ==
  /\ live \in [Repos -> Revisions]
  /\ DOMAIN replaced = Repos
  /\ \A r \in Repos : /\ DOMAIN replaced[r] \subseteq Published
                      /\ \A q \in DOMAIN replaced[r] : replaced[r][q] \in Revisions

SessionType ==
  /\ DOMAIN session = Fields
  /\ session.pc \in Phases /\ session.plan \in Plans \union {None}
  /\ session.at \in 1..(Len(Order) + 1)
  /\ session.ready \subseteq Repos /\ session.current \subseteq Repos
  /\ DOMAIN session.prior \subseteq Repos
  /\ \A r \in DOMAIN session.prior : session.prior[r] \in Receipts \union {None}
  /\ session.pc = "idle" => session = Idle
  /\ session.pc # "idle" => session.plan \in Plans /\ plans[session.plan] # None
  /\ session.pc = "probe" => More

TypeInv == GitType /\ ReviewType /\ HostType /\ SessionType

USE OrderAssumption, LockAssumption, KindAssumption, MarkAssumption

(* The plan's order lists repositories only.                               *)
LEMMA OrderLength == Len(Order) \in Nat /\ \A i \in 1..Len(Order) : Order[i] \in Repos
OBVIOUS

(* The inductive type invariant implies TypeOK.                            *)
LEMMA TypeInvType == TypeInv => TypeOK
<1> SUFFICES ASSUME TypeInv PROVE TypeOK
  OBVIOUS
<1>1. \A n \in DOMAIN history : history[n] \in Commits
  BY DEF TypeInv, GitType
<1>2. \A n \in DOMAIN history :
       /\ history[n].by \in {"edit", "ledgers", "receipts"}
       /\ history[n].plan \in Plans \union {None}
       /\ history[n].files \in [Repos -> Files]
  BY <1>1 DEF Commits
<1> QED
  BY <1>2 DEF TypeInv, GitType, ReviewType, HostType, SessionType, TypeOK

(* The fields of a session that is not running.                            *)
LEMMA IdleType == /\ DOMAIN Idle = Fields
                  /\ Idle.pc = "idle" /\ Idle.plan = None /\ Idle.at = 1
                  /\ Idle.ready = {} /\ Idle.current = {}
                  /\ DOMAIN Idle.prior = {}
BY DEF Idle, Fields

(* A workspace that was just set up satisfies the type invariant.          *)
LEMMA InitType == Init => TypeInv
<1> SUFFICES ASSUME Init PROVE TypeInv
  OBVIOUS
<1> DEFINE files == [r \in Repos |-> [lock |-> FirstLock, ledger |-> {}, receipt |-> None]]
           first == [by |-> "edit", plan |-> None, files |-> files]
<1>1. files \in [Repos -> Files]
  BY DEF Files
<1>2. GitType
  <2>1. history = <<first>> /\ work = files /\ gitLock = None
    BY DEF Init
  <2>2. first \in Commits /\ first.by = "edit"
    BY <1>1, ZenonT(60) DEF Commits
  <2> HIDE DEF first
  <2>3. <<first>> \in Seq(Commits) /\ <<first>> # << >> /\ <<first>>[1] = first
    BY <2>2
  <2> QED
    BY <1>1, <2>1, <2>2, <2>3, Zenon DEF GitType
<1>3. ReviewType
  BY DEF Init, ReviewType
<1>4. HostType
  BY DEF Init, HostType, Revisions
<1>5. SessionType
  BY IdleType, OrderLength DEF Init, SessionType, Phases
<1> QED
  BY <1>2, <1>3, <1>4, <1>5 DEF TypeInv

----------------------------------------------------------------------------

(* A commit keeps the history before it and the edit at its root.          *)
LEMMA AppendCommit ==
  ASSUME GitType, NEW c \in Commits, history' = Append(history, c)
  PROVE  /\ history' \in Seq(Commits) /\ history' # << >> /\ history'[1].by = "edit"
         /\ Revision \in Nat \ {0} /\ Revision' = Revision + 1
         /\ DOMAIN history \subseteq DOMAIN history'
         /\ \A n \in DOMAIN history : history'[n] = history[n]
         /\ (Revision + 1) \in DOMAIN history' /\ history'[Revision + 1] = c
BY DEF GitType, Revision

(* Every commit of the history carries the files of every repository.      *)
LEMMA CommitType ==
  ASSUME GitType, NEW n \in DOMAIN history
  PROVE  history[n] \in Commits /\ history[n].files \in [Repos -> Files]
<1>1. history[n] \in Commits
  BY DEF GitType
<1> QED
  BY <1>1 DEF Commits

(* HEAD is a commit of the history.                                        *)
LEMMA HeadType == GitType => Revision \in DOMAIN history /\ HEAD \in [Repos -> Files]
<1>1. GitType => Revision \in DOMAIN history
  BY DEF GitType, Revision
<1> QED
  BY <1>1, CommitType DEF HEAD

(* A plan's base stays in a history that grows, so reviewed plans stay     *)
(* plans.                                                                  *)
LEMMA ReviewSame ==
  ASSUME ReviewType, UNCHANGED review, DOMAIN history \subseteq DOMAIN history'
  PROVE  ReviewType'
<1>1. PlanFiles \subseteq PlanFiles'
  BY DEF PlanFiles
<1> QED
  BY <1>1 DEF ReviewType, review

(* A step outside the session keeps its type.                              *)
LEMMA SessionSame == SessionType /\ UNCHANGED <<session, plans>> => SessionType'
BY DEF SessionType, More

(* A session that ends is well typed.                                      *)
LEMMA SessionIdle == session' = Idle => SessionType'
BY IdleType, OrderLength DEF SessionType, Phases

(* A step of a running session that keeps its plan and moves within the    *)
(* order and the phases keeps its type.                                    *)
LEMMA SessionMove ==
  ASSUME SessionType, UNCHANGED plans, session.pc # "idle",
         DOMAIN session' = Fields, session'.plan = session.plan,
         session'.pc \in Phases \ {"idle"}, session'.pc = "probe" => More',
         session'.at \in 1..(Len(Order) + 1),
         session'.ready \subseteq Repos, session'.current \subseteq Repos,
         DOMAIN session'.prior \subseteq Repos,
         \A r \in DOMAIN session'.prior : session'.prior[r] \in Receipts \union {None}
  PROVE  SessionType'
BY DEF SessionType

(* Moving to the next phase keeps the session's type.                      *)
LEMMA GotoMoves ==
  ASSUME SessionType, UNCHANGED plans, session.pc # "idle",
         NEW x \in Phases \ {"idle", "probe"}, Goto(x)
  PROVE  SessionType'
<1>1. /\ DOMAIN session' = Fields /\ session'.pc = x /\ session'.at = 1
      /\ session'.plan = session.plan /\ session'.ready = session.ready
      /\ session'.current = session.current /\ session'.prior = session.prior
  BY DEF Goto, SessionType, Fields
<1> QED
  BY <1>1, SessionMove, OrderLength DEF SessionType

(* What a plan publishes is a published revision, and what it records is a *)
(* receipt.                                                                *)
LEMMA RevisionOfType ==
  ASSUME ReviewType, NEW p \in Plans, plans[p] # None, NEW r \in Repos
  PROVE  RevisionOf(p, r) \in Published /\ ReceiptOf(p, r) \in Receipts
<1>1. plans[p].desired[r] \in Locks
  BY DEF ReviewType, PlanFiles
<1> QED
  BY <1>1 DEF RevisionOf, ReceiptOf, Published, Receipts

(* Moving to the next repository keeps the session's type.                 *)
LEMMA NextRepoMoves ==
  ASSUME SessionType, UNCHANGED plans, session.pc \notin {"idle", "probe"}, More, NextRepo
  PROVE  SessionType'
<1>1. /\ DOMAIN session' = Fields /\ session'.pc = session.pc /\ session'.at = session.at + 1
      /\ session'.plan = session.plan /\ session'.ready = session.ready
      /\ session'.current = session.current /\ session'.prior = session.prior
  BY DEF NextRepo, SessionType, Fields
<1>2. session'.at \in 1..(Len(Order) + 1)
  BY <1>1, OrderLength DEF SessionType, More
<1> QED
  BY <1>1, <1>2, SessionMove, OrderLength DEF SessionType

(* Moving to the publication lock keeps the session's type.                *)
LEMMA LockPhaseMoves ==
  ASSUME SessionType, UNCHANGED plans, session.pc # "idle",
         NEW n, session' = [session EXCEPT !.pc = "lock", !.rev = n]
  PROVE  SessionType'
<1>1. /\ DOMAIN session' = Fields /\ session'.pc = "lock" /\ session'.at = session.at
      /\ session'.plan = session.plan /\ session'.ready = session.ready
      /\ session'.current = session.current /\ session'.prior = session.prior
  BY DEF SessionType, Fields
<1> QED
  BY <1>1, SessionMove, OrderLength DEF SessionType, Phases

(* The ledger a plan expects holds records only.                           *)
LEMMA ExpectedType ==
  ASSUME GitType, ReviewType, NEW p \in Plans, plans[p] # None, NEW r \in Repos
  PROVE  expectedPublicationLedger(p, r) \subseteq Records
<1>1. plans[p].base \in DOMAIN history /\ plans[p].desired[r] \in Locks
  BY DEF ReviewType, PlanFiles
<1>2. history[plans[p].base].files[r] \in Files
  BY <1>1, CommitType
<1>3. [plan : {p}, binding : VisibleOf[plans[p].desired[r]]] \subseteq Records
  BY <1>1 DEF Records
<1> QED
  BY <1>2, <1>3 DEF expectedPublicationLedger, Files

(* Replacing one file of one repository leaves a working tree.             *)
LEMMA FilesUpdate ==
  ASSUME NEW f \in [Repos -> Files], NEW r \in Repos
  PROVE  /\ \A l \in Locks : [f EXCEPT ![r].lock = l] \in [Repos -> Files]
         /\ \A e \in SUBSET Records : [f EXCEPT ![r].ledger = e] \in [Repos -> Files]
         /\ \A t \in Receipts \union {None} : [f EXCEPT ![r].receipt = t] \in [Repos -> Files]
<1>0. /\ f[r] = [lock |-> f[r].lock, ledger |-> f[r].ledger, receipt |-> f[r].receipt]
      /\ f[r].lock \in Locks /\ f[r].ledger \in SUBSET Records /\ f[r].receipt \in Receipts \union {None}
  BY DEF Files
<1>1. ASSUME NEW l \in Locks PROVE [f[r] EXCEPT !.lock = l] \in Files
  <2>1. [f[r] EXCEPT !.lock = l] = [lock |-> l, ledger |-> f[r].ledger, receipt |-> f[r].receipt]
    BY <1>0
  <2> QED
    BY <1>0, <2>1 DEF Files
<1>2. ASSUME NEW e \in SUBSET Records PROVE [f[r] EXCEPT !.ledger = e] \in Files
  <2>1. [f[r] EXCEPT !.ledger = e] = [lock |-> f[r].lock, ledger |-> e, receipt |-> f[r].receipt]
    BY <1>0
  <2> QED
    BY <1>0, <2>1 DEF Files
<1>3. ASSUME NEW t \in Receipts \union {None} PROVE [f[r] EXCEPT !.receipt = t] \in Files
  <2>1. [f[r] EXCEPT !.receipt = t] = [lock |-> f[r].lock, ledger |-> f[r].ledger, receipt |-> t]
    BY <1>0
  <2> QED
    BY <1>0, <2>1 DEF Files
<1> QED
  BY <1>1, <1>2, <1>3, ZenonT(60)

(* An error return, with the receipts it puts back, keeps all types but    *)
(* the hosts'.                                                             *)
LEMMA GiveUpType ==
  ASSUME TypeInv, GiveUp
  PROVE  GitType' /\ ReviewType' /\ SessionType'
<1> USE DEF TypeInv
<1>1. GitType'
  <2>1. work' \in [Repos -> Files]
    <3> SUFFICES ASSUME NEW r \in Repos PROVE work'[r] \in Files
      BY DEF GiveUp
    <3>1. work[r] \in Files
      BY DEF GitType
    <3> DEFINE t == IF r \in DOMAIN session.prior THEN session.prior[r] ELSE work[r].receipt
    <3>2. work'[r] = [work[r] EXCEPT !.receipt = t]
      BY DEF GiveUp
    <3>3. t \in Receipts \union {None}
      BY <3>1 DEF Files, SessionType
    <3> QED
      BY <3>1, <3>2, <3>3 DEF Files
  <2> QED
    BY <2>1 DEF GitType, GiveUp
<1>2. ReviewType'
  BY ReviewSame DEF GiveUp
<1>3. SessionType'
  BY SessionIdle DEF GiveUp
<1> QED
  BY <1>1, <1>2, <1>3

(* A publication keeps the hosts' type.                                    *)
LEMMA SwitchLiveType ==
  ASSUME HostType, ReviewType, NEW p \in Plans, plans[p] # None, NEW r \in Repos, SwitchLive(p, r)
  PROVE  HostType'
<1>1. RevisionOf(p, r) \in Published
  BY RevisionOfType
<1> QED
  BY <1>1 DEF SwitchLive, HostType, Revisions

(* A restore keeps the hosts' type.                                        *)
LEMMA RestoreType ==
  ASSUME HostType, NEW r \in Repos, NEW from, Restore(r, from)
  PROVE  HostType'
BY DEF Restore, HostType

----------------------------------------------------------------------------

(* Every step keeps the type invariant: one case per action.               *)
LEMMA NextType == TypeInv /\ [Next]_vars => TypeInv'
<1> SUFFICES ASSUME TypeInv, [Next]_vars PROVE TypeInv'
  OBVIOUS
<1> USE DEF TypeInv
<1>i. session.pc # "idle" => session.plan \in Plans /\ plans[session.plan] # None /\ ThePlan \in PlanFiles
  BY DEF SessionType, ReviewType, ThePlan
<1>o. More => Repo \in Repos
  BY OrderLength DEF More, Repo, SessionType
<1>1. ASSUME NEW r \in Repos, prepareRepository(r) PROVE TypeInv'
  <2>1. GitType' /\ ReviewType' /\ HostType'
    BY <1>1, ReviewSame DEF prepareRepository, git, hosts, GitType, HostType
  <2>2. /\ DOMAIN session' = Fields /\ session'.pc \in {"prepare", "stage"} /\ session'.at = session.at
        /\ session'.plan = session.plan /\ session'.ready = session.ready \union {r}
        /\ session'.current \subseteq session.current \union {r} /\ session'.prior = session.prior
    BY <1>1 DEF prepareRepository, SessionType, Fields, At
  <2>3. SessionType'
    BY <1>1, <2>2, SessionMove, OrderLength DEF prepareRepository, SessionType, At, review, Phases
  <2> QED
    BY <2>1, <2>3
<1>2. CASE stageOnHosts
  BY <1>2, ReviewSame, GotoMoves DEF stageOnHosts, git, hosts, review, GitType, HostType, At, Phases
<1>3. CASE ResumeLedgers
  BY <1>3, ReviewSame, LockPhaseMoves, Zenon DEF ResumeLedgers, git, hosts, review, GitType, HostType, At
<1>4. CASE PreparePublicationRecords
  <2>1. session.plan \in Plans /\ plans[session.plan] # None /\ Repo \in Repos
    BY <1>4, <1>i, <1>o DEF PreparePublicationRecords, At
  <2>2. work' \in [Repos -> Files]
    <3>1. expectedPublicationLedger(session.plan, Repo) \subseteq Records
      BY <2>1, ExpectedType
    <3> QED
      BY <1>4, <2>1, <3>1, FilesUpdate, Zenon DEF PreparePublicationRecords, GitType
  <2>3. GitType' /\ HostType'
    BY <1>4, <2>2 DEF PreparePublicationRecords, GitType, HostType, hosts
  <2> QED
    BY <1>4, <2>3, ReviewSame, NextRepoMoves DEF PreparePublicationRecords, review, At
<1>5. CASE NothingToRecord
  BY <1>5, ReviewSame, LockPhaseMoves, Zenon DEF NothingToRecord, git, hosts, review, GitType, HostType, At
<1>6. CASE LockIndex
  BY <1>6, ReviewSame, GotoMoves DEF LockIndex, hosts, review, GitType, HostType, At, Phases
<1>7. CASE CommitPublicationLedgers
  <2> DEFINE c == [by |-> "ledgers", plan |-> session.plan, files |-> work]
  <2>1. c \in Commits /\ history' = Append(history, c)
    BY <1>7 DEF CommitPublicationLedgers, Commits, GitType, SessionType
  <2>2. GitType' /\ HostType'
    BY <1>7, <2>1, AppendCommit DEF CommitPublicationLedgers, GitType, HostType, hosts
  <2>3. ReviewType'
    BY <1>7, <2>1, AppendCommit, ReviewSame DEF CommitPublicationLedgers
  <2>4. SessionType'
    BY <1>7, LockPhaseMoves, SessionIdle, Zenon DEF CommitPublicationLedgers, review, At
  <2> QED
    BY <2>2, <2>3, <2>4
<1>8. CASE AcquireGitRevisionLock
  BY <1>8, ReviewSame, GotoMoves DEF AcquireGitRevisionLock, hosts, review, GitType, HostType, At, Phases
<1>9. CASE VerifyNoop
  BY <1>9, ReviewSame, NextRepoMoves DEF VerifyNoop, Publishing, git, hosts, review, GitType, HostType, At
<1>10. CASE VerifyCurrent
  BY <1>10, ReviewSame, NextRepoMoves DEF VerifyCurrent, Publishing, git, hosts, review, GitType, HostType, At
<1>11. CASE Publish
  <2>1. session.plan \in Plans /\ plans[session.plan] # None /\ Repo \in Repos
    BY <1>11, <1>i, <1>o DEF Publish, Publishing, At
  <2>2. GitType' /\ ReviewType' /\ HostType'
    BY <1>11, <2>1, ReviewSame, SwitchLiveType DEF Publish, git, GitType
  <2>3. /\ DOMAIN session' = Fields /\ session'.pc = "probe" /\ session'.at = session.at
        /\ session'.plan = session.plan /\ session'.ready = session.ready
        /\ session'.current = session.current /\ session'.prior = session.prior
    BY <1>11 DEF Publish, SessionType, Fields
  <2>4. SessionType'
    BY <1>11, <2>3, SessionMove DEF Publish, Publishing, SessionType, More, review, At, Phases
  <2> QED
    BY <2>2, <2>4
<1>12. CASE ProbePasses
  <2>1. /\ DOMAIN session' = Fields /\ session'.pc = "publish" /\ session'.at = session.at + 1
        /\ session'.plan = session.plan /\ session'.ready = session.ready
        /\ session'.current = session.current /\ session'.prior = session.prior
    BY <1>12 DEF ProbePasses, SessionType, Fields
  <2>2. session'.at \in 1..(Len(Order) + 1)
    BY <1>12, <2>1, OrderLength DEF ProbePasses, SessionType, More, At
  <2>3. SessionType'
    BY <1>12, <2>1, <2>2, SessionMove DEF ProbePasses, SessionType, review, At, Phases
  <2> QED
    BY <1>12, <2>3, ReviewSame DEF ProbePasses, git, hosts, GitType, HostType
<1>13. CASE ReleaseGit
  BY <1>13, ReviewSame, GotoMoves DEF ReleaseGit, hosts, review, GitType, HostType, At, Phases
<1>14. CASE WriteReceipt
  <2> DEFINE receipt == ReceiptOf(session.plan, Repo)
             write == Repo \in ThePlan.changes /\ work[Repo].receipt # receipt
  <2>1. /\ session.pc = "receipts" /\ More /\ Repo \in Repos
        /\ session.plan \in Plans /\ plans[session.plan] # None
    BY <1>14, <1>i, <1>o DEF WriteReceipt, At
  <2>2. receipt \in Receipts /\ work[Repo].receipt \in Receipts \union {None}
    BY <2>1, RevisionOfType DEF GitType, Files
  <2>3. work' \in [Repos -> Files]
    BY <1>14, <2>1, <2>2, FilesUpdate DEF WriteReceipt, GitType
  <2>4. /\ DOMAIN session' = Fields /\ session'.pc = "receipts" /\ session'.at = session.at + 1
        /\ session'.plan = session.plan /\ session'.ready = session.ready
        /\ session'.current = session.current
        /\ session'.prior = IF write THEN [r \in DOMAIN session.prior \union {Repo} |->
                                            IF r = Repo THEN work[Repo].receipt ELSE session.prior[r]]
                                     ELSE session.prior
    BY <1>14, <2>1 DEF WriteReceipt, SessionType, Fields
  <2>5. session'.at \in 1..(Len(Order) + 1)
    BY <2>1, <2>4, OrderLength DEF SessionType, More
  <2>6. /\ DOMAIN session'.prior \subseteq Repos
        /\ \A r \in DOMAIN session'.prior : session'.prior[r] \in Receipts \union {None}
    BY <2>1, <2>2, <2>4 DEF SessionType
  <2>7. SessionType'
    BY <1>14, <2>1, <2>4, <2>5, <2>6, SessionMove, ZenonT(60) DEF WriteReceipt, SessionType, review, Phases
  <2>8. GitType' /\ HostType'
    BY <1>14, <2>3 DEF WriteReceipt, GitType, HostType, hosts
  <2> QED
    BY <1>14, <2>7, <2>8, ReviewSame DEF WriteReceipt
<1>15. CASE NothingToCommit
  BY <1>15, ReviewSame, SessionIdle DEF NothingToCommit, Succeed, git, hosts, GitType, HostType
<1>16. CASE LockIndexAgain
  <2>1. /\ DOMAIN session' = Fields /\ session'.pc = "commit" /\ session'.at = session.at
        /\ session'.plan = session.plan /\ session'.ready = session.ready
        /\ session'.current = session.current /\ session'.prior = session.prior
    BY <1>16 DEF LockIndexAgain, SessionType, Fields
  <2>2. SessionType'
    BY <1>16, <2>1, SessionMove DEF LockIndexAgain, SessionType, review, At, Phases
  <2> QED
    BY <1>16, <2>2, ReviewSame DEF LockIndexAgain, hosts, GitType, HostType
<1>17. CASE CommitDeployments
  <2> DEFINE c == [by |-> "receipts", plan |-> session.plan, files |-> work]
  <2>1. c \in Commits /\ history' = Append(history, c)
    BY <1>17 DEF CommitDeployments, Commits, GitType, SessionType
  <2>2. GitType' /\ HostType'
    BY <1>17, <2>1, AppendCommit DEF CommitDeployments, GitType, HostType, hosts
  <2>3. ReviewType'
    BY <1>17, <2>1, AppendCommit, ReviewSame DEF CommitDeployments
  <2> QED
    BY <1>17, <2>2, <2>3, SessionIdle DEF CommitDeployments, Succeed
<1>18. CASE Refuse \/ StepFails
  BY <1>18, GiveUpType DEF Refuse, StepFails, hosts, HostType
<1>19. CASE VerifyCurrentFails \/ ProbeFails
  <2>1. Repo \in Repos
    BY <1>19, <1>o DEF VerifyCurrentFails, ProbeFails, Publishing, SessionType, At
  <2>2. HostType'
    BY <1>19, <2>1, RestoreType DEF VerifyCurrentFails, ProbeFails, restoreFailedPublication, hosts, HostType
  <2> QED
    BY <1>19, <2>2, GiveUpType DEF VerifyCurrentFails, ProbeFails
<1>20. CASE PublishUnanswered
  <2>1. session.plan \in Plans /\ plans[session.plan] # None /\ Repo \in Repos
    BY <1>20, <1>i, <1>o DEF PublishUnanswered, Publishing, At
  <2> QED
    BY <1>20, <2>1, GiveUpType, SwitchLiveType DEF PublishUnanswered
<1>21. CASE Crash
  BY <1>21, ReviewSame, SessionIdle DEF Crash, git, hosts, GitType, HostType
<1>22. ASSUME NEW p \in Plans, PlanWorkspace(p) PROVE TypeInv'
  <2>1. GitType' /\ HostType'
    BY <1>22 DEF PlanWorkspace, git, hosts, GitType, HostType
  <2>2. SessionType'
    BY <1>22, SessionIdle DEF PlanWorkspace
  <2>3. plans'[p] \in PlanFiles /\ history' = history
    <3>1. \A r \in Repos : work[r].lock \in Locks /\ work[r].receipt \in Receipts \union {None}
      BY DEF GitType, Files
    <3>2. live \in [Repos -> Revisions] /\ Revision \in DOMAIN history
      BY HeadType DEF HostType
    <3> QED
      BY <1>22, <3>1, <3>2 DEF PlanWorkspace, PlanFiles, ReviewType, git
  <2>4. ReviewType'
    BY <1>22, <2>3, Zenon DEF PlanWorkspace, ReviewType, PlanFiles
  <2> QED
    BY <2>1, <2>2, <2>4
<1>23. ASSUME NEW p \in Plans, openApply(p) PROVE TypeInv'
  <2>1. /\ DOMAIN session' = Fields /\ session'.pc = "prepare" /\ session'.at = 1
        /\ session'.plan = p /\ session'.ready = {} /\ session'.current = {}
        /\ session'.prior = Idle.prior
    BY <1>23 DEF openApply, Idle, Fields
  <2>2. plans[p] # None /\ plans' = plans
    BY <1>23 DEF openApply, review
  <2>3. SessionType'
    BY <2>1, <2>2, IdleType, OrderLength DEF SessionType, Phases
  <2> QED
    BY <1>23, <2>3, ReviewSame DEF openApply, git, hosts, GitType, HostType
<1>24. ASSUME NEW p \in Plans, NEW r \in Repos, ApprovePlan(p, r) \/ ApprovalLapses(p, r)
       PROVE TypeInv'
  <2>1. /\ UNCHANGED <<git, hosts, session, plans, expired>>
        /\ approved' \subseteq approved \union {<<p, r>>}
    BY <1>24 DEF ApprovePlan, ApprovalLapses
  <2>2. ReviewType'
    BY <2>1 DEF ReviewType, PlanFiles, git
  <2> QED
    BY <2>1, <2>2, SessionSame DEF git, hosts, GitType, HostType
<1>25. ASSUME NEW p \in Plans, PlanExpires(p) PROVE TypeInv'
  <2>1. ReviewType'
    BY <1>25 DEF PlanExpires, ReviewType, PlanFiles, git
  <2> QED
    BY <1>25, <2>1, SessionSame DEF PlanExpires, git, hosts, GitType, HostType
<1>26. ASSUME NEW r \in Repos, Drift(r) \/ RollbackRepository(r) PROVE TypeInv'
  <2>1. HostType'
    BY <1>26, RestoreType DEF Drift, RollbackRepository, HostType, Revisions
  <2> QED
    BY <1>26, <2>1, SessionSame, ReviewSame DEF Drift, RollbackRepository, git, GitType, review
<1>27. CASE GitReset \/ RemoveGitLocks
  BY <1>27, HeadType, SessionSame, ReviewSame
     DEF GitReset, RemoveGitLocks, GitType, hosts, HostType, review
<1>28. ASSUME NEW r \in Repos, RevertLedger(r) \/ \E l \in Locks : EditLock(r, l) PROVE TypeInv'
  <2>1. work' \in [Repos -> Files]
    <3>1. {} \in SUBSET Records
      OBVIOUS
    <3>2. CASE RevertLedger(r)
      BY <3>1, <3>2, FilesUpdate, ZenonT(60) DEF RevertLedger, GitType
    <3>3. CASE \E l \in Locks : EditLock(r, l)
      BY <3>3, FilesUpdate DEF EditLock, GitType
    <3> QED
      BY <1>28, <3>2, <3>3
  <2> QED
    BY <1>28, <2>1, SessionSame, ReviewSame DEF RevertLedger, EditLock, GitType, hosts, HostType, review
<1>29. CASE GitCommit
  <2> DEFINE c == [by |-> "edit", plan |-> None, files |-> work]
  <2>1. c \in Commits /\ history' = Append(history, c)
    BY <1>29 DEF GitCommit, Commits, GitType
  <2>2. GitType' /\ HostType'
    BY <1>29, <2>1, AppendCommit DEF GitCommit, GitType, HostType, hosts
  <2>3. ReviewType'
    BY <1>29, <2>1, AppendCommit, ReviewSame DEF GitCommit
  <2> QED
    BY <1>29, <2>2, <2>3, SessionSame DEF GitCommit, review
<1>30. CASE UNCHANGED vars
  BY <1>30, ReviewSame, SessionSame DEF vars, git, hosts, GitType, HostType, review
<1> QED
  BY <1>1, <1>2, <1>3, <1>4, <1>5, <1>6, <1>7, <1>8, <1>9, <1>10, <1>11, <1>12, <1>13, <1>14, <1>15, Zenon,
     <1>16, <1>17, <1>18, <1>19, <1>20, <1>21, <1>22, <1>23, <1>24, <1>25, <1>26, <1>27, <1>28, <1>29, <1>30
     DEF Next, ApplyStep, Fault, Command, Outside, Recover, Edit

(* TypeOK holds always, whatever the repositories, plans and locks: every  *)
(* file, plan, revision and phase of plan, apply and rollback is one the   *)
(* code can produce.                                                       *)
THEOREM TypeCorrect == Spec => []TypeOK
<1>1. Spec => []TypeInv
  BY InitType, NextType, PTL DEF Spec
<1> QED
  BY <1>1, TypeInvType, PTL

----------------------------------------------------------------------------

(* What a revision replaced is what the plan it names had reviewed.        *)
ReplacedReviewed ==
  \A r \in Repos : \A q \in DOMAIN replaced[r] :
    /\ r \in Managed /\ q.plan \in Plans /\ plans[q.plan] # None
    /\ replaced[r][q] = plans[q.plan].observed[r]

(* The bindings that tree t of repository r makes visible are in a ledger  *)
(* of the history h.                                                       *)
Committed(h, r, b) == \E n \in DOMAIN h : b \in Recorded(h[n].files[r].ledger)
Covered(h, r, t) == \A b \in VisibleOf[t] : Committed(h, r, b)

LiveCovered ==
  \A r \in Repos :
    /\ live[r] \in Published => Covered(history, r, live[r].tree)
    /\ \A q \in DOMAIN replaced[r] :
         replaced[r][q] \in Published => Covered(history, r, replaced[r][q].tree)

(* While an apply runs, the working ledger of a repository it does not     *)
(* record holds nothing that is not committed; once such a repository is   *)
(* prepared it is covered, and so is every one when the hosts are reached. *)
LedgersCommitted ==
  \A r \in Repos \ ThePlan.records : \A b \in Recorded(work[r].ledger) : Committed(history, r, b)
ReadyCovered ==
  /\ \A r \in session.ready \ ThePlan.records : Covered(history, r, ThePlan.desired[r])
  /\ session.pc # "prepare" => session.ready = Repos
PublishCovered ==
  session.pc \in {"lock", "publish", "probe"} => \A r \in Repos : Covered(history, r, ThePlan.desired[r])
SessionCovered == session.pc # "idle" => LedgersCommitted /\ ReadyCovered /\ PublishCovered

CoverInv == LiveCovered /\ SessionCovered

----------------------------------------------------------------------------
(* What one step can do to the hosts, to the plans and to the history.     *)

PublishMove ==
  /\ Publishing /\ PublishAllowed(session.plan, Repo) /\ SwitchLive(session.plan, Repo)
  /\ UNCHANGED plans
RestoreMove ==
  /\ session.pc # "idle" /\ More /\ Restore(Repo, RevisionOf(session.plan, Repo))
  /\ UNCHANGED plans
RollbackMove == session = Idle /\ (\E r \in Repos : Restore(r, live[r])) /\ UNCHANGED plans
DriftMove == (\E r \in Repos : live' = [live EXCEPT ![r] = Foreign]) /\ UNCHANGED <<replaced, plans>>

(* A step that changes a host is a publication or a restore by the running *)
(* apply, a rollback with no apply running, or drift.                      *)
LEMMA HostMoves ==
  ASSUME TypeInv, [Next]_vars
  PROVE  PublishMove \/ RestoreMove \/ RollbackMove \/ DriftMove \/ UNCHANGED <<live, replaced>>
<1>1. CASE ApplyStep
  <2>1. Publish => PublishMove
    BY DEF Publish, PublishMove, review
  <2> QED
    BY <1>1, <2>1, Zenon DEF ApplyStep, hosts, prepareRepository, stageOnHosts, ResumeLedgers,
       PreparePublicationRecords, NothingToRecord, LockIndex, CommitPublicationLedgers,
       AcquireGitRevisionLock, VerifyNoop, VerifyCurrent, ProbePasses, ReleaseGit, WriteReceipt,
       NothingToCommit, LockIndexAgain, CommitDeployments, Refuse
<1>2. CASE Fault
  <2>1. PublishUnanswered => PublishMove
    BY DEF PublishUnanswered, PublishMove, GiveUp, review
  <2>2. VerifyCurrentFails \/ ProbeFails => RestoreMove \/ UNCHANGED <<live, replaced>>
    BY DEF VerifyCurrentFails, ProbeFails, Publishing, At, TypeInv, SessionType,
       restoreFailedPublication, RestoreMove, GiveUp, review, hosts
  <2> QED
    BY <1>2, <2>1, <2>2 DEF Fault, StepFails, Crash, hosts
<1>3. CASE Command
  BY <1>3 DEF Command, PlanWorkspace, openApply, ApprovePlan, hosts
<1>4. CASE Outside
  BY <1>4, Zenon DEF Outside, PlanExpires, ApprovalLapses, Drift, RollbackRepository, hosts, review,
     RollbackMove, DriftMove
<1>5. CASE Recover \/ Edit
  BY <1>5 DEF Recover, Edit, GitReset, RemoveGitLocks, RevertLedger, EditLock, GitCommit, hosts
<1>6. CASE UNCHANGED vars
  BY <1>6 DEF vars, hosts
<1> QED
  BY <1>1, <1>2, <1>3, <1>4, <1>5, <1>6 DEF Next

(* A reviewed plan never changes.                                          *)
LEMMA PlansStay ==
  ASSUME TypeInv, [Next]_vars
  PROVE  \A p \in Plans : plans[p] # None => plans'[p] = plans[p]
<1>1. CASE ApplyStep
  BY <1>1, Zenon DEF ApplyStep, review, prepareRepository, stageOnHosts, ResumeLedgers,
       PreparePublicationRecords, NothingToRecord, LockIndex, CommitPublicationLedgers,
       AcquireGitRevisionLock, VerifyNoop, VerifyCurrent, Publish, ProbePasses, ReleaseGit, WriteReceipt,
       NothingToCommit, LockIndexAgain, CommitDeployments, Refuse, GiveUp
<1>2. CASE Fault
  BY <1>2 DEF Fault, VerifyCurrentFails, PublishUnanswered, ProbeFails, StepFails, Crash, GiveUp, review
<1>3. CASE Command
  BY <1>3 DEF Command, PlanWorkspace, openApply, ApprovePlan, review, TypeInv, ReviewType
<1>4. CASE Outside
  BY <1>4, ZenonT(60) DEF Outside, PlanExpires, ApprovalLapses, Drift, RollbackRepository, review
<1>5. CASE Recover \/ Edit
  BY <1>5 DEF Recover, Edit, GitReset, RemoveGitLocks, RevertLedger, EditLock, GitCommit, review
<1>6. CASE UNCHANGED vars
  BY <1>6 DEF vars, review
<1> QED
  BY <1>1, <1>2, <1>3, <1>4, <1>5, <1>6 DEF Next

(* Commits are added to the history and never removed.                     *)
LEMMA HistoryGrows ==
  ASSUME TypeInv, [Next]_vars
  PROVE  /\ DOMAIN history \subseteq DOMAIN history'
         /\ \A n \in DOMAIN history : history'[n] = history[n]
<1>1. ASSUME NEW c, history' = Append(history, c)
      PROVE  /\ DOMAIN history \subseteq DOMAIN history'
             /\ \A n \in DOMAIN history : history'[n] = history[n]
  BY <1>1 DEF TypeInv, GitType
<1>2. CASE ApplyStep
  <2>1. history' = history \/ \E c : history' = Append(history, c)
    BY <1>2, Zenon DEF ApplyStep, git, prepareRepository, stageOnHosts, ResumeLedgers,
       PreparePublicationRecords, NothingToRecord, LockIndex, CommitPublicationLedgers,
       AcquireGitRevisionLock, VerifyNoop, VerifyCurrent, Publish, ProbePasses, ReleaseGit, WriteReceipt,
       NothingToCommit, LockIndexAgain, CommitDeployments, Refuse, GiveUp
  <2> QED
    BY <1>1, <2>1
<1>3. CASE Fault
  BY <1>3 DEF Fault, VerifyCurrentFails, PublishUnanswered, ProbeFails, StepFails, Crash, GiveUp, git
<1>4. CASE Command
  BY <1>4 DEF Command, PlanWorkspace, openApply, ApprovePlan, git
<1>5. CASE Outside
  BY <1>5, ZenonT(60) DEF Outside, PlanExpires, ApprovalLapses, Drift, RollbackRepository, git
<1>6. CASE Recover \/ Edit
  BY <1>1, <1>6 DEF Recover, Edit, GitReset, RemoveGitLocks, RevertLedger, EditLock, GitCommit
<1>7. CASE UNCHANGED vars
  BY <1>7 DEF vars, git
<1> QED
  BY <1>2, <1>3, <1>4, <1>5, <1>6, <1>7 DEF Next

----------------------------------------------------------------------------
(* A host moves only between the reviewed revision and the plan's own. *)

(* No revision has replaced another at first.                              *)
LEMMA InitReviewed == Init => ReplacedReviewed
BY DEF Init, ReplacedReviewed

(* A publication replaces what its plan reviewed, by the compare and swap  *)
(* of Host.Commit, and no other step changes what a revision replaced.     *)
LEMMA NextReviewed ==
  ASSUME TypeInv, ReplacedReviewed, [Next]_vars
  PROVE  ReplacedReviewed'
<1>1. CASE UNCHANGED replaced
  BY <1>1, PlansStay DEF ReplacedReviewed, TypeInv, HostType
<1>2. CASE PublishMove
  <2> DEFINE p == session.plan
             rev == RevisionOf(p, Repo)
  <2>1. p \in Plans /\ plans[p] # None /\ plans' = plans /\ Repo \in Repos
    BY <1>2, OrderLength DEF PublishMove, Publishing, At, TypeInv, SessionType, More, Repo
  <2>2. live[Repo] = plans[p].observed[Repo] /\ SwitchLive(p, Repo)
    BY <1>2 DEF PublishMove, PublishAllowed
  <2>3. Repo \in Managed => rev.plan = p
    BY DEF RevisionOf
  <2>4. CASE Repo \notin Managed
    BY <1>1, <2>2, <2>4 DEF SwitchLive
  <2>5. CASE Repo \in Managed
    <3> HIDE DEF rev
    <3>1. replaced' = [replaced EXCEPT ![Repo] = [q \in DOMAIN replaced[Repo] \union {rev} |->
                         IF q = rev THEN live[Repo] ELSE replaced[Repo][q]]]
      BY <2>2, <2>5 DEF SwitchLive, rev
    <3> QED
      BY <2>1, <2>2, <2>3, <2>5, <3>1 DEF ReplacedReviewed, TypeInv, HostType
  <2> QED
    BY <2>4, <2>5
<1> QED
  BY <1>1, <1>2, HostMoves DEF RestoreMove, RollbackMove, DriftMove, Restore

(* OnlyReviewedMoves: an apply, its publications and its compensations     *)
(* included, moves a host only between the revision its plan reviewed and  *)
(* the plan's own.                                                         *)
THEOREM AppliesOnlyReviewed == Spec => OnlyReviewedMoves
<1> DEFINE Reviewed == \A r \in Repos : live'[r] \notin {live[r], Foreign} /\ session # Idle =>
                         {live[r], live'[r]} = {ThePlan.observed[r], RevisionOf(session.plan, r)}
<1>1. TypeInv /\ ReplacedReviewed /\ [Next]_vars => Reviewed
  <2> SUFFICES ASSUME TypeInv, ReplacedReviewed, [Next]_vars, NEW r \in Repos,
                      live'[r] \notin {live[r], Foreign}, session # Idle
               PROVE  {live[r], live'[r]} = {ThePlan.observed[r], RevisionOf(session.plan, r)}
    OBVIOUS
  <2>1. live \in [Repos -> Revisions] /\ session.plan \in Plans
    BY DEF TypeInv, HostType, SessionType
  <2>2. CASE PublishMove
    <3>1. r = Repo /\ live'[r] = RevisionOf(session.plan, Repo)
      BY <2>1, <2>2 DEF PublishMove, SwitchLive
    <3> QED
      BY <2>2, <3>1 DEF PublishMove, PublishAllowed, ThePlan
  <2>3. CASE RestoreMove
    <3> DEFINE rev == RevisionOf(session.plan, r)
    <3>1. r = Repo /\ live[r] = rev /\ rev \in DOMAIN replaced[r] /\ live'[r] = replaced[r][rev]
      BY <2>1, <2>3 DEF RestoreMove, Restore
    <3>2. r \in Managed /\ live'[r] = plans[rev.plan].observed[r]
      BY <3>1, Zenon DEF ReplacedReviewed
    <3>3. rev.plan = session.plan
      BY <3>2 DEF RevisionOf
    <3> QED
      BY <3>1, <3>2, <3>3 DEF ThePlan
  <2>4. ~RollbackMove /\ ~DriftMove /\ ~UNCHANGED <<live, replaced>>
    BY <2>1 DEF RollbackMove, DriftMove
  <2> QED
    BY <2>2, <2>3, <2>4, HostMoves, ZenonT(60)
<1>2. Spec => []TypeInv
  BY InitType, NextType, PTL DEF Spec
<1>3. TypeInv /\ ReplacedReviewed /\ [Next]_vars => ReplacedReviewed'
  BY NextReviewed
<1>4. Spec => []ReplacedReviewed
  BY <1>2, <1>3, InitReviewed, PTL DEF Spec
<1>5. Spec => [][Reviewed]_vars
  <2>1. TypeInv /\ ReplacedReviewed /\ [Next]_vars => [Reviewed]_vars
    BY <1>1
  <2> QED
    BY <1>2, <1>4, <2>1, PTL DEF Spec
<1> QED
  BY <1>5 DEF OnlyReviewedMoves

----------------------------------------------------------------------------
(* What a host serves is committed to a ledger before. *)

(* What is committed stays committed.                                      *)
LEMMA CommittedGrows ==
  ASSUME TypeInv, [Next]_vars, NEW r \in Repos
  PROVE  /\ \A b : Committed(history, r, b) => Committed(history', r, b)
         /\ \A t : Covered(history, r, t) => Covered(history', r, t)
BY HistoryGrows DEF Committed, Covered

(* The records of a commit's ledger are committed.                         *)
LEMMA RecordsCommitted ==
  ASSUME NEW h, NEW n \in DOMAIN h, NEW r
  PROVE  \A b \in Recorded(h[n].files[r].ledger) : Committed(h, r, b)
BY DEF Committed

(* A commit of the ledger that a plan expects covers the plan's tree.      *)
LEMMA RecordsCover ==
  ASSUME NEW h, NEW n \in DOMAIN h, NEW r \in Repos, NEW p \in Plans,
         h[n].files[r].ledger = expectedPublicationLedger(p, r)
  PROVE  Covered(h, r, plans[p].desired[r])
<1> SUFFICES ASSUME NEW b \in VisibleOf[plans[p].desired[r]]
             PROVE  b \in Recorded(expectedPublicationLedger(p, r))
  BY DEF Covered, Committed
<1> DEFINE rec == [plan |-> p, binding |-> b]
<1>1. rec \in expectedPublicationLedger(p, r) /\ rec.binding = b
  BY DEF expectedPublicationLedger
<1> QED
  BY <1>1 DEF Recorded

(* At first nothing is live and no session runs.                           *)
LEMMA InitCovered == Init => CoverInv
<1> SUFFICES ASSUME Init PROVE CoverInv
  OBVIOUS
<1>1. LiveCovered
  BY Zenon DEF Init, LiveCovered
<1>2. SessionCovered
  BY IdleType DEF Init, SessionCovered
<1> QED
  BY <1>1, <1>2 DEF CoverInv

(* Every step keeps what is live, or could be restored, covered.           *)
LEMMA NextLiveCovered ==
  ASSUME TypeInv, CoverInv, [Next]_vars
  PROVE  LiveCovered'
<1> USE DEF CoverInv
<1>1. CASE UNCHANGED <<live, replaced>>
  <2>1. \A r \in Repos : \A t : Covered(history, r, t) => Covered(history', r, t)
    BY CommittedGrows, Zenon
  <2> QED
    BY <1>1, <2>1, Zenon DEF LiveCovered, Published, Covered, Committed
<1>2. CASE DriftMove
  <2>1. PICK d \in Repos : live' = [live EXCEPT ![d] = Foreign]
    BY <1>2, ZenonT(60) DEF DriftMove
  <2> QED
    BY <1>2, <2>1, CommittedGrows DEF DriftMove, LiveCovered, TypeInv, HostType
<1>3. ASSUME NEW d \in Repos, NEW from, Restore(d, from) PROVE LiveCovered'
  BY <1>3, CommittedGrows DEF Restore, LiveCovered, TypeInv, HostType
<1>4. CASE PublishMove
  <2> DEFINE p == session.plan
             rev == RevisionOf(p, Repo)
  <2>1. Repo \in Repos
    BY <1>4, OrderLength DEF PublishMove, Publishing, TypeInv, SessionType, More, Repo
  <2>2. SwitchLive(p, Repo)
    BY <1>4 DEF PublishMove
  <2>3. rev.tree = ThePlan.desired[Repo]
    BY DEF RevisionOf, ThePlan
  <2>4. Covered(history, Repo, rev.tree)
    BY <1>4, <2>1, <2>3 DEF PublishMove, Publishing, At, SessionCovered, PublishCovered
  <2> HIDE DEF rev
  <2>5. live' = [live EXCEPT ![Repo] = rev]
    BY <2>2 DEF SwitchLive, rev
  <2>6. \/ replaced' = replaced
        \/ replaced' = [replaced EXCEPT ![Repo] = [q \in DOMAIN replaced[Repo] \union {rev} |->
                         IF q = rev THEN live[Repo] ELSE replaced[Repo][q]]]
    BY <2>2 DEF SwitchLive, rev
  <2> QED
    BY <2>1, <2>4, <2>5, <2>6, CommittedGrows DEF LiveCovered, TypeInv, HostType
<1> QED
  BY <1>1, <1>2, <1>3, <1>4, HostMoves, OrderLength
     DEF RestoreMove, RollbackMove, TypeInv, SessionType, More, Repo

(* A running session stays covered when its phase does not reach the hosts *)
(* and the ledgers it does not record only shrink.                         *)
LEMMA CoveredKeeps ==
  ASSUME TypeInv, SessionCovered, [Next]_vars, session.pc # "idle", UNCHANGED plans,
         session'.plan = session.plan, session'.ready = session.ready,
         session'.pc = "prepare" => session.pc = "prepare",
         session.pc = "prepare" => session'.pc = "prepare",
         session'.pc \in {"lock", "publish", "probe"} => session.pc \in {"lock", "publish", "probe"},
         \A r \in Repos \ ThePlan.records : Recorded(work'[r].ledger) \subseteq Recorded(work[r].ledger)
  PROVE  SessionCovered'
<1>1. ThePlan' = ThePlan
  BY DEF ThePlan
<1>2. LedgersCommitted'
  BY <1>1, CommittedGrows, Zenon DEF SessionCovered, LedgersCommitted
<1>3. ReadyCovered'
  BY <1>1, CommittedGrows, Zenon DEF SessionCovered, ReadyCovered, TypeInv, SessionType
<1>4. PublishCovered'
  BY <1>1, CommittedGrows, Zenon DEF SessionCovered, PublishCovered
<1> QED
  BY <1>2, <1>3, <1>4 DEF SessionCovered

(* A session whose recorded ledgers are committed is covered when it       *)
(* reaches the hosts: the others were covered when they were prepared.     *)
LEMMA CoveredAtLock ==
  ASSUME TypeInv, SessionCovered, [Next]_vars, session.pc # "idle", UNCHANGED <<plans, work>>,
         session'.plan = session.plan, session'.ready = session.ready,
         session.pc # "prepare", session'.pc = "lock",
         \A r \in ThePlan.records : Covered(history', r, ThePlan.desired[r])
  PROVE  SessionCovered'
<1>1. ThePlan' = ThePlan
  BY DEF ThePlan
<1>2. LedgersCommitted'
  BY <1>1, CommittedGrows, Zenon DEF SessionCovered, LedgersCommitted
<1>3. ReadyCovered'
  BY <1>1, CommittedGrows, Zenon DEF SessionCovered, ReadyCovered, TypeInv, SessionType
<1>4. PublishCovered'
  <2>1. \A r \in Repos \ ThePlan.records : Covered(history', r, ThePlan.desired[r])
    BY CommittedGrows DEF SessionCovered, ReadyCovered
  <2> QED
    BY <1>1, <2>1 DEF PublishCovered
<1> QED
  BY <1>2, <1>3, <1>4 DEF SessionCovered

(* What the moves of a session leave alone.                                *)
LEMMA SessionFields ==
  ASSUME TypeInv
  PROVE  /\ \A x : Goto(x) => /\ session'.pc = x /\ session'.plan = session.plan
                              /\ session'.ready = session.ready
         /\ NextRepo => /\ session'.pc = session.pc /\ session'.plan = session.plan
                        /\ session'.ready = session.ready
         /\ \A n : session' = [session EXCEPT !.pc = "lock", !.rev = n] =>
              /\ session'.pc = "lock" /\ session'.plan = session.plan /\ session'.ready = session.ready
<1>1. DOMAIN session = Fields
  BY DEF TypeInv, SessionType
<1>2. ASSUME NEW x, Goto(x)
      PROVE  session'.pc = x /\ session'.plan = session.plan /\ session'.ready = session.ready
  BY <1>1, <1>2 DEF Goto, Fields
<1>3. ASSUME NextRepo
      PROVE  session'.pc = session.pc /\ session'.plan = session.plan /\ session'.ready = session.ready
  BY <1>1, <1>3 DEF NextRepo, Fields
<1>4. ASSUME NEW n, session' = [session EXCEPT !.pc = "lock", !.rev = n]
      PROVE  session'.pc = "lock" /\ session'.plan = session.plan /\ session'.ready = session.ready
  BY <1>1, <1>4 DEF Fields
<1> QED
  BY <1>2, <1>3, <1>4, Zenon

(* The commit before a receipt commit exists, because the history starts   *)
(* with an edit.                                                           *)
LEMMA LedgerRevisionType == ASSUME TypeInv, NEW p \in Plans PROVE LedgerRevision(p) \in DOMAIN history
<1>1. Revision \in Nat /\ Revision >= 1 /\ DOMAIN history = 1..Revision
  BY DEF TypeInv, GitType, Revision
<1>2. history[Revision].by = "receipts" => Revision # 1
  BY DEF TypeInv, GitType
<1> QED
  BY <1>1, <1>2 DEF LedgerRevision

(* Every step keeps the session covered: one case per action.              *)
LEMMA NextSessionCovered ==
  ASSUME TypeInv, CoverInv, [Next]_vars
  PROVE  SessionCovered'
<1> USE DEF CoverInv
<1>i. session' = Idle => SessionCovered'
  BY IdleType DEF SessionCovered
<1>s. session.pc = "idle" /\ session' = session => SessionCovered'
  BY DEF SessionCovered
<1>1. ASSUME NEW r \in Repos, prepareRepository(r) PROVE SessionCovered'
  <2>1. /\ session.pc = "prepare" /\ session'.pc \in {"prepare", "stage"} /\ session'.plan = session.plan
        /\ session'.ready = session.ready \union {r}
        /\ session'.pc = "stage" => session'.ready = Repos
    BY <1>1 DEF prepareRepository, At, TypeInv, SessionType, Fields
  <2>2. ThePlan' = ThePlan /\ history' = history /\ work' = work
    BY <1>1, <2>1 DEF prepareRepository, ThePlan, review, git
  <2>3. LedgersCommitted /\ ReadyCovered
    BY <2>1 DEF SessionCovered
  <2>4. r \notin ThePlan.records => Covered(history, r, ThePlan.desired[r])
    <3>1. Fresh(session.plan, r, session.committed)
      BY <1>1 DEF prepareRepository
    <3>2. r \notin ThePlan.records => VisibleOf[ThePlan.desired[r]] \subseteq Recorded(work[r].ledger)
      BY <3>1, Zenon DEF Fresh, missingPublicationBindings, ThePlan
    <3> QED
      BY <2>3, <3>2 DEF LedgersCommitted, Covered
  <2>5. LedgersCommitted' /\ ReadyCovered' /\ PublishCovered'
    BY <2>1, <2>2, <2>3, <2>4 DEF LedgersCommitted, ReadyCovered, PublishCovered
  <2> QED
    BY <2>5 DEF SessionCovered
<1>2. CASE stageOnHosts
  <2>1. session.pc = "stage" /\ session'.pc = "record" /\ UNCHANGED <<plans, work>>
    BY <1>2, SessionFields, Zenon DEF stageOnHosts, At, review, git
  <2> QED
    BY <1>2, <2>1, SessionFields, CoveredKeeps, Zenon DEF stageOnHosts
<1>3. CASE ResumeLedgers
  <2>1. /\ session.pc = "record" /\ session'.pc = "lock" /\ UNCHANGED <<plans, work, history>>
        /\ session'.plan = session.plan /\ session'.ready = session.ready
    BY <1>3, SessionFields DEF ResumeLedgers, At, review, git
  <2>2. session.plan \in Plans /\ ThePlan \in PlanFiles
    BY <2>1 DEF TypeInv, SessionType, ReviewType, ThePlan
  <2>3. \A r \in ThePlan.records : Covered(history', r, ThePlan.desired[r])
    <3> SUFFICES ASSUME NEW r \in ThePlan.records PROVE Covered(history, r, ThePlan.desired[r])
      BY <2>1
    <3> DEFINE n == LedgerRevision(session.plan)
    <3>1. r \in Repos /\ n \in DOMAIN history
      BY <2>2, LedgerRevisionType DEF PlanFiles
    <3>2. history[n].files[r].ledger = expectedPublicationLedger(session.plan, r)
      BY <1>3 DEF ResumeLedgers, LedgersValid, ThePlan
    <3> QED
      BY <2>2, <3>1, <3>2, RecordsCover DEF ThePlan
  <2> QED
    BY <2>1, <2>3, CoveredAtLock
<1>4. CASE PreparePublicationRecords
  <2>1. /\ session.pc = "record" /\ session'.pc = "record" /\ UNCHANGED <<plans>>
        /\ session'.plan = session.plan /\ session'.ready = session.ready
    BY <1>4, SessionFields, Zenon DEF PreparePublicationRecords, At, review
  <2>2. \A r \in Repos \ ThePlan.records : work'[r] = work[r]
    BY <1>4 DEF PreparePublicationRecords, TypeInv, GitType
  <2> QED
    BY <2>1, <2>2, CoveredKeeps
<1>5. CASE NothingToRecord
  <2>1. /\ session.pc = "record" /\ session'.pc = "lock" /\ UNCHANGED <<plans, work>>
        /\ session'.plan = session.plan /\ session'.ready = session.ready /\ ThePlan.records = {}
    BY <1>5, SessionFields DEF NothingToRecord, At, review, git
  <2> QED
    BY <2>1, CoveredAtLock
<1>6. CASE LockIndex
  <2>1. session.pc = "record" /\ session'.pc = "ledgers" /\ UNCHANGED <<plans, work>>
    BY <1>6, SessionFields, Zenon DEF LockIndex, At, review
  <2> QED
    BY <1>6, <2>1, SessionFields, CoveredKeeps, Zenon DEF LockIndex
<1>7. CASE CommitPublicationLedgers
  <2> DEFINE p == session.plan
             c == [by |-> "ledgers", plan |-> p, files |-> work]
  <2>1. CASE session' = Idle
    BY <2>1, <1>i
  <2>2. CASE session' # Idle
    <3>1. /\ session.pc = "ledgers" /\ session'.pc = "lock" /\ UNCHANGED <<plans, work>>
          /\ session'.plan = session.plan /\ session'.ready = session.ready
          /\ \A r \in ThePlan.records : work[r].ledger = expectedPublicationLedger(p, r)
      BY <1>7, <2>2, SessionFields, Zenon DEF CommitPublicationLedgers, At, review
    <3>2. p \in Plans /\ ThePlan \in PlanFiles
      BY <3>1 DEF TypeInv, SessionType, ReviewType, ThePlan
    <3>3. c \in Commits /\ history' = Append(history, c)
      BY <1>7 DEF CommitPublicationLedgers, Commits, TypeInv, GitType, SessionType
    <3>4. (Revision + 1) \in DOMAIN history' /\ history'[Revision + 1].files = work
      BY <3>3, AppendCommit DEF TypeInv
    <3>5. \A r \in ThePlan.records : Covered(history', r, ThePlan.desired[r])
      <4> SUFFICES ASSUME NEW r \in ThePlan.records PROVE Covered(history', r, ThePlan.desired[r])
        OBVIOUS
      <4>1. r \in Repos /\ history'[Revision + 1].files[r].ledger = expectedPublicationLedger(p, r)
        BY <3>1, <3>2, <3>4 DEF PlanFiles
      <4>2. \A h : \A n \in DOMAIN h : h[n].files[r].ledger = expectedPublicationLedger(p, r)
                     => Covered(h, r, plans[p].desired[r])
        BY <3>2, <4>1, RecordsCover
      <4> QED
        BY <3>4, <4>1, <4>2 DEF ThePlan
    <3> QED
      BY <3>1, <3>5, CoveredAtLock
  <2> QED
    BY <2>1, <2>2
<1>8. CASE AcquireGitRevisionLock
  <2>1. session.pc = "lock" /\ session'.pc = "publish" /\ UNCHANGED <<plans, work>>
    BY <1>8, SessionFields, Zenon DEF AcquireGitRevisionLock, At, review
  <2> QED
    BY <1>8, <2>1, SessionFields, CoveredKeeps, Zenon DEF AcquireGitRevisionLock
<1>9. CASE VerifyNoop \/ VerifyCurrent
  <2>1. /\ session.pc = "publish" /\ session'.pc = "publish" /\ UNCHANGED <<plans, work>>
        /\ session'.plan = session.plan /\ session'.ready = session.ready
    BY <1>9, SessionFields, Zenon DEF VerifyNoop, VerifyCurrent, Publishing, At, review, git
  <2> QED
    BY <2>1, CoveredKeeps
<1>10. CASE Publish \/ ProbePasses
  <2>1. /\ session.pc \in {"publish", "probe"} /\ session'.pc \in {"publish", "probe"}
        /\ UNCHANGED <<plans, work>>
        /\ session'.plan = session.plan /\ session'.ready = session.ready
    <3>1. CASE Publish
      BY <3>1 DEF Publish, Publishing, At, review, git, TypeInv, SessionType, Fields
    <3>2. CASE ProbePasses
      BY <3>2 DEF ProbePasses, At, review, git, TypeInv, SessionType, Fields
    <3> QED
      BY <1>10, <3>1, <3>2
  <2> QED
    BY <2>1, CoveredKeeps
<1>11. CASE ReleaseGit
  <2>1. session.pc = "publish" /\ session'.pc = "receipts" /\ UNCHANGED <<plans, work>>
    BY <1>11, SessionFields, Zenon DEF ReleaseGit, At, review
  <2> QED
    BY <1>11, <2>1, SessionFields, CoveredKeeps, Zenon DEF ReleaseGit
<1>12. CASE WriteReceipt
  <2>1. /\ session.pc = "receipts" /\ session'.pc = "receipts" /\ UNCHANGED <<plans>>
        /\ session'.plan = session.plan /\ session'.ready = session.ready
    BY <1>12 DEF WriteReceipt, At, review, TypeInv, SessionType, Fields
  <2>2. \A r \in Repos : work'[r].ledger = work[r].ledger
    BY <1>12 DEF WriteReceipt, TypeInv, GitType, Files
  <2> QED
    BY <2>1, <2>2, CoveredKeeps
<1>13. CASE LockIndexAgain
  <2>1. /\ session.pc = "receipts" /\ session'.pc = "commit" /\ UNCHANGED <<plans, work>>
        /\ session'.plan = session.plan /\ session'.ready = session.ready
    BY <1>13 DEF LockIndexAgain, At, review, TypeInv, SessionType, Fields
  <2> QED
    BY <2>1, CoveredKeeps
<1>14. CASE NothingToCommit \/ CommitDeployments \/ Refuse \/ Fault
  BY <1>14, <1>i DEF NothingToCommit, CommitDeployments, Succeed, Refuse, GiveUp, Fault,
     VerifyCurrentFails, PublishUnanswered, ProbeFails, StepFails, Crash
<1>15. ASSUME NEW p \in Plans, openApply(p) PROVE SessionCovered'
  <2>1. /\ session'.pc = "prepare" /\ session'.plan = p /\ session'.ready = {}
        /\ UNCHANGED <<plans, work, history>>
    BY <1>15 DEF openApply, Idle, review, git
  <2>2. ThePlan' = plans[p]
    BY <2>1 DEF ThePlan
  <2>3. \A r \in Repos \ plans[p].records : work[r].ledger = history[Revision].files[r].ledger
    <3>1. HEAD \in [Repos -> Files] /\ work \in [Repos -> Files]
      BY HeadType DEF TypeInv, GitType
    <3>2. \A r \in Repos \ plans[p].records : work[r].ledger = HEAD[r].ledger
      BY <1>15, <3>1 DEF openApply, ValidatePlanGit, Files
    <3> QED
      BY <3>2 DEF HEAD
  <2>4. Revision \in DOMAIN history
    BY HeadType DEF TypeInv
  <2>5. LedgersCommitted'
    BY <2>1, <2>2, <2>3, <2>4, RecordsCommitted DEF LedgersCommitted
  <2>6. ReadyCovered' /\ PublishCovered'
    BY <2>1 DEF ReadyCovered, PublishCovered
  <2> QED
    BY <2>5, <2>6 DEF SessionCovered
<1>16. ASSUME NEW p \in Plans, PlanWorkspace(p) PROVE SessionCovered'
  BY <1>16, <1>s, IdleType, Zenon DEF PlanWorkspace
<1>17. ASSUME UNCHANGED <<session, plans>>,
              \A r \in Repos : Recorded(work'[r].ledger) \subseteq Recorded(work[r].ledger)
       PROVE  SessionCovered'
  BY <1>17, <1>s, CoveredKeeps
<1>18. ASSUME NEW p \in Plans, NEW r \in Repos, ApprovePlan(p, r) \/ ApprovalLapses(p, r)
       PROVE SessionCovered'
  BY <1>18, <1>17 DEF ApprovePlan, ApprovalLapses, git
<1>19. ASSUME NEW p \in Plans, PlanExpires(p) PROVE SessionCovered'
  BY <1>19, <1>17 DEF PlanExpires, git
<1>20. ASSUME NEW r \in Repos, Drift(r) \/ RollbackRepository(r) PROVE SessionCovered'
  BY <1>20, <1>17 DEF Drift, RollbackRepository, git, review
<1>21. CASE RemoveGitLocks \/ GitCommit
  BY <1>21, <1>17 DEF RemoveGitLocks, GitCommit, review
<1>22. ASSUME NEW r \in Repos, RevertLedger(r) \/ \E l \in Locks : EditLock(r, l) PROVE SessionCovered'
  <2>1. \A s \in Repos : work'[s].ledger \in {{}, work[s].ledger}
    <3>1. CASE RevertLedger(r)
      BY <3>1 DEF RevertLedger, TypeInv, GitType, Files
    <3>2. CASE \E l \in Locks : EditLock(r, l)
      BY <3>2 DEF EditLock, TypeInv, GitType, Files
    <3> QED
      BY <1>22, <3>1, <3>2
  <2>2. \A s \in Repos : Recorded(work'[s].ledger) \subseteq Recorded(work[s].ledger)
    BY <2>1 DEF Recorded
  <2> QED
    BY <1>22, <1>17, <2>2 DEF RevertLedger, EditLock, review
<1>23. CASE GitReset
  <2>1. UNCHANGED <<session, plans, history>> /\ \A r \in Repos : work'[r] = history[Revision].files[r]
    BY <1>23 DEF GitReset, review, HEAD
  <2>2. CASE session.pc # "idle"
    <3>1. LedgersCommitted'
      BY <2>1, HeadType, RecordsCommitted DEF LedgersCommitted, TypeInv
    <3>2. ReadyCovered' /\ PublishCovered'
      BY <2>1, <2>2 DEF SessionCovered, ReadyCovered, PublishCovered, ThePlan
    <3> QED
      BY <3>1, <3>2 DEF SessionCovered
  <2> QED
    BY <1>s, <2>1, <2>2
<1>24. CASE UNCHANGED vars
  BY <1>24, <1>17 DEF vars, git, review
<1> QED
  BY <1>1, <1>2, <1>3, <1>4, <1>5, <1>6, <1>7, <1>8, <1>9, <1>10, <1>11, <1>12, <1>13, <1>14, <1>15,
     <1>16, <1>18, <1>19, <1>20, <1>21, <1>22, <1>23, <1>24
     DEF Next, ApplyStep, Command, Outside, Recover, Edit

(* LedgerCoversLive: the bindings of every tree a host serves were         *)
(* committed to the ledger, through crashes, retries, reverted ledgers and *)
(* rollbacks.                                                              *)
THEOREM RecordedBeforeLive == Spec => []LedgerCoversLive
<1>1. Spec => []TypeInv
  BY InitType, NextType, PTL DEF Spec
<1>2. TypeInv /\ CoverInv /\ [Next]_vars => CoverInv'
  BY NextLiveCovered, NextSessionCovered DEF CoverInv
<1>3. CoverInv => LedgerCoversLive
  BY DEF CoverInv, LiveCovered, Covered, Committed, LedgerCoversLive
<1> QED
  BY <1>1, <1>2, <1>3, InitCovered, PTL DEF Spec
=============================================================================
