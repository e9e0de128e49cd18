---------------------------- MODULE GitHubPages ----------------------------
(***************************************************************************)
(* The Git host, adapters/host/githubpages: a publication is an orphan     *)
(* commit under a stage ref, a restore descriptor is a commit under a      *)
(* restore ref whose parent is the replaced publication, and the branch    *)
(* that Pages serves is moved by a push with a lease.                      *)
(*                                                                         *)
(* Commits are built with fixed dates and authors, so the publication and  *)
(* the descriptor of one reviewed change (an "effect": plan and change)    *)
(* are always the same two objects; a publication is named by its effect.  *)
(*                                                                         *)
(* Each contact with the remote is a step with an outcome: "ok", "lost"    *)
(* (applied, answer lost), "cut" (not applied, error), or, for a push to   *)
(* the branch, "late" (error, and the server may still apply it).  The     *)
(* lease is compared by the server when it applies the push.               *)
(***************************************************************************)
EXTENDS FiniteSets

CONSTANTS
  Runners,
  Effects,     \* reviewed changes
  Unmanaged,   \* a repository pushed by hand, without publication metadata
  Unplanned,   \* the change has no reviewed plan yet
  PreviewConfigured,   \* is there a companion preview site?
  None

VARIABLES
  previous,    \* effect -> PreviousRevision of its plan, or Unplanned
  branch,      \* the branch Pages serves: an effect, Unmanaged or None
  preview,     \* the branch of the preview site
  stageRefs,   \* effects with a stage ref
  restoreRefs, \* effects with a restore ref
  inflight,    \* pushes to the branch the server may still apply: [old, new]
  lived,       \* history: the effects that have been served
  session

refs == <<branch, preview, stageRefs, restoreRefs, inflight, lived>>
vars == <<previous, refs, session>>

Outcomes == {"ok", "lost", "cut", "late"}
Idle == [pc |-> "idle", effect |-> None, lease |-> None, ok |-> FALSE]

Init ==
  /\ previous = [e \in Effects |-> Unplanned]
  /\ branch \in {None, Unmanaged} /\ preview = None
  /\ stageRefs = {} /\ restoreRefs = {} /\ inflight = {} /\ lived = {}
  /\ session = [r \in Runners |-> Idle]

At(r, pc) == session[r].pc = pc

(* createPublication: an effect's commit is the same whoever builds it.    *)
Effect(r) == session[r].effect

Goto(r, pc) == session' = [session EXCEPT ![r].pc = pc]
Fail(r) == session' = [session EXCEPT ![r] = Idle]

(* A commit whose message, tree and manifest bind a reviewed publication;  *)
(* any other commit is a revision without a tree.                          *)
inspectPublication(c) == c \in Effects

(* The descriptor of a publication, with the commit it replaced as parent. *)
inspectRestoreDescriptor(e) == e \in restoreRefs

(* Observe vouches for a managed commit only with its restore descriptor,  *)
(* whose parent is the revision the publication says it replaced.          *)
Observable == inspectPublication(branch) => inspectRestoreDescriptor(branch)

(* PlanWorkspace                                                           *)
MakePlan(e) ==
  /\ previous[e] = Unplanned /\ Observable
  /\ previous' = [previous EXCEPT ![e] = branch]
  /\ UNCHANGED <<refs, session>>

----------------------------------------------------------------------------
(* Pushes                                                                  *)

Move(new) == branch' = new /\ lived' = lived \union ({new} \intersect Effects)

(* Mutation: the push carries no lease.                                    *)
PushForced(old, new, f) ==
  /\ IF f \in {"ok", "lost"} THEN Move(new) ELSE UNCHANGED <<branch, lived>>
  /\ inflight' = IF f = "late" THEN inflight \union {[old |-> old, new |-> new]} ELSE inflight

(* compareAndSwapRef on the branch: --force-with-lease=ref:old             *)
PushBranch(old, new, f) ==
  /\ IF f \in {"ok", "lost"} /\ branch = old THEN Move(new) ELSE UNCHANGED <<branch, lived>>
  /\ inflight' = IF f = "late" THEN inflight \union {[old |-> old, new |-> new]} ELSE inflight

(* The server applies a push whose client gave up.                         *)
Land(m) ==
  /\ m \in inflight
  /\ inflight' = inflight \ {m}
  /\ IF branch = m.old THEN Move(m.new) ELSE UNCHANGED <<branch, lived>>
  /\ UNCHANGED <<previous, preview, stageRefs, restoreRefs, session>>

(* ensureRef: nothing to do when the ref exists; a push that failed but    *)
(* is found applied by a second ls-remote succeeded.                       *)
Ensured(e, set, f) == IF f = "cut" THEN set ELSE set \union {e}

----------------------------------------------------------------------------
(* Stage                                                                   *)

Begin(r, e) ==
  /\ At(r, "idle") /\ previous[e] # Unplanned
  /\ session' = [session EXCEPT ![r] = [Idle EXCEPT !.pc = "stage", !.effect = e]]
  /\ UNCHANGED <<previous, refs>>

Stage(r, f) ==
  /\ At(r, "stage") /\ f # "late"
  /\ stageRefs' = Ensured(Effect(r), stageRefs, f)
  /\ IF Effect(r) \in stageRefs'
       THEN Goto(r, IF PreviewConfigured THEN "preview" ELSE "commit") ELSE Fail(r)
  /\ UNCHANGED <<previous, branch, preview, restoreRefs, inflight, lived>>

(* replaceRef on the preview branch: ls-remote, then a push with a lease,  *)
(* so a stage that lost the preview site to another one fails.             *)
ReadPreview(r) ==
  /\ At(r, "preview")
  /\ session' = [session EXCEPT ![r].pc = "pushpreview", ![r].lease = preview]
  /\ UNCHANGED <<previous, refs>>

PushPreview(r, f) ==
  /\ At(r, "pushpreview") /\ f # "late"
  /\ preview' = IF f # "cut" /\ preview = session[r].lease THEN Effect(r) ELSE preview
  /\ IF preview' = Effect(r) THEN Goto(r, "commit") ELSE Goto(r, "abort")
  /\ UNCHANGED <<previous, branch, stageRefs, restoreRefs, inflight, lived>>

----------------------------------------------------------------------------
(* Commit                                                                  *)

(* The stage ref still holds the reviewed publication.                     *)
ReadStage(r) ==
  /\ At(r, "commit")
  /\ IF Effect(r) \in stageRefs THEN Goto(r, "observe") ELSE Fail(r)
  /\ UNCHANGED <<previous, refs>>

(* matchesExpected, expected being the stage's previous revision           *)
MatchesExpected(r) == branch = previous[Effect(r)]

ObserveForCommit(r) ==
  /\ At(r, "observe")
  /\ \/ Observable /\ branch = Effect(r) /\ Goto(r, "access")
     \/ /\ Observable /\ branch # Effect(r) /\ MatchesExpected(r)
        /\ session' = [session EXCEPT ![r].pc = IF branch = None THEN "ensure" ELSE "refetch", ![r].lease = branch]
     \/ ~(Observable /\ (branch = Effect(r) \/ MatchesExpected(r))) /\ Goto(r, "abort")
  /\ UNCHANGED <<previous, refs>>

(* The current publication is fetched, to be the descriptor's parent.      *)
Refetch(r) ==
  /\ At(r, "refetch")
  /\ Goto(r, IF branch = session[r].lease THEN "ensure" ELSE "abort")
  /\ UNCHANGED <<previous, refs>>

(* Mutation: the descriptor is written after the branch has moved.         *)
SkipDescriptor(r, f) ==
  /\ At(r, "ensure") /\ f # "late"
  /\ Goto(r, IF f = "cut" THEN "abort" ELSE "push")
  /\ UNCHANGED <<previous, refs>>

EnsureDescriptor(r, f) ==
  /\ At(r, "ensure") /\ f # "late"
  /\ restoreRefs' = Ensured(Effect(r), restoreRefs, f)
  /\ Goto(r, IF Effect(r) \in restoreRefs' THEN "push" ELSE "abort")
  /\ UNCHANGED <<previous, branch, preview, stageRefs, inflight, lived>>

(* A refused or failed push is looked into.                                *)
PushPublication(r, f) ==
  /\ At(r, "push")
  /\ PushBranch(session[r].lease, Effect(r), f)
  /\ Goto(r, IF f = "ok" /\ branch = session[r].lease THEN "verify" ELSE "relook")
  /\ UNCHANGED <<previous, preview, stageRefs, restoreRefs>>

(* compareAndSwapRef's own ls-remote, and Commit's Observe after an error: *)
(* the publication counts as made when the branch is found to be it.       *)
Relook(r) ==
  /\ At(r, "relook")
  /\ Goto(r, IF branch = Effect(r) /\ Observable THEN "access" ELSE "abort")
  /\ UNCHANGED <<previous, refs>>

VerifyPublished(r) ==
  /\ At(r, "verify")
  /\ Goto(r, IF branch = Effect(r) /\ Observable THEN "access" ELSE "abort")
  /\ UNCHANGED <<previous, refs>>

(* ReadAccess: the revision is observed once more.                         *)
ReadAccess(r) ==
  /\ At(r, "access")
  /\ session' = [session EXCEPT ![r].pc = "abort", ![r].ok = (branch = Effect(r) /\ Observable)]
  /\ UNCHANGED <<previous, refs>>

(* Abort: apply ends with it; the stage ref is deleted with a lease.       *)
Abort(r, f) ==
  /\ At(r, "abort") /\ f # "late"
  /\ stageRefs' = IF f = "cut" THEN stageRefs ELSE stageRefs \ {Effect(r)}
  /\ session' = [session EXCEPT ![r] = Idle]
  /\ UNCHANGED <<previous, branch, preview, restoreRefs, inflight, lived>>

----------------------------------------------------------------------------
(* Restore: after a failed verification, or a rollback of what is live     *)

BeginRestore(r) ==
  /\ At(r, "idle") \/ (At(r, "abort") /\ session[r].ok)
  /\ branch \in Effects /\ Observable
  /\ At(r, "abort") => branch = Effect(r)
  /\ session' = [session EXCEPT ![r] = [Idle EXCEPT !.pc = "restore", !.effect = branch]]
  /\ UNCHANGED <<previous, refs>>

(* Observe again; the failed revision must still be current.  Its          *)
(* descriptor names the parent to put back.                                *)
ObserveForRestore(r) ==
  /\ At(r, "restore")
  /\ IF branch = Effect(r) /\ Observable THEN Goto(r, "pushback") ELSE Fail(r)
  /\ UNCHANGED <<previous, refs>>

PushRestored(r, f) ==
  /\ At(r, "pushback")
  /\ PushBranch(Effect(r), previous[Effect(r)], f)
  /\ Goto(r, IF f = "ok" /\ branch = Effect(r) THEN "restored" ELSE "relookback")
  /\ UNCHANGED <<previous, preview, stageRefs, restoreRefs>>

(* After an error Restore succeeds when the parent is found in place.      *)
RelookRestored(r) ==
  /\ At(r, "relookback")
  /\ IF branch = previous[Effect(r)] /\ Observable
     THEN session' = [session EXCEPT ![r].pc = "restored"] ELSE Fail(r)
  /\ UNCHANGED <<previous, refs>>

Restored(r) ==
  /\ At(r, "restored")
  /\ session' = [session EXCEPT ![r] = Idle]
  /\ UNCHANGED <<previous, refs>>

----------------------------------------------------------------------------
Crash(r) ==
  /\ ~At(r, "idle")
  /\ session' = [session EXCEPT ![r] = Idle]
  /\ UNCHANGED <<previous, refs>>

Pushes(r, f) ==
  \/ Stage(r, f) \/ PushPreview(r, f) \/ EnsureDescriptor(r, f) \/ PushPublication(r, f)
  \/ Abort(r, f) \/ PushRestored(r, f)

Reads(r) ==
  \/ ReadPreview(r) \/ ReadStage(r) \/ ObserveForCommit(r) \/ Refetch(r) \/ Relook(r) \/ VerifyPublished(r)
  \/ ReadAccess(r) \/ ObserveForRestore(r) \/ RelookRestored(r) \/ Restored(r)

Progress ==
  \/ \E e \in Effects : MakePlan(e)
  \/ \E r \in Runners, e \in Effects : Begin(r, e)
  \/ \E r \in Runners : BeginRestore(r) \/ Pushes(r, "ok") \/ Reads(r)
  \/ \E m \in inflight : Land(m)

Fault ==
  \/ \E r \in Runners, f \in Outcomes \ {"ok"} : Pushes(r, f)
  \/ \E r \in Runners : Crash(r)

Next == Progress \/ Fault
Spec == Init /\ [][Next]_vars

----------------------------------------------------------------------------
(* What the branch serves can always be observed: the descriptor that      *)
(* Observe demands was written before the branch moved, and it is there    *)
(* when a restore makes the publication live again.                        *)
LiveObservable == Observable

(* The abstract host: a publication replaces exactly the revision it was   *)
(* planned against, and a restore puts back exactly what it replaced,      *)
(* whoever pushes, whatever answer is lost and however late a push lands.  *)
Contract == INSTANCE Publication WITH
  Plans <- Effects,
  Revisions <- [plan : Effects],
  Unpublished <- {None, Unmanaged},
  NotPlanned <- Unplanned,
  live <- IF branch \in Effects THEN [plan |-> branch] ELSE branch,
  planned <- [e \in Effects |-> IF previous[e] \in Effects THEN [plan |-> previous[e]] ELSE previous[e]],
  replaced <- [v \in {[plan |-> e] : e \in lived} |->
                 IF previous[v.plan] \in Effects THEN [plan |-> previous[v.plan]] ELSE previous[v.plan]]

KeepsContract == Contract!Spec
============================================================================
