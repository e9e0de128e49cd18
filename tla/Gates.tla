------------------------------- MODULE Gates -------------------------------
(***************************************************************************)
(* The gate every publication effect passes (gate: Authorize, called by    *)
(* engine's applyPreparation.authorize), the approvals it reads            *)
(* (engine.ApprovePlan, gate.SignApproval) and the review evidence it      *)
(* reads from a forge (adapters/forge: github, gitlab, forgejo, plain).    *)
(*                                                                         *)
(* A merged pull request is established by three separate requests, and    *)
(* the forge goes on changing between them: reviews are merged or closed,  *)
(* the default branch is renamed or force-pushed, the repository is moved. *)
(* Approvals are written under the workspace lock an apply holds, so never *)
(* while a gate is being evaluated.  The evidence file is one file shared  *)
(* by all the plans, as approve's --output allows.                         *)
(***************************************************************************)
EXTENDS Integers

CONSTANTS
  Providers,                \* the providers the manifest may name
  Plans, Gated, Policy,     \* plans; their repositories; repository -> gate
  GitRevision, PlanExpiry,  \* plan -> its revision and when it expires
  ApprovalKeys,             \* plan -> the keys its review allows to approve
  Signers,                  \* the private keys approvals are signed with
  Lifetimes,                \* for how long an approver may approve
  Branches, Main,           \* the forge's branches; the default one at first
  History, Start,           \* revision -> its ancestors, itself included; first tip
  Reviews, Into, Carries,   \* reviews -> the branch, the revisions they carry
  Lands,                    \* review -> the revision its merge puts on the branch
  None, MaxTime, MaxChanges, MaxFaults

VARIABLES
  provider,   \* the manifest's forge
  time,       \* the clock
  forge,      \* the forge repository: moved, default branch, tips, review states
  approvals,  \* the evidence file: [plan, repository, key, expires]
  signed,     \* history: plan, repository -> the last approval given, or None
  call,       \* the gate evaluation in progress
  outcome,    \* what the last evaluation returned
  changes, faults

vars == <<provider, time, forge, approvals, signed, call, outcome, changes, faults>>

Idle == [pc |-> "idle", plan |-> None, repository |-> None, now |-> 0, branch |-> None,
         pulls |-> {}, steady |-> TRUE]

Init ==
  /\ provider \in Providers
  /\ time = 0
  /\ forge = [moved |-> FALSE, default |-> Main, tips |-> [b \in Branches |-> Start],
              state |-> [w \in Reviews |-> "opened"]]
  /\ approvals = {}
  /\ signed = [x \in Plans \X Gated |-> None]
  /\ call = Idle
  /\ outcome = "none"
  /\ changes = 0
  /\ faults = 0

Evaluating == call.pc # "idle"
Return(result) == outcome' = result /\ call' = Idle
Go(pc) == call' = [call EXCEPT !.pc = pc] /\ UNCHANGED outcome
World == <<provider, forge, approvals, signed, changes>>

-----------------------------------------------------------------------------
(* authorize, Authorize: an expired plan and a gate that is not met refuse *)
(* the effect.  The time the evidence is judged at is read first.          *)
authorize(p, r) ==
  /\ ~Evaluating
  /\ outcome' = IF time < PlanExpiry[p] /\ Policy[r] = "auto" THEN "granted"
                ELSE IF time < PlanExpiry[p] THEN "none" ELSE "refused"
  /\ call' = IF time < PlanExpiry[p] /\ Policy[r] # "auto"
             THEN [Idle EXCEPT !.pc = IF Policy[r] = "pr" THEN "resolve" ELSE "approval",
                               !.plan = p, !.repository = r, !.now = time]
             ELSE Idle
  /\ UNCHANGED <<World, time, faults>>

(* SignApproval and approvalMessage bind the approval to plan, repository, *)
(* approver and expiry: verifyApproval refuses it for any other.           *)
SignApproval(p, r, k, expires) == [plan |-> p, repository |-> r, key |-> k, expires |-> expires]
verifyApproval(a) == a.key \in ApprovalKeys[call.plan]

requireApproval ==
  /\ call.pc = "approval"
  /\ Return(IF \E a \in approvals : /\ a.plan = call.plan /\ a.repository = call.repository
                                    /\ call.now < a.expires
                                    /\ verifyApproval(a)
            THEN "granted" ELSE "refused")
  /\ UNCHANGED <<World, time, faults>>

-----------------------------------------------------------------------------
(* What each forge answers, and what its adapter makes of the answer.      *)

Carriers(v) == {w \in Reviews : v \in Carries[w]}
Pull(w, merged) == [review |-> w, base |-> Into[w], merged |-> merged]

(* GitHub lists the reviews of a commit, with merged_at; GitLab with a     *)
(* state; Forgejo and Gitea name one, closed and flagged when merged.      *)
githubPulls(v) == {{Pull(w, forge.state[w] = "merged") : w \in Carriers(v)}}
gitlabPulls(v) == {{Pull(w, forge.state[w] = "merged") : w \in Carriers(v)}}
forgejoPulls(v) ==
  IF Carriers(v) = {} THEN {{}} ELSE {{Pull(w, forge.state[w] = "merged")} : w \in Carriers(v)}

Common(v, t) == History[v] \cap History[t]
MergeBase(v, t) ==
  IF Common(v, t) = {} THEN None
  ELSE CHOOSE c \in Common(v, t) : \A d \in Common(v, t) \ {c} : c \notin History[d]
CompareStatus(v, t) ==
  IF v = t THEN "identical"
  ELSE IF v \in History[t] THEN "ahead" ELSE IF t \in History[v] THEN "behind" ELSE "diverged"

(* An ancestry answer: does the branch at t contain v, and the merge base. *)
githubAncestry(v, t) ==
  [contains |-> CompareStatus(v, t) \in {"ahead", "identical"}, base |-> MergeBase(v, t)]
gitlabAncestry(v, t) == [contains |-> MergeBase(v, t) = v, base |-> MergeBase(v, t)]
forgejoAncestry(v, t) ==
  IF History[v] \ History[t] # {} THEN [contains |-> FALSE, base |-> None]
  ELSE [contains |-> TRUE, base |-> v]

Pulls(v) == CASE provider = "github" -> githubPulls(v)
              [] provider = "gitlab" -> gitlabPulls(v)
              [] OTHER -> forgejoPulls(v)
Ancestry(v, t) == CASE provider = "github" -> githubAncestry(v, t)
                    [] provider = "gitlab" -> gitlabAncestry(v, t)
                    [] OTHER -> forgejoAncestry(v, t)

-----------------------------------------------------------------------------
(* verifyMergedPR.                                                         *)
Revision == GitRevision[call.plan]

(* ForgeResolver.Resolve: a provider without an adapter is refused here.   *)
Resolve ==
  /\ call.pc = "resolve"
  /\ IF provider = "unknown" THEN Return("refused") ELSE Go("repository")
  /\ UNCHANGED <<World, time, faults>>

(* A forge that answers about another repository is not followed.          *)
Repository ==
  /\ call.pc = "repository" /\ provider # "none"
  /\ IF forge.moved THEN Return("refused")
     ELSE /\ call' = [call EXCEPT !.pc = "pulls", !.branch = forge.default]
          /\ UNCHANGED outcome
  /\ UNCHANGED <<World, time, faults>>

PullRequestsForRevision ==
  /\ call.pc = "pulls"
  /\ \E answer \in Pulls(Revision) :
       LET landed == {q \in answer : q.merged /\ q.base = call.branch}
       IN  IF landed = {} THEN Return("refused")
           ELSE call' = [call EXCEPT !.pc = "ancestry", !.pulls = landed] /\ UNCHANGED outcome
  /\ UNCHANGED <<World, time, faults>>

(* Mutation: merged review is taken as standing evidence.                  *)
ReachableOnceMerged(answer) == TRUE

Reachable(answer) == answer.contains /\ answer.base = Revision

(* The branch is compared anew for each merged review, in the order they   *)
(* were listed, which is the forge's.                                      *)
NextPull(q) ==
  IF call.pulls = {q} THEN Return("refused")
  ELSE call' = [call EXCEPT !.pulls = @ \ {q}] /\ UNCHANGED outcome

RevisionAncestry(q) ==
  /\ call.pc = "ancestry" /\ q \in call.pulls
  /\ IF Reachable(Ancestry(Revision, forge.tips[call.branch])) THEN Return("granted")
     ELSE NextPull(q)
  /\ UNCHANGED <<World, time, faults>>

(* What may fail to answer: the evidence file, the token broker, a forge's *)
(* command line tool or its HTTP API (no token, no connection, an error    *)
(* status, a timeout, an oversized or malformed answer), of which GitHub   *)
(* and GitLab use either and Forgejo the latter.  plain never answers.     *)
Reading == call.pc \in {"repository", "pulls", "ancestry"}
LoadApprovals == call.pc = "approval"
forgeToken == call.pc = "resolve" /\ provider \notin {"none", "unknown"}
ReadJSON == Reading /\ provider \in {"github", "gitlab"}
Get == Reading /\ provider \in {"github", "gitlab", "forgejo"}
unsupported == call.pc = "repository" /\ provider = "none"

ErrUnavailable ==
  /\ \/ unsupported /\ UNCHANGED faults
     \/ /\ LoadApprovals \/ forgeToken \/ ReadJSON \/ Get
        /\ faults < MaxFaults /\ faults' = faults + 1
  /\ IF call.pc = "ancestry"
     THEN \E q \in call.pulls :
            IF call.pulls = {q} THEN Return("refused")
            ELSE /\ call' = [call EXCEPT !.pulls = @ \ {q}, !.steady = FALSE]
                 /\ UNCHANGED outcome
     ELSE Return("refused")
  /\ UNCHANGED <<World, time>>

-----------------------------------------------------------------------------
(* Those of other plans and repositories, which ApprovePlan keeps.         *)
Others(p, r) == {a \in approvals : a.plan # p \/ a.repository # r}

ApprovePlan(p, r, k, lifetime) ==
  /\ ~Evaluating
  /\ Policy[r] = "approval" /\ k \in ApprovalKeys[p]
  /\ time < PlanExpiry[p]
  /\ LET expires == IF time + lifetime > PlanExpiry[p] THEN PlanExpiry[p] ELSE time + lifetime
     IN  /\ approvals' = Others(p, r) \cup {SignApproval(p, r, k, expires)}
         /\ signed' = [signed EXCEPT ![<<p, r>>] = SignApproval(p, r, k, expires)]
  /\ UNCHANGED <<provider, time, forge, call, outcome, changes, faults>>

(* The forge's users.                                                      *)
Change(after) ==
  /\ changes < MaxChanges
  /\ forge # after
  /\ forge' = after
  /\ changes' = changes + 1
  /\ call' = IF Evaluating THEN [call EXCEPT !.steady = FALSE] ELSE call
  /\ UNCHANGED <<provider, time, approvals, signed, outcome, faults>>

Merge(w) ==
  /\ forge.state[w] = "opened"
  /\ Change([forge EXCEPT !.state[w] = "merged", !.tips[Into[w]] = Lands[w]])
Close(w) == forge.state[w] = "opened" /\ Change([forge EXCEPT !.state[w] = "closed"])
ForcePush(b, v) == Change([forge EXCEPT !.tips[b] = v])
SetDefault(b) == Change([forge EXCEPT !.default = b])
Move == Change([forge EXCEPT !.moved = TRUE])

Tick ==
  /\ time < MaxTime
  /\ time' = time + 1
  /\ UNCHANGED <<provider, forge, approvals, signed, call, outcome, changes, faults>>

Next ==
  \/ \E p \in Plans, r \in Gated : authorize(p, r)
  \/ \E p \in Plans, r \in Gated, k \in Signers, l \in Lifetimes : ApprovePlan(p, r, k, l)
  \/ requireApproval
  \/ Resolve \/ Repository \/ PullRequestsForRevision
  \/ \E q \in call.pulls : RevisionAncestry(q)
  \/ ErrUnavailable
  \/ \E w \in Reviews : Merge(w) \/ Close(w)
  \/ \E b \in Branches : SetDefault(b) \/ \E v \in DOMAIN History : ForcePush(b, v)
  \/ Move
  \/ Tick

Spec == Init /\ [][Next]_vars

-----------------------------------------------------------------------------
Live(a) == a # None /\ call.now < a.expires /\ a.key \in ApprovalKeys[call.plan]
Landed(b) ==
  /\ \E w \in Carriers(Revision) : forge.state[w] = "merged" /\ Into[w] = b
  /\ Revision \in History[forge.tips[b]]

(* An effect is authorised only on evidence that stands at the moment of   *)
(* the decision: under approval, the last approval given for this plan and *)
(* this repository, by a key the plan allows, not lapsed when the effect   *)
(* was timed; under pr, a review of the plan's revision merged into the    *)
(* branch that was read as the default, which holds the revision still.    *)
(* And evidence that stood throughout, with every request answered, is not *)
(* overlooked, by any forge that lists every review of the revision.       *)
(* (gate.requireApproval, gate.verifyMergedPR, engine.ApprovePlan and the  *)
(* forge adapters' RevisionAncestry.)                                      *)
GateDecides ==
  Evaluating /\ ~Evaluating' =>
    IF Policy[call.repository] = "approval"
    THEN /\ outcome' = "granted" => Live(signed[<<call.plan, call.repository>>])
         /\ outcome' = "refused" /\ faults' = faults =>
              ~Live(signed[<<call.plan, call.repository>>])
    ELSE /\ outcome' = "granted" => Landed(call.branch) /\ provider \notin {"none", "unknown"}
         /\ /\ outcome' = "refused" /\ faults' = faults /\ call.steady
            /\ \/ provider \in {"github", "gitlab"}
               \/ provider = "forgejo" /\ \E w \in Reviews : Carriers(Revision) = {w}
            => forge.moved \/ ~Landed(forge.default)
=============================================================================
