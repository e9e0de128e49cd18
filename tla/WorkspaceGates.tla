--------------------------- MODULE WorkspaceGates ---------------------------
(***************************************************************************)
(* The gate of a workspace's publications, an instance of Gates, with the  *)
(* property that is its own and what its constants are.                    *)
(***************************************************************************)
EXTENDS Workspace

CONSTANTS
  Providers, Plans, Gated, Policy, GitRevision, PlanExpiry, ApprovalKeys, Signers, Lifetimes,
  Branches, Main, History, Start, Reviews, Into, Carries, Lands, MaxGateTime, MaxChanges

VARIABLES
  provider, time, forge, approvals, signed, call, outcome, changes

Gate == INSTANCE Gates WITH MaxTime <- MaxGateTime

gateVars == <<provider, time, forge, approvals, signed, call, outcome, changes>>

(* A repository's gate is one of the three the manifest may ask for, and   *)
(* an approval is not the mark for none.                                   *)
ASSUME PolicyAssumption ==
  /\ \A r \in Gated : Policy[r] \in {"auto", "approval", "pr"}
  /\ None \notin [plan : Plans, repository : Gated, key : Signers, expires : Int]

(* Times are integers: a plan's expiry, how long an approval lasts.        *)
ASSUME TimeAssumption == Lifetimes \subseteq Int /\ \A p \in Plans : PlanExpiry[p] \in Int

(* Revisions form the graph of a Git history, in which two revisions with  *)
(* a common ancestor have a best one; the plans' revisions and the         *)
(* branches' tips are in it, and the reviews are into its branches.        *)
ASSUME HistoryAssumption ==
  /\ None \notin DOMAIN History
  /\ \A v \in DOMAIN History : v \in History[v] /\ History[v] \subseteq DOMAIN History
  /\ \A v, t \in DOMAIN History : v \in History[t] => History[v] \subseteq History[t]
  /\ \A v, t \in DOMAIN History : v \in History[t] /\ t \in History[v] => v = t
  /\ \A v, t \in DOMAIN History :
       History[v] \cap History[t] # {} =>
         \E c \in History[v] \cap History[t] :
           \A d \in (History[v] \cap History[t]) \ {c} : c \notin History[d]
  /\ \A p \in Plans : GitRevision[p] \in DOMAIN History
  /\ Start \in DOMAIN History /\ Main \in Branches
  /\ \A w \in Reviews : Lands[w] \in DOMAIN History /\ Into[w] \in Branches

----------------------------------------------------------------------------
(* gates: an effect is authorised exactly on evidence that stands, by an   *)
(* approval or by a merged review, while the forge changes underneath.     *)
GateDecides ==
  [][(part \in {"approvals", "reviews"}) => Gate!GateDecides]_<<part, faults, gateVars>>
=============================================================================
