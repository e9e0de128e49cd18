------------------------------ MODULE MCApply ------------------------------
(* A gated repository on S3 and a local one, two plans.  Both locks start  *)
(* with version v; an edit can add version w, or bind v to other bytes.    *)
(* Faults, edits and outside events share a budget.                        *)
EXTENDS Apply, TLC

CONSTANTS remote, local, p1, p2, first, second, rebound, MaxDisturbances

MCRepos == {remote, local}
MCOrder == <<remote, local>>
MCManaged == {remote}
MCPlans == {p1, p2}
MCOnePlan == {p1}
MCLocks == {first, second, rebound}
MCBindings == [l \in MCLocks |-> CASE l = first -> {<<"v", 1>>}
                                   [] l = second -> {<<"v", 1>>, <<"w", 1>>}
                                   [] l = rebound -> {<<"v", 2>>}]

Symmetry == Permutations(MCPlans)

VARIABLE disturbances   \* faults, edits and outside events so far

MCInit == Init /\ disturbances = 0
Disturb(A) == A /\ disturbances < MaxDisturbances /\ disturbances' = disturbances + 1
MCNext ==
  \/ (ApplyStep \/ Command \/ Recover) /\ UNCHANGED disturbances
  \/ Disturb(Fault \/ Edit \/ Outside)
mcvars == <<vars, disturbances>>
MCSpec == MCInit /\ [][MCNext]_mcvars

(* Retries.  Apply takes its steps; the operator runs it again, renews     *)
(* approvals, and between applies cleans up.  Resetting the working tree   *)
(* under a running apply is a disturbance.                                 *)
RetryNext ==
  \/ (ApplyStep \/ Command) /\ UNCHANGED disturbances
  \/ session = Idle /\ Recover /\ UNCHANGED disturbances
  \/ Disturb(Fault \/ Edit \/ Outside \/ (session # Idle /\ GitReset))
RetrySpec ==
  /\ MCInit /\ [][RetryNext]_mcvars
  /\ WF_mcvars(ApplyStep /\ UNCHANGED disturbances)
  /\ SF_mcvars(session = Idle /\ GitReset /\ UNCHANGED disturbances)
  /\ SF_mcvars(RemoveGitLocks /\ UNCHANGED disturbances)
  /\ \A p \in Plans : SF_mcvars(openApply(p) /\ UNCHANGED disturbances)
  /\ \A p \in Plans, r \in Repos : SF_mcvars(ApprovePlan(p, r) /\ <<p, r>> \notin approved /\ UNCHANGED disturbances)
============================================================================
