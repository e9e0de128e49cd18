------------------------------ MODULE MCHosts ------------------------------
(***************************************************************************)
(* The three hosts that are not an object store, checked in one run: a     *)
(* repository has one of them, chosen by `host' in the initial state, and  *)
(* only that adapter's state moves.  `faults' counts lost answers, failed  *)
(* calls, crashes and intrusions; MaxFaults bounds them per adapter.       *)
(***************************************************************************)
EXTENDS Hosts, Naturals, TLC

CONSTANTS
  r1, r2,         \* runners of the engine
  p1, p2,         \* rsync plans
  t0, t1, t2,     \* trees
  e1, e2          \* Pages effects

MCRunners == {r1, r2}
MCRsyncPlans == {p1, p2}
MCTrees == {t0, t1, t2}
MCReleases == 1 .. 3
MCEffects == {e1, e2}
MCLocalPlans ==
  {[tree |-> t1, expected |-> None], [tree |-> t2, expected |-> t1],
   [tree |-> t1, expected |-> AnyTree], [tree |-> t2, expected |-> None]}

VARIABLES host, faults

vars == <<host, faults, rsyncVars, localVars, pagesVars>>

(* A runner whose first Observe of an unpublished path can meet exit status *)
(* 255 twice is README's finding on rsync; from there one fault is left.    *)
Init ==
  /\ Rsync!Init /\ Local!Init /\ Pages!Init
  /\ link \in {t0, Foreign, None}
  /\ \/ host = "rsync" /\ branch = None /\ faults = IF link = t0 THEN 0 ELSE 1
     \/ host = "local" /\ link = None /\ branch = None /\ faults = 0
     \/ host = "pages" /\ link = None /\ faults = 1

MaxFaults == 2

Runs(h) == host = h /\ UNCHANGED <<host, faults>>
Suffers(h) == host = h /\ faults < MaxFaults /\ faults' = faults + 1 /\ UNCHANGED host

Next ==
  \/ Runs("rsync") /\ Rsync!Progress /\ UNCHANGED <<localVars, pagesVars>>
  \/ Suffers("rsync") /\ Rsync!Fault /\ UNCHANGED <<localVars, pagesVars>>
  \/ Runs("local") /\ Local!Progress /\ UNCHANGED <<rsyncVars, pagesVars>>
  \/ Suffers("local") /\ Local!Fault /\ UNCHANGED <<rsyncVars, pagesVars>>
  \/ Runs("pages") /\ Pages!Progress /\ UNCHANGED <<rsyncVars, localVars>>
  \/ Suffers("pages") /\ Pages!Fault /\ UNCHANGED <<rsyncVars, localVars>>

Spec == Init /\ [][Next]_vars

Symmetry == Permutations(Runners) \union Permutations(RsyncPlans) \union Permutations(Effects)
============================================================================
