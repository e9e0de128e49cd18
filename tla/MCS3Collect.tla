---------------------------- MODULE MCS3Collect ----------------------------
(* One publisher of three plans and a collector, canonical-path shape.     *)
EXTENDS S3Collect, TLC

CONSTANTS r1, p1, p2, p3, s1, s2, s3, t1, t2, index, chart1, chart2, MaxFaults

MCRunners == {r1}
MCPlans == {p1, p2, p3}
MCStages == {s1, s2, s3}
MCTrees == {t1, t2}
MCPaths == {index, chart1, chart2}
MCFilesOf == (t1 :> {index, chart1}) @@ (t2 :> {index, chart1, chart2})

Symmetry == Permutations(MCPlans) \union Permutations(MCStages)

VARIABLE faults   \* crashes, lost answers, failed requests and expiries so far

MCInit == CollectInit /\ root = Unmanaged /\ faults = 0
MCNext ==
  \/ Progress /\ PublishStep /\ UNCHANGED faults
  \/ Collect /\ UNCHANGED faults
  \/ Fault /\ PublishStep /\ faults < MaxFaults /\ faults' = faults + 1
MCSpec == MCInit /\ [][MCNext]_<<cvars, faults>>
============================================================================
