----------------------------- MODULE MCS3Host -----------------------------
(* Two runners and two plans on one bucket, with a budget of faults.       *)
EXTENDS S3Host, TLC

CONSTANTS r1, r2, p1, p2, s1, s2, t1, t2, index, file, MaxFaults

MCRunners == {r1, r2}
MCPlans == {p1, p2}
MCStages == {s1, s2}
MCTrees == {t1, t2}
MCPaths == {index, file}
MCFilesOf == [t \in MCTrees |-> {index}]

Symmetry == Permutations(MCRunners) \union Permutations(MCPlans) \union Permutations(MCStages)
              \union Permutations(MCTrees)

VARIABLE faults   \* crashes, lost answers, failed requests and expiries so far

MCInit == Init /\ root = Absent /\ faults = 0
MCNext ==
  \/ Progress /\ UNCHANGED faults
  \/ Fault /\ faults < MaxFaults /\ faults' = faults + 1
MCSpec == MCInit /\ [][MCNext]_<<vars, faults>>
============================================================================
