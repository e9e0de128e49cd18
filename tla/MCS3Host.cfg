CONSTANTS
  Absent = Absent
  Unmanaged = Unmanaged
  None = None
  r1 = r1
  r2 = r2
  p1 = p1
  p2 = p2
  s1 = s1
  s2 = s2
  t1 = t1
  t2 = t2
  index = index
  file = file
  RootPath = index
  Runners <- MCRunners
  Plans <- MCPlans
  Stages <- MCStages
  Trees <- MCTrees
  Paths <- MCPaths
  FilesOf <- MCFilesOf
  RootRewriter = TRUE
  Resends = FALSE
  MaxFaults = 2
SPECIFICATION MCSpec
SYMMETRY Symmetry
INVARIANTS LiveIntact  SuccessWasLive PageWasLive
PROPERTY KeepsContract
CHECK_DEADLOCK FALSE
