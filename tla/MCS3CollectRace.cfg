CONSTANTS
  Absent = Absent
  Unmanaged = Unmanaged
  None = None
  r1 = r1
  p1 = p1
  p2 = p2
  p3 = p3
  s1 = s1
  s2 = s2
  s3 = s3
  t1 = t1
  t2 = t2
  index = index
  chart1 = chart1
  chart2 = chart2
  RootPath = index
  Runners <- MCRunners
  Plans <- MCPlans
  Stages <- MCStages
  Trees <- MCTrees
  Paths <- MCPaths
  FilesOf <- MCFilesOf
  RootRewriter = FALSE
  Resends = FALSE
  Alone = FALSE
  MaxFaults = 0
SPECIFICATION MCSpec
SYMMETRY Symmetry
INVARIANT LiveIntact
CHECK_DEADLOCK FALSE
