CONSTANTS
  r1 = r1  r2 = r2  p1 = p1  p2 = p2  t0 = t0  t1 = t1  t2 = t2  e1 = e1  e2 = e2
  AnyTree = AnyTree  Foreign = Foreign  Unmanaged = Unmanaged  Unplanned = Unplanned  None = None
  Runners <- MCRunners
  Trees <- MCTrees
  RsyncPlans <- MCRsyncPlans
  LocalPlans <- MCLocalPlans
  Releases <- MCReleases
  Effects <- MCEffects
  PreviewConfigured = TRUE
SPECIFICATION Spec
SYMMETRY Symmetry
INVARIANTS  LocalLiveWhole LocalReportsLostUpdate PagesLiveObservable
PROPERTIES  LocalNeverWithdrawn PagesKeepsContract
CHECK_DEADLOCK FALSE
