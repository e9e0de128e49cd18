CONSTANTS
  remote = remote
  local = local
  p1 = p1
  p2 = p2
  first = first
  second = second
  rebound = rebound
  Repos <- MCRepos
  Order <- MCOrder
  Managed <- MCManaged
  Gated <- MCManaged
  Plans <- MCPlans
  Locks <- MCLocks
  BindingsOf <- MCBindings
  VisibleOf <- MCBindings
  FirstLock = first
  Foreign = Foreign
  None = None
  MaxDisturbances = 3
SYMMETRY Symmetry
SPECIFICATION MCSpec
INVARIANTS LedgerCoversLive VersionsImmutable ReceiptsProved SuccessRecorded
PROPERTY OnlyReviewedMoves
CHECK_DEADLOCK FALSE
