CONSTANTS
  remote = remote
  local = local
  p1 = p1
  p2 = p2
  first = first
  second = second
  rebound = rebound
  Repos <- MCRepos
  Order <- MCOrder
  Managed <- MCManaged
  Gated <- MCManaged
  Plans <- MCOnePlan
  Locks <- MCLocks
  BindingsOf <- MCBindings
  VisibleOf <- MCBindings
  FirstLock = first
  Foreign = Foreign
  None = None
  MaxDisturbances = 3
SPECIFICATION RetrySpec
PROPERTY Completes
CHECK_DEADLOCK FALSE
