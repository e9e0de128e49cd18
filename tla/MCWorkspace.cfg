CONSTANTS
  None = None  Unused = Unused  Torn = Torn  Refused = Refused  Gone = Gone
  k1 = k1  k2 = k2  n1 = n1  n2 = n2  pgp = pgp  rsa = rsa
  p = p  q = q  w1 = w1  w2 = w2  w3 = w3  c1 = c1
  r1 = r1  r2 = r2  t1 = t1  t2 = t2  t3 = t3  t4 = t4
  p1 = p1  p2 = p2  ra = ra  rb = rb  rp = rp  rn = rn
  main = main  dev = dev  v0 = v0  v1 = v1  v2 = v2  v3 = v3  m1 = m1  m2 = m2
  MaxFaults = 1
  LockArtifacts <- MCArtifacts  LockTracks = {"stable", "edge"}  StableTrack = "stable"
  VersionRank <- MCVersionRank  Retention = 1  ImportCheckpoint = 2  LockFaults = {"fetch", "crash"}
  IndexGrows = FALSE  MaxFiles = 2  MaxLockCommands = 3
  Packages <- MCPackages  PackageVersions = {1, 2}  LockShardThreshold = 1  MaxWrites = 2
  Loaders <- MCLoaders  LoadSlots = 2
  RotationKeys <- MCKeys  FirstKey = k1  MinimumRefresh = 2  Margin = 1  Refreshers <- MCRefreshers
  Expiries = {3, 9}  MaxBack = 1  MaxTime = 6  MaxNative = 4
  KeyNames <- MCKeys  MaxGeneration = 4  MaxKeyFaults = 3
  Providers = {"github", "gitlab", "forgejo", "none", "unknown"}  Plans <- MCPlans  Gated <- MCGated
  Policy <- MCPolicy  GitRevision <- MCGitRevision  PlanExpiry <- MCPlanExpiry
  ApprovalKeys <- MCApprovalKeys  Signers <- MCKeys  Lifetimes = {1, 3}
  Branches <- MCBranches  Main = main  History <- MCHistory  Start = v0
  Reviews <- MCReviews  Into <- MCInto  Carries <- MCCarries  Lands <- MCLands
  MaxGateTime = 3  MaxChanges = 3
SPECIFICATION Spec
INVARIANTS
  WrittenLockValid StoreHoldsLock  OnlyLockedBytes  
  NamedKeyHeld    PinsTrue 
PROPERTIES  PruneSparesNewest NeverMixed CorruptKept GateDecides
CHECK_DEADLOCK FALSE
