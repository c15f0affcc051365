SPECIFICATION Spec
CONSTANTS
  a = a
  b = b
  o1 = o1
  o2 = o2
  v1 = v1
  v2 = v2
  v3 = v3
  Nil = Nil
  Chaincodes = {a, b}
  Orgs = {o1, o2}
  Workloads <- MCWorkloads
  MaxBlocks = 2
  MaxTxs = 3
INVARIANTS
  RanCurrentVersion
  PolicyHeldAtCommit
  LifecycleCurrent
  CreatorIsMember
  UpgradeExcludesInvocations
CHECK_DEADLOCK FALSE
