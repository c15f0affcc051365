SPECIFICATION FairSpec
CONSTANTS
    NKeys = 2
    MaxBlocks = 2
    MaxRetries = 2
    QueryLimit = 1
    Workloads <- MCWorkloads
    Nil = Nil
INVARIANTS
  StateFollowsLedger
PROPERTIES
  CommitterBecomesIdle
CHECK_DEADLOCK FALSE
