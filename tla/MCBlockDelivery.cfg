SPECIFICATION FairSpec
CONSTANTS
    Channels = {ch1}
    Clients = {c1, c2, c3}
    Senders = {s1}
    MaxBlocks = 2
    Workloads <- MCWorkloads
    AttemptLimit = 1
    wrongStatusThreshold = 1
    Nil = Nil
INVARIANTS
  EndedIsDisconnected
  NoGap
PROPERTIES
  StopTerminates
  BlocksDelivered
CHECK_DEADLOCK FALSE
