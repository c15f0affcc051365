SPECIFICATION FairSpec
CONSTANTS
    Requests = {c1, c2}
    Locks = {k1, k2}
    Nil = Nil
    MaxFailures = 2
INVARIANTS
  PlaceholderIsAwaited
  EntryHasStream
PROPERTIES
  LaunchReturns
CHECK_DEADLOCK FALSE
