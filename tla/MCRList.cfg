SPECIFICATION Spec
CONSTANTS
  Nil = Nil
  Workloads <- MCWorkloads
INVARIANTS
  KeepsList
  CacheIsTransparent
CHECK_DEADLOCK FALSE
