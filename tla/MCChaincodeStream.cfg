SPECIFICATION FairSpec
CONSTANTS
  r1 = r1
  r2 = r2
  r3 = r3
  t1 = t1
  t2 = t2
  Runs = {r1, r2, r3}
  Txids = {t1, t2}
  Workloads <- MCWorkloads
  Nil = Nil
INVARIANTS
  AnsweredByOwnRun
  AckedWritesApplied
  NotifyWaitsOnlyAfterError
PROPERTIES
  CallsReturnWhileUp
CHECK_DEADLOCK FALSE
