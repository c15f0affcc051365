SPECIFICATION MCSpec
CONSTANTS
  n1 = n1
  n2 = n2
  Nil = Nil
  Text = Text
  Namespaces = {n1, n2}
  Keys = {1, 2, 3, 4, 5, 6, 7, 8, 9}
  Workloads <- Loads
  MaxDegree = 2
  IntBits = 4
  MaxBlockTxs = 3
INVARIANTS
  SerialState
  ReadsAreCurrent
  
  StatisticsMatchChain
