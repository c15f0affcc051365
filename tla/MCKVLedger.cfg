SPECIFICATION MCSpec
CONSTANTS
  t1 = t1
  t2 = t2
  t3 = t3
  k1 = k1
  k2 = k2
  Nil = Nil
  TxIds = {t1, t2, t3}
  BadTxs = {t3}
  Keys = {k1, k2}
  Ranges = {{k1}, {k1, k2}}
  MaxHeight = 3
  MaxBlockTxs = 2
  MaxOps = 2
  MaxCrashes = 2
INVARIANTS
  SimulationSnapshot
  Serializable
  StateMatchesChain
  ValidInOneBlock
PROPERTIES
  StoredBlockReachesDBs
  ImplementsSerialLedger
