SPECIFICATION WorkersSpec
CONSTANTS
  Connections = {c1}
  NoConnection = NoConnection
  maxReconnectAttempts = 0
  MaxRecord = 1
  MaxInFlight = 1
  MaxStreamFaults = 0
  Workers = {w1, w2}
  Forks = {main, fork}
  None = None
  finalityDepth = 1
  maxBatchSize = 2
  maxRollbackDepth = 3
  INDEXER_START_SEQUENCE = 0
  MaxHeight = 4
  MaxReorgs = 1
  MaxOldest = 1
  MaxFaults = 1
SYMMETRY MC_Alike
INVARIANTS StoreIsSound StoreIsFinal
