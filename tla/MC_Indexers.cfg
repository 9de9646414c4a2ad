SPECIFICATION IndexersSpec
CONSTANTS
  Connections = {c1, c2}
  NoConnection = NoConnection
  maxReconnectAttempts = 1
  MaxRecord = 2
  MaxInFlight = 1
  MaxStreamFaults = 2
  Workers = {w1}
  Forks = {main, fork}
  None = None
  finalityDepth = 1
  maxBatchSize = 2
  maxRollbackDepth = 4
  INDEXER_START_SEQUENCE = 1
  MaxHeight = 4
  MaxReorgs = 2
  MaxOldest = 2
  MaxFaults = 1
PROPERTIES
  CursorIsSafe StreamIsKeptUp LedgersStay Recovers
