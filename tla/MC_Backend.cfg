SPECIFICATION BackendSpec
CONSTANTS
  None = None
  ScoredAccounts = {a1, a2}
  BatchCalls = {c1, c2}
  maxBatchSize = 2
  MaxScores = 2
  MaxFailures = 1
  OracleSubmissions = {s1, s2}
  MaxNonce = 2
  MaxLedgerState = 2
  MaxRestarts = 1
  ProvenAddresses = {1, 2, 3}
  Scores = {50, 60}
  DefaultScore = 50
  TargetLists <- MC_TargetLists
  MaxBatches = 2
  MaxChanges = 1
  Jobs = {j1, j2}
  Passes = {p1, p2}
  maxAttempts = 2
  baseDelayMs = 1
  MaxClock = 3
  addresses <- MC_Addresses
  bumpConcurrency = 1
  ttlRefreshThresholdLedgers = 1
  TTL_EXTEND_LEDGERS = 3
  MaxLedgerSeq = 3
  CachedAddresses = {a}
  Readers = {r1, r2}
  ttlSeconds = 1
  MaxRow = 2
  MaxCacheTime = 1
  Clients = {c1, c2}
  windowMs = 2
  maxRequests = 4
  Mounted = 2
  SweepInterval = 2
  MaxRateTime = 3
  maxRetries = 2
  DueAt = 1
  MaxOracleTime = 2
  MaxTrouble = 5
INVARIANTS ProposalsAreDefensible BatchesAreSound
PROPERTIES
  ScoresArrive JobsAreSettledOnce EntriesAreKeptAlive VerdictsAreFounded RequestsAreServed
CHECK_DEADLOCK FALSE
