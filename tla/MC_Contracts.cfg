SPECIFICATION ContractsSpec
CONSTANTS
  alice = alice
  bob = bob
  issuer = issuer
  Addresses = {issuer}
  None = None
  BUCKET_SIZE_LEDGERS = 2
  HALF_LIFE_BUCKETS = 2
  MAX_DECAY_STEPS = 2
  SCALE = 16
  DisputeWindow = 1
  MaxOutcomes = 3
  MaxLedger = 7
  Parties = {alice, bob}
  Stakes <- MC_Stakes
  Balances <- MC_Balances
  disputeWindows = {1}
  Nonces = {1, 2}
  MaxChannels = 2
  MaxChannelTime = 1
  Cosigners = {alice, bob}
  RollupLeaves <- MC_RollupLeaves
  RollupBatches <- MC_RollupBatches
  Hashes <- MC_Hashes
  AuditPaths <- MC_AuditPaths
  MAX_BATCH_SIGNERS = 2
  MAX_PROOF_DEPTH = 2
  quorums = {1, 2}
  challengeSecs = {1}
  MaxSeq = 2
  MaxRollupSecs = 2
INVARIANTS ChannelsAreSafe RollupIsSound
PROPERTIES OutcomesWeighRight
CHECK_DEADLOCK FALSE
