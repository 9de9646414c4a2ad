SPECIFICATION FairSpec
CONSTANTS
  issuer = issuer
  party = party
  oracle = oracle
  resolver = resolver
  r1 = r1
  r2 = r2
  r3 = r3
  None = None
  Addresses = {issuer, party, resolver}
  Committee <- MC_Single
  CreateParams <- MC_EntryPointParams
  MaxId = 1
  MaxTime = 1
  MaxStake = 1
  StakeAmounts = {1}
  DISPUTE_WINDOW_SECONDS = 1
  ATTESTOR_VOTE_TIMEOUT_SECONDS = 0
  UNBONDING_PERIOD_SECONDS = 1
  DISPUTE_STAKE_AMOUNT = 1
  MAX_MILESTONES = 1
  BUCKET_SIZE_LEDGERS = 10
  HALF_LIFE_BUCKETS = 2
  MAX_DECAY_STEPS = 4
  SCALE = 16
INVARIANTS ReputationIsSound
PROPERTIES ImplementsLedger PanelDisputesEnd
