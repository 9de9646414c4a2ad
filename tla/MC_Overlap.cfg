SPECIFICATION PanelSpec
CONSTANTS
  issuer = issuer
  party = party
  oracle = oracle
  resolver = resolver
  r1 = r1
  r2 = r2
  r3 = r3
  None = None
  Addresses = {issuer, party, oracle, resolver, r1, r2, r3}
  Committee <- MC_Single
  CreateParams <- MC_OverlapParams
  MaxId = 2
  MaxTime = 1
  MaxStake = 25
  StakeAmounts = {20}
  DISPUTE_WINDOW_SECONDS = 1
  ATTESTOR_VOTE_TIMEOUT_SECONDS = 1
  UNBONDING_PERIOD_SECONDS = 1
  DISPUTE_STAKE_AMOUNT = 1
  MAX_MILESTONES = 2
  BUCKET_SIZE_LEDGERS = 10
  HALF_LIFE_BUCKETS = 2
  MAX_DECAY_STEPS = 4
  SCALE = 16
INVARIANT VotersStayLocked
CHECK_DEADLOCK FALSE
