SPECIFICATION CommitteeSpec
CONSTANTS
  issuer = issuer
  party = party
  oracle = oracle
  resolver = resolver
  r1 = r1
  r2 = r2
  r3 = r3
  None = None
  Addresses = {issuer, party, oracle, resolver, r1, r2, r3}
  Committee <- MC_Committee
  CreateParams <- MC_CommitteeParams
  MaxId = 2
  MaxTime = 2
  MaxStake = 0
  StakeAmounts = {}
  DISPUTE_WINDOW_SECONDS = 1
  ATTESTOR_VOTE_TIMEOUT_SECONDS = 1
  UNBONDING_PERIOD_SECONDS = 2
  DISPUTE_STAKE_AMOUNT = 1
  MAX_MILESTONES = 2
  BUCKET_SIZE_LEDGERS = 10
  HALF_LIFE_BUCKETS = 2
  MAX_DECAY_STEPS = 4
  SCALE = 16
SYMMETRY MC_Voters
INVARIANTS OutcomeFollowsMilestones EscrowBacksDisputes
PROPERTIES OutcomesBecomeFinal CommitteeDecides
CHECK_DEADLOCK FALSE
