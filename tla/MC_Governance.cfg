SPECIFICATION GovernanceSpec
CONSTANTS
  alice = alice
  bob = bob
  wasm1 = wasm1
  wasm2 = wasm2
  Nobody = Nobody
  TimelockId = TimelockId
  Accounts = {alice, bob}
  Deployed = wasm1
  Wasms = {wasm1, wasm2}
  Actions <- MC_Actions
  MIN_DELAY_SECONDS = 1
  MAX_DELAY_SECONDS = 2
  GRACE_PERIOD_SECONDS = 1
  MaxProposals = 2
  MaxEpoch = 1
  MaxTime = 3
INVARIANTS ReviewsAreKept
PROPERTIES ReviewedBeforeEffect
CHECK_DEADLOCK FALSE
