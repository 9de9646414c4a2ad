SPECIFICATION ClientAppSpec
CONSTANTS
  None = None
  Slices = {s1}
  Mutations = {m1, m2, m3}
  Actors = {alice, bob}
  Me = alice
  MaxChain = 3
  maxBatchSize = 2
  batchTtlMs = 1
  challengeWindowMs = 2
  MaxCommitments = 3
  MaxRollupTime = 3
  Contents = {x, y}
  MaxLeaves = 6
  RpcNodes = {n1, n2}
  Submissions = {s1, s2}
  maxPolls = 1
  maxHealth = 1
  failurePenalty = 1
  successBonus = 1
  cooldown = 1
  txLifetime = 1
  MaxCallTime = 1
  WalletAccounts = {alice, bob}
  MaxReloads = 2
  IndexedIds = {c1, c2}
  lookbackLedgers = 1
  pageLimit = 2
  Retention = 2
  MaxLedger = 4
  MaxInterruptions = 1
  LiveIds = {c1, c2}
  MaxPublished = 3
  MaxSockets = 3
  MaxMounts = 3
  Addresses = {a1, a2}
  Filters = {all, late}
  HomeAddress = a1
  AllFilter = all
  FullPages = 2
  MaxSelections = 3
  MaxDepth = 2
  MaxAstNodes = 8
  MaxOperands = 2
  GasLimit = 16
  RuleTexts <- MC_RuleTexts
  FieldValues <- MC_FieldValues
  Patterns <- MC_Patterns
INVARIANTS CacheIsHonest SessionIsTheUsers RulesAreOneLanguage
PROPERTIES
  ClaimsCanBeProved SubmissionsAreAnswered FeedsFollowTheContract LateAnswersAreDropped
CHECK_DEADLOCK FALSE
