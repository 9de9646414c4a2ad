# Pactum in TLA+

A verification project for Pactum: the commitment registry and its governance on
Soroban, the indexers, relayers and workers behind them, and the clients in front of
them. It holds TLA+ modules translated from the source, TLC configurations that check
them on small instances, and proofs that TLAPS checks for every value of the
constants. `PROJECT.json` maps every definition to the lines it stands for and
lists the components, the runs, the mutants that show each property can fail, the
hazards and the theorems.

## 1. The system

### Components, their state, and how they interact

| Component | State | Operations | Interacts with |
|---|---|---|---|
| Registry: commitments (`commitments.rs`, `attestation.rs`, `disputes.rs`, `lib.rs`) | commitments by id, id counter, arbitrators, committee votes, dispute stakes, pause flag | create, batch create, attest, dispute, resolve, pause | calls reputation, trust score, staking; token contracts |
| Registry: panel and vault (`voting.rs`, `staking.rs`, `economics/`) | stakes, vote records, tallies, the vault's balance | stake, request and finalize unstake, vote, time out | commitments, reputation |
| Registry: reputation (`reputation.rs`, `upgrade.rs`) | V1 and V2 rows, schema version | update, read, migrate, migrate a batch | called by every handler that changes an outcome; read by integrators |
| Registry: trust score (`trust_score.rs`) | decayed history per issuer | update, score | called beside reputation |
| Registry: batch roots (`rollup.rs`) | roots by sequence, forced leaves | submit a root, force a leaf in | clients' rollups |
| Timelock and governance (`contracts/timelock`, `upgrade.rs`) | roles, delay, epoch, proposals; upgrade admin, executable | queue, cancel, execute, rotate, set delay; upgrade | the timelock calls the registry |
| State channel (`contracts/state_channel`) | channels, collateral | open, exit, challenge, settle | tokens, a ruleset contract |
| Event stream indexer (`backend/src/indexer`) | persisted cursor, open stream, reconnect timer | start, stop, handle, reconnect | Horizon, database |
| Finality indexer (`backend/src/indexer`, `workers/indexer.ts`) | indexed ledgers, checkpoint | sync: verify, roll back, append, run the commit hook | Soroban RPC, database, other workers |
| Proof batching engine (`backend/src/relayer`) | buffered scores in memory and on disk | enqueue, flush, restore | HTTP handlers, timer, generator |
| State proofs (`backend/src/relayer`, SDK verifier) | known scores | generate and verify a batch | engine, integrators |
| Cross-chain relayer (`workers/crossChainRelayer.ts`) | nonce, stored batches | submit, defend | oracle on another chain |
| Webhooks, TTL monitor, oracle worker | job queue, dead letters; scan flag; due commitments | deliver, scan and bump, check and attest | receivers, contract, monitoring service |
| API cache and limiter | cached rows, loads under way, request times | get, invalidate, admit | database, projector |
| Client: optimistic cache and rollup, contract calls, wallet, feeds, dashboard | slices, mutations, batches, node health, session, index, rows | mutate, seal, submit, connect, poll, load | nodes, wallets, backend |
| Client: offline store, tabs, peer sync, causal history, gossip | Yjs documents, sessions, graphs, overlays, scores | edit, merge, exchange, gossip, heal | other tabs and browsers |
| Validation rules (`lib/ast`, `contracts/validation`) | a rule set and a form | compile, serialise, evaluate | wizard forms |
| Fraud verifier, EVM oracles, fee oracle, encrypted reputation, UI, SDK, CLI, circuits | see section 5 | | |

What is hard in it:

* **Order between transactions.** Every contract call is atomic (the host rolls a
  panic back and a reentrancy guard is held from the first to the last statement),
  but issuers, oracles, arbitrators, attestors and administrators call in any
  order, time passes in between, and one outcome is recorded in four places
  (record, reputation row, trust history, stakes).
* **Time.** The dispute window, the voting window, the unbonding period, the
  challenge window of a channel, and review delay and grace period of a proposal meet
  each other at their boundaries.
* **Migration.** Reputation rows move from one schema to another while they are
  being written.
* **Money.** Stakes are locked, slashed, withdrawn; dispute stakes and collateral
  are escrowed and must come out again.
* **Awaits, crashes and retries** off the chain: records handled concurrently,
  queues persisted around awaits, nonces read before and used after them, answers
  that come after the question was dropped, transactions that were applied though
  nobody heard of it.
* **Replication** between tabs and browsers: messages overtake each other, are
  repeated or lost with their connection, and every replica merges in its own order.

What makes the parts correct, in a word: reputation equals what the commitments
say; outcomes become final; only a majority, a threshold of panel votes or an
expired window settles a dispute; who votes has something to lose until the
dispute ends; tokens held cover tokens owed; governance changes only what was
reviewed; no record, score, job or submission is lost or done twice but in the ways
named; a page shows what the chain says; replicas that heard everything agree.

## 2. Modules

### Contracts

```
TrustScore --- Reputation --- RegistryState -- Commitments -- Disputes -- Registry
     |                                                                       |
 TrustDecay                           OutcomeLedger (abstract) <-- RegistryRefinement
Timelock -- Governance      MerkleTree -- RollupRoots      StateChannel
```

* **Reputation**: `repV1`, `repV2`, `schemaVersion`. `UpdateReputation` is
  `update_reputation` with its lazy migration, `MigrateRows` the batch,
  `SwitchSchema` the schema half of `upgrade`, `ReputationView` is
  `get_reputation`.
* **TrustScore**: outcomes and counters, and the arithmetic of `trust_score.rs` as
  operators, with bucket size, half-life and scale as constants. **TrustDecay** drives it over a long run of
  attestations, disputes and settlements and remembers, beside the contract's two
  numbers, the outcomes they stand for.
* **RegistryState**: the contract's storage, one variable per kind of entry, and
  `RecordOutcome`, the pair of calls every scoring handler makes.
* **Commitments** (with attestation) and **Disputes** (with staking and voting): one
  action per entry point, its guard every check that would panic. Authorisation is a
  parameter: an action takes its caller, and a caller acts only as itself.
* **Registry**: the composition (`Next`: anybody, any entry point, any order) and
  its properties.
* **OutcomeLedger**: what the registry promises its readers: absent, pending,
  standing, contested, final, and the reputation moving with it. **RegistryRefinement**
  maps the registry to it: the life of a commitment is read off its record and the
  clock, the reputation through `get_reputation`. It also states the properties about
  sums of tokens.
* **Timelock, Governance**: the timelock's queue and the registry's upgrade
  authority that it holds. `ExecuteProposal` is `execute` with the call it
  dispatches: a panic of the registry reverts the execution, so it is a guard.
* **MerkleTree**: layers, proofs and verification of the trees that the relayer, the
  SDK, the client and `rollup.rs` hold one copy each of. A hash is the term that was
  hashed: equal only when the terms are, which is what the properties need of it.
* **RollupRoots**: `submit_batch_root` and the two forced inclusions, with any hash and
  any path: the contract does not tell the hash of a leaf from that of two nodes.
  `signedBy` remembers who cosigned each root.
* **StateChannel**: every entry point of the channel contract, with the tokens it
  holds. The ruleset's verdict is a choice. Amounts and balances are integers, negative
  ones too: the contract checks the sum of a submitted state and no sign (`lib.rs:202`),
  and transfers only what is positive. `submitted` remembers the accepted states.

### Backend

Every program is one event loop, so **an action is the code from one await or
callback to the next**; a call that is suspended is a record that says what it awaits
and what it holds. An await may end in an answer or an error.

* **EventStream**: `HorizonSSEIndexer` and its cursor. `connect()` is
  `Start` or `ReconnectTimer` (up to the await of the cursor), `ReadCursor` (the
  read itself) and `OpenStream` (the rest); `handleMessage` is `Deliver`,
  `EventHandled` or `EventFails`, `SaveCursor`. `conn` holds one entry per call of
  `connect()` in progress and per stream it opened, because `stopStream`
  (`current`) only remembers the last one; `timer` is the timer `reconnectTimer`
  holds, `loose` counts those it has forgotten. A crash loses all but the cursor.
  `delivered` and `handled` are history: what a handler was started for, what one
  completed.
* **LedgerIndexer**: `FinalityIndexer.sync()`, with each worker's locals in a
  record whose `pc` is the await it has reached; the transactions of
  `PostgresIndexerStore`, atomic under its advisory lock; the loop of
  `workers/indexer.ts` with its computation of the start sequence; and a source
  that closes ledgers, reorganises, falls back and forgets between any two reads.
  The hash of a ledger is the sequence of branches below it, so that two ledgers
  have the same hash exactly when their whole histories agree. An exception at any
  await is `SyncFails`, an exit of the process `Restart`. `committed` remembers for which
  hashes the commit hook has run to its end.
* **Relayer**: first `ProofBatchEngine`, `DurableProofQueue` and `RelayerService`
  (`items` the queue in memory, `file` and `tmp` on disk, `batchCall` the calls under
  way); then `CrossChainRelayer` (`submitBatch`, `handleChallengedBatch`) with the
  nonce, the stored payloads and the oracle's view. `mishaps` remembers which of the
  known ways to lose a score has happened, so that the property shows there is no other.
* **StateProofs**: `StateProofGenerator` makes batches, a carrier may change a score
  or put a batch together from entries of several, and both verifiers look at it.
* **BackendWorkers**: `WebhookWorker` with the dead letter table; `TtlMonitor` with
  its cron; the oracle worker with `SorobanClient.attest`.
* **ApiServices**: `ReputationCache` under the projector's invalidations; the sliding
  window limiter, mounted as often as `index.ts` mounts it. A list of timestamps is kept
  as how many there are of each time, which is all that the limiter looks at: the list is
  in order, since each is pushed as of now.

### Client

* **OptimisticCache**: `OptimisticEngine`: mutations with what each of them found
  and guessed, chain events, roll-backs.
* **OptimisticRollup**: the engine that buffers, batches, submits and forces
  micro-commitments in; and `MerkleAccumulator` with its cached paths. A record has its
  leaf and its path, and every new leaf gives all records those of the open tree at
  their index (`Refreshed`), as `applyInOrder` does, whatever batch they belong to.
* **ContractCalls**: reading the sequence number, simulation, signature, submission
  and polling, each through the pool's loop over its nodes with their health.
* **WalletSession**: the wallet context with what it persists, the
  modal's choice and the social login.
* **ClientFeeds**: the local indexer's poll over a window of events; the web socket
  client and the store; the dashboard's effects and the answers they wait for. The
  contract emits five kinds of events (`ContractEvents`), of which the index parses three
  (`ParsedTypes`): a poll skips the settlements by a panel and by the timeout (`SkipEvent`).
* **ValidationRules**: `Eval`-style operators for both engines over one set of
  values; the byte form; the guard against repetitions in repetitions. A rule tree is
  small by the limits, so the operators are recursive and this module holds no theorem.
* **PeerSync**: discovery through the signalling room, and the signed session of two
  documents. **OfflineStore**: the Yjs map of every tab beside its query cache, which any
  event of the query merges back, and the exchange over a BroadcastChannel beside
  IndexedDB. An answer to a step 1 is sent without the type that every other message
  begins with (`broadcastchannel.ts:109`), so `Receive` takes it off the channel and
  nothing else: what was broadcast before a tab connected reaches it by `Load`, from
  IndexedDB, or not at all. **MerkleDAG**: the graph of deltas and the
  session that heals it. **MeshGossip**: WebRTC links, Plumtree overlays and scores.

**EventLoop** declares what these modules share. **MC_\***: small instances; a module
whose programs share no state runs one of them in each behaviour (`program`), so that
one run checks them all without multiplying their states. **RegistryProofs,
DisputeProofs, ContractProofs, IndexerProofs, BackendProofs, ClientProofs,
HistoryProofs**: theorems about them. **DataTheorems**: theorems about sums over finite
sets and about Merkle trees, which the others cite.

A definition `X_Bug` is `X` with a plausible bug; each property of a passing run
must fail when such a definition replaces the original. A property of a run is
often the conjunction of named parts, each stated and explained where it is defined.

### Abstractions

* Tokens are integers; a transfer that the code makes is a change of a balance the
  contract holds. Transfers of a standard token either
  happen or panic, so a failed one is a transaction that did not happen.
* Storage lives for ever in the contract modules: archival and restoring are left
  out; the TTL monitor has a model of its own.
* Events, names, hashes and schema ids of commitments are left out.
* The panel is a vector in the code. Every loop over it is idempotent per member,
  so a set of members and the length (`slots`) keep all that it decides.
* u32 and u64 saturation at the maximum is out of reach of any run and left out;
  saturation at zero is kept, because it can hide a double retraction.
* Back-off delays of reconnects are left out: an armed timer may fire at any time.
  Records are their paging tokens; Horizon delivers them in order after the cursor.
* A ledger's events and what the commit hook writes with them are left out; the
  hook either runs to its end or fails. The in-memory store of the tests is not
  modelled, the PostgreSQL one is.
* A failed read of the source and an await that rejects after its transaction was
  committed are both `SyncFails`: from each of its awaits `sync()` leaves in the
  same way.
* The four legacy layouts of a commitment and the legacy single arbitrator are left
  out: the modelled contract starts on the current layout.
* Hashes and signatures are free constructors: nobody forges one, and a changed term
  has another one. A batch is made of hashes of records and never of inner nodes:
  `encoder.ts` builds it so, and of the roots that are posted to `rollup.rs` it is assumed
  (`RollupAssumption`), since the contract takes any 32 bytes as a root. Of what is forced
  in nothing is assumed.
* A Yjs document is known by what its map shows; of concurrent writes to a key the
  one of the greater client wins, whatever the order they arrive in.
* Time is a counter that the actions compare; a delay that nothing is compared with
  is left out. Jitter is left out.
* Addresses, scores, payloads and texts are members of small sets, chosen so that
  every comparison the code makes has both outcomes.

## 3. Runs

| Run | Instance | Shows |
|---|---|---|
| `entry_points` | all entry points from deployment, one commitment (single milestone, one arbitrator; or a panel that lists its member twice) | the storage is well typed, `get_reputation` exact and rows live under one schema, whenever it is switched or migrated (`ReputationIsSound`); the registry implements the outcome ledger; every panel dispute ends |
| `committee` | two commitments, registered one by one or as a batch, of two milestones with a resolver and of one with a committee of three | outcome follows milestones, finality, strict majority, escrow backs disputes |
| `panel` | one two-of-three panel, stakes 5 and 20, two clock ticks past the window | tally and locks (`BallotsCount`), who decides, who is slashed and that the vault is never short (`StakesAreSafe`) |
| `governance` | two accounts, two proposals of five actions, one rotation, four ticks | only reviewed changes take effect; proposals keep their review windows and hold (`ReviewsAreKept`) |
| `contracts` | trust: three outcomes, four buckets, half-life of two buckets; channels: two of two parties, two nonces, stakes and balances of either sign; roots: two batches, quorums of one and two, and a leaf, a stranger and an inner node forced in | retraction is exact, weights are bounded by what they stand for, the score moves the way of the outcome written (`OutcomesWeighRight`); the contract pays only what it holds, a channel without a negative balance pays out what was locked in it, once and whole, and the highest nonce stands (`ChannelsAreSafe`); a root has its quorum, and a hash is forced in once, by a proof only if it is in a tree that was posted, as a leaf unless it is an inner node (`RollupIsSound`) |
| `indexer_workers` | two workers, four ledgers, one reorganisation, one fault, start from the checkpoint | the store is a linked chain up to the checkpoint; it holds final ledgers only as long as the source keeps them |
| `indexers` | stream: two records, two connections, two faults, one reconnect in a row, starts and stops at any time; ledgers: one worker with a configured start, four ledgers, two reorganisations, a retention window that moves, one fault | the cursor names handled records only and skips none (`CursorIsSafe`); a stopped indexer does not reconnect, another one delivers everything unless the reconnect budget is spent (`StreamIsKeptUp`); the worker gives no final ledger up, rolls back no further than it must and refreshes every ledger before it advances (`LedgersStay`), and catches up with the source |
| `backend` | eight programs, one per behaviour: two calls of the batching engine with a failure or crash; two submissions and a restart of the cross-chain relayer; two batches over three addresses; two jobs and two passes; two addresses, one bump at a time; one address and two readers; two clients of a limiter mounted twice; one due commitment and five failures | no score is lost but in five named ways; what the oracle holds can be defended; what is accepted was proved; a job is settled once; every scan is complete and the next one follows; a breach is established and a due commitment attested; requests are answered, by rows no older than the last invalidation but in one named race, and the limiter's window is exact |
| `client_sync` | nine programs: two sessions with a reconnection; three providers; three tabs, one of their messages unread at a time; two tabs of the store; histories of four nodes; two authors; three gossipers with a disconnection; three browsers with room for one link; one rated neighbour over six minutes | peers that are quiet agree, and those that are in one room meet; a tab shows its store and keeps its edits; common ancestors are common and no honest delta is quarantined; every link is used, each message delivered once; a ban lasts its term |
| `client_app` | ten programs: three mutations of a slice; three commitments in batches of two; a tree of six leaves; two submissions over two nodes; two accounts and two reloads; an index over a window of two ledgers; a feed of three events over three sockets; a dashboard with two accounts and two filters; 2,400 rules and a few hundred patterns against seven kinds of values | the cache is honest; claims can be proved and are final only if accepted; submissions end, and one that was refused had no effect; a record keeps its path until a later batch takes its index; the session is the user's; both engines agree on every rule; the index catches up, but with what panels settle; the feed never ages; late answers are dropped |

Two more runs each show a statement of the repository's documentation or comments
that the code does not keep (section 6).

**Bounds.** `MaxId`, `MaxTime`, `MaxStake` in the registry, `MaxOutcomes`,
`MaxLedger` in `TrustDecay`, `MaxProposals`, `MaxEpoch`, `MaxTime` in `Timelock`
bound what would grow for ever; each is a guard of the action that would exceed it.
Windows are one tick, so a clock of two or three ticks reaches before, at and
after every deadline. Stakes of 5 and 20 give a slash cut of zero, two and more. Three
arbitrators make the majority differ from half, two of three panel members leave
one dissenter. `MaxRecord`, `MaxInFlight`, `Connections` and `MaxStreamFaults` bound the
event stream: two connections and two records are the least that overlap, overtake
and are closed in the wrong order. `MaxHeight`, `MaxReorgs`, `MaxOldest` and
`MaxFaults` bound the finality indexer: with a finality depth of one and a batch of
two, three or four ledgers hold a full batch, a fork below the checkpoint and one
below the search floor. One rotation and two proposals give a stale and a fresh proposal
at once. In the off-chain modules the bounded constants are declared with the word
"bound": they count what the environment does (updates, failures, restarts,
reconnections, clock ticks), the calls in progress at a time, and the members of the
sets above. Two calls in progress are the least that overlap; where a third party
changes the matter (a tab that skips a colliding message, a neighbour that is not the
sender, a browser without room) there are three. A bound on failures lets each kind
fail at each await, once or twice in a behaviour. Theorems lift what they cover to
every value of these constants.

Deadlock is checked where the system can always move: `entry_points`, whose clock
stops but whose administrators do not, and the indexers, which poll for
ever. The other instances end at the last tick, message or call with nothing left to
do.

**Symmetry** is used for arbitrators, panel members and the browser tabs that no other
part of the instance tells apart, in runs without liveness (`client_sync` checks safety
and action properties only).

**Fairness.** `entry_points` assumes that the clock advances and, for each commitment,
that `check_dispute_timeout` is eventually called while it can be. It is a
permissionless entry point, so any interested party can make it true; no process
in the repository is required to, and the property says nothing without one.
Nothing is assumed of voters, parties and administrators. Off the chain fairness is
weak and of two kinds only: a call that is awaited ends, in an answer or an error, and a
timer that the program arms fires. So `indexers` assumes that reads, handlers and saves
settle, that an open stream delivers what is published, and that the network goes
on closing ledgers; its reorganisations and faults are finite by their bounds, which
is what "once the source settles" means. `backend` assumes that the engine's writes,
renames and deliveries settle and its timer ticks; that scans, their reads and
their bumps end and the cron fires again; that loads end; that the oracle's interval
and its calls go on. `client_app` assumes that nodes answer or time out,
that the worker's interval and the awaits of a poll go on, and that the socket's
reconnection timer fires. Nothing is assumed of users, errors and crashes.

## 4. Proofs

The proofs assume only the named assumptions on constants, in the modules that declare
them (`NoneAssumption`, `NoneIsNoRow`, `NoneIsNoHistory`, `TrustScoreAssumption`,
`DecayAssumption`, `RegistryAssumption`,
`AddressesAssumption`, `TimelockAssumption`, `DeployedAssumption`, `ChannelAssumption`,
`RollupAssumption`, `EventStreamAssumption`, `IndexerAssumption`, `RelayerAssumption`,
`ProofsAssumption`, `OptimisticAssumption`, `WalletAssumption`, `PeerAssumption`,
`DiscoveryAssumption`, `MeshAssumption`, `ScoringAssumption`, `ProofBatchingAssumption`,
`WebhookAssumption`, `TtlAssumption`, `OracleAssumption`, `CacheAssumption`, `RateAssumption`,
`OfflineAssumption`, `LocalAssumption`, `LiveAssumption`, `DashboardAssumption`, `CallsAssumption`,
`DagAssumption`, `DagSessionAssumption`): bounds are
numbers, `None` is no value, the accounts a sum runs over and the tabs of a mesh are finite, a link has two
ends, identifiers of peers are numbers (compared as the code compares its strings), amounts
are integers, the leaves of a posted batch are no inner nodes. TLC evaluates each of them in a run.

* `RegistryProofs`: `TypeCorrect`; `OutcomesFollowMilestones`, whose inductive
  invariant `LifeInv` adds to types that ids are fresh and that each record
  `Follows` its milestones; `SettledOutcomesAreFinal`, from the same invariant
  (a settled record has no attestation time, so neither a dispute nor an
  attestation is enabled on it); `ReputationIsExact` and
  `MigrationKeepsRowsConsistent`. The invariant `ReputationInv` needs the exactness of
  the *view* together with the consistency of rows: exactness alone is not inductive,
  because an address with rows under both schemas would show one and update the other.
  Each scoring step moves one id in or out of the set of commitments standing at an
  outcome, and the cardinality lemmas say what that does to the count.
  `ReputationStaysSound` is what the run `entry_points` checks.
* `DisputeProofs`: who decides, what is at stake, where the tokens are, and what a reader
  sees of it all.
  - `TallyIsExact`, `PanelsDecide`, `CommitteesDecide`: from types, fresh ids, and that a
    commitment has a panel exactly when it has a threshold (`DisputeInv`). A ballot is cast
    once, so a tally moves with the set of those who cast it.
  - `BallotsAlwaysCount` and `StakesStaySafe` hold under `[]PanelsAreDisjoint`: no
    attestor sits on the panels of two open disputes. The code does not enforce it, and
    without it a voter can be unlocked too early: `overlapping_panels` is the
    counterexample. With it, the `set_locked` at the end of a dispute only frees voters of
    that dispute.
  - `ForfeitsStayInTheVault` and `EscrowAlwaysBacksDisputes` are about sums over all
    accounts and over all commitments. A step changes one summand, or cuts those of all
    dissenters; `SumUpdate` and `SumMonotone` say what that does to the sum. Escrow needs
    in its invariant that a dispute stake is recorded for disputes only.
  - `LedgerIsImplemented`: the registry implements `OutcomeLedger` under the mapping of
    `RegistryRefinement`. Lemma by lemma each entry point is an action of the ledger or
    leaves alone what it shows; that the reputation shown moves as the ledger's counters
    do rests on `ReputationInv`, which makes both schemas show the same.
* `ContractProofs`: `ChannelsStaySafe`, by an invariant that says of each channel, beside
  types and what is left of it, that the states submitted to it agree on each nonce and
  that it stands at the greatest. What a channel pays is what is positive of its balances,
  so one without a negative balance pays their sum, which no submitted state changes. A
  transfer of more than the contract holds fails, and its call with it: with signed balances
  nothing else keeps `held` from falling below zero. `RollupStaysSound`: a hash forced in with a proof is a node of a posted tree by
  `MerkleNodes`, and a leaf by `MerkleSoundness` if it is not the hash of two nodes. And
  `OutcomesStayWeighed`. A history holds, decay aside, at
  most a whole unit for each outcome that counts, and at least one for each that may still
  be disputed (`DecayInv`). Decay only takes (`DecayTakes`), folding keeps what a history is
  worth at that moment (`FoldingKeeps`), and before the first half-life is over, which
  outlasts the dispute window by `DecayAssumption`, nothing is taken at all (`FreshIsWhole`):
  so a retraction finds a whole unit, in the counts or in the aggregate.
  Of governance: types, `ProposalsAreTimed`, `ExecutedUpgradesHold` (together
  `ReviewsAreAlwaysKept`), `ProposalsAreOneWay`, `ReviewedBeforeEffect`. `GovernanceInv`
  joins them: the reviewed-change property needs that a proposal of the current epoch is
  the present admin's, which is part of `ProposalsAreTimed`.
* `IndexerProofs`, event stream: `CursorIsAlwaysHandled`, and `NothingIsSkipped` for
  behaviours without a stop; `CursorStaysSafe` joins them. The latter's invariant says
  of every stream, and of every read of the cursor under way, that all records up to
  its position were delivered: the cursor alone says nothing of the streams that will
  move it.
* `IndexerProofs`, finality indexer: `IndexerIsTyped` and `StoreStaysLinked`, together
  `StoreStaysSound`, for any number of workers and a source that reorganises as often and
  as deep as it likes. `Place` is what a worker may hold at each await; every step of
  `sync()` leads from one to another (`SyncAdvances`), so that the store only has to be
  followed through `AppendLedger` and `RollbackTo`. Linkage needs nothing of what a worker
  has read but its type: the two transactions check everything else again.
  `StoreStaysFinal` needs more: what a worker read and planned, with however old a view of
  the source, is final (`HoldsFinal`), and stays so while the source keeps its word.
  `LedgersOfOneStay`: of one worker with a configured start; with several workers, or
  without a start, it fails (section 6). A lone worker holds the checkpoint that is in
  the store at every await (`Follows`), so what it appends is above it and it erases only
  by a rollback. While the source keeps its final ledgers a search can only begin when the
  checkpoint is forgotten, and then finds nothing to compare with (`LeavesFinal`); where
  the source reorganises once, whatever the search has passed is missing, forgotten or
  replaced (`Passes`, by `Gone`: of what was never reorganised the source has nothing
  else); and a full rollback erases nothing below the start because nothing was ever
  appended there (`RowsInv`). The hook of the checkpoint has run unless the worker is
  about to run it (`Refreshed`), also when a rollback makes an older ledger the checkpoint.
* `BackendProofs`: `ProposalsStayDefensible`. As long as no two submissions ran at once, one
  that holds a nonce holds the current one, which the oracle has never seen, and has its
  batch stored there (`Undisturbed`). `BatchesStaySound`, for batches of any length: what
  `collectSortedEntries` gives is sorted, each address once (`EntriesAreSorted`, by the
  ranks of the addresses), so every batch is made over the tree of its own entries
  (`BatchShape`); it verifies by `MerkleCompleteness`; the path of an accepted entry leads
  to a leaf of the trusted tree by `MerkleSoundness`; and the root that the backend
  reconstructs turns this around, so that no entry is missing.
  The queue of scores: `ScoresAreKept`. Before the first mishap one call at most persists,
  what it writes is the queue, a batch is held from its drain to its delivery or is the
  queue again, and the file is the queue whenever nobody persists (`Orderly`): this is why
  a restart that interrupts nothing loses nothing. The workers: `JobsSettleOnce`, by one
  pass at a time whose jobs stay in the queue until it is done with them, and by retries
  that wait out their back-off (`HooksInv`); `ScansStayComplete`, by where each address
  near expiry is: waiting, being bumped, or at one of the two ends, no more of them being
  bumped than the pool has workers (`TtlInv`); `BreachesAreEstablished`; and `CacheIsFresh`, by what a load
  under way has read: the row, unless its key is being deleted or was (`CacheInv`).
  `LimitsAreKept`: of the present window the store has every request that was served, once
  for each mount (`RateInv`); the sweep takes away what is in no window any more; what is
  left of a limit divisible by the mounts holds whole requests, so that a request passes
  every mount or is stopped by the first (`AdmittedWhole`).
* `ClientProofs`: seven modules of the client for any numbers of slices, mutations,
  accounts, reloads, peers, messages, neighbours, tabs, edits, filters, pages and submissions. `CacheStaysHonest`: what a mutation in flight would
  put back is part of the invariant (`NewestInv`), because a roll-back shows it later;
  for failed guesses a second one follows which mutations were ever together on a slice.
  `SessionStaysTheUsers`: `WalletInv` says that a restore and a connection never
  meet unless the user was hasty (`Apart`), and that a disconnection leaves nothing
  pending. `BansLast`: from the invariant that flags follow the score, which is what makes
  the checks on a flag checks on the score. `PeersConverge`: an update one peer lacks is in
  a frame on its way to it, or a step 1 on its way to the other will ask for it, and no
  frame says more than its sender's document (`PeerInv`). `ProvidersMeet`: how far the two
  ends of a pair are, and which message of the other each has still to read, determine each
  other (`Negotiates`), and nobody knows of a provider before its signature is there
  (`Stranger`). `TabsAreMet`: the same for the mesh (`EntriesGoTogether`); that two tabs
  never offer to each other needs only the order of identifiers. `GossipReachesOnce`: what
  was not seen was not delivered, and the two overlays of a peer are disjoint; a step that
  moves a neighbour between them never takes it out of both (`MovesKeepOverlays`).
  `PeersAlwaysMeet` and `MeshStaysSound` join these.
  `TabsStayInStep`: an entry that the store holds without a pending edit changes in every
  merge, so a query that is shown without being read from the store can hide no edit
  (`OffInv`); and an update that one tab has and another, which has loaded IndexedDB, lacks
  is in a channel to it, unless that tab skipped it or it was made in a tab that had not
  loaded: what a loaded tab has is in IndexedDB, and what was there when the other one
  loaded it has read (`TabInv`). `AnswersFitTheSelection`: every request under way is
  about the present selection or was aborted, and what the callback of the observer has
  captured is the present selection (`DashInv`). `RefusalsHaveNoEffect`: until an attempt to
  send goes unanswered, the network does not know a transaction that was not accepted
  (`CallsInv`).
* `HistoryProofs`: `HistoryStaysSound`. Parents are older than their children and what
  is not a tip has a child (`DagInv`), so the newest node the tips do not lead to would
  have a newer one. A turn of the search keeps its halves within any two closed sets
  (`TurnStays`), so what it finds is in every closed set around either node. What is
  missing of an author is missing until it comes late, and nothing is ever missing of the
  peer's own deltas, whose numbers run from one to their count (`HealInv`).
  `IndexStaysCurrent`: the events after the last one that the rows have seen bring every row
  to where the contract is (`Follows`). The history tells what a row is by the last event
  that settles it and whether it was disputed since (`Lawful`), which makes a row that was
  read ahead follow too, lets a poll that breaks off go back to its cursor
  (`FollowsFromBefore`), and needs no induction over the history: that `RowAfter` is
  defined and how it goes on with a ledger is part of the invariant (`RowsGoOn`). Each
  commitment is disputed once at most, so an event that the parser drops is the last of its
  commitment, whose row stays as the dispute left it (`SkippingKeepsIndex`).
  `StoreNeverGoesBack`: ledgers are published in order, and what the store shows comes from
  no ledger after the one processed last (`LiveInv`).
  `ClaimsAreKept`: a record names a place in the leaves of its batch, and the leaf there names
  the record (`Covers`), so a root has as many leaves as its batch has records. A batch that
  is sealed takes its leaves along (`SealKeeps`), and a submission or a pass of forced
  inclusions changes nothing but statuses (`OnlyStatus`), or puts back what the pass had
  listed. What a record proves (`RecordsProveTheirs`) follows from the leaves that the open
  tree had when its leaf and path were last written. The cached paths are those of the
  present leaves (`TreeInv`), and `MerkleCompleteness` says where these lead.
* `DataTheorems`: `SumFunctionOnSet` and the operators of `MerkleTree` are recursive
  functions, and the library's induction theorems take an operator as a parameter, which
  the installed provers cannot instantiate. Each statement is shown from a least
  counterexample instead (`LeastExists`, `SmallestSubset`), and that a function keeps to its
  recursive definition from the existence of one up to every bound (`SumsExist`,
  `LayersExist`, `ClimbsExist`, `AscentsExist`, and `RunExists` of `HistoryProofs`).
  `MerkleNodes` goes down tree and path from the root together, and `MerkleSoundness` is
  its case of a leaf; `MerkleCompleteness` climbs both.

Only model-checked, and why:

* Liveness (`PanelDisputesEnd`, `StreamIsKeptUp`, `Recovers` and the live parts of the
  off-chain properties): fairness and ENABLED are out of TLAPS's reach.
* `RulesAreOneLanguage`: its operators are recursive (RECURSIVE), over rules.

## 5. Not modelled, and why

`PROJECT.json` lists every component with its status. In short:

* Cryptography (Paillier, bulletproofs, circuits, the SCP certificate of a header, the
  fraud verifier's proofs) has no state a model checker can explore.
* The EVM oracles are the other side of the cross-chain relayer, which is modelled by
  the calls it makes.
* The fee oracle is arithmetic on wide numbers without interaction.
* Request handlers, UI, SDK and CLI are I/O over the modelled parts; the wizard and
  dashboard remotes repeat files of the frontend.
* Periodic aggregation (analytics, snapshots) is SQL.
* Anti-entropy of the mesh: the transport never dispatches its requests
  (`webrtcTransport.ts`), so the exchange does not run.
* Within modelled parts: legacy commitment layouts and archival; single state
  proofs, which are trees of one leaf; caps above every bound of a run
  (`MAX_BATCH_SIGNERS`, `MAX_PROOF_DEPTH`); the overflow of a channel's window, which
  traps; the submission of a new commitment in `lib/soroban.ts`, which repeats the
  sequence of `ContractCalls` with one more read; dates, number parsing and templates
  of the rules; reactions of the healer to dishonest authors.

## 6. Where code and documentation disagree

Each of these has a run whose counterexample shows it:

* `overlapping_panels`: one lock per attestor serves all disputes, so settling one
  frees a voter of another to withdraw before that one is settled.
* `stream_lost`: handlers of several records run at once, so the cursor passes a
  record whose handler failed, and no reconnect delivers it again.

Seen while modelling, and reachable in the same modules, but without a run of
their own. In the contracts:

* Writes more frequent than the half-life of `trust_score.rs:70` stop all decay: the
  epoch moves with each of them and drops the remainder (`trust_score.rs:200`). In the
  `contracts` run two attestations one bucket apart reach it.
* The dispute stake of a panel-governed commitment stays in the contract for ever:
  `persist_outcome` (`voting.rs`) never releases it (`disputes.rs:258` says that
  settling does).
* Panel voting and its timeout go on while the protocol is paused (`lib.rs:276`
  says that a pause halts every state-mutating entry point).
* Scores fall as fulfilled outcomes decay (`trust_score.rs:45` says that they never
  fall with time alone).
* A channel's contract checks the sum of a submitted state's balances and no sign
  (`state_channel/src/lib.rs:202`), and `open_channel` refuses only when neither amount is
  positive (108). A state of -5 and all of the collateral plus 5 is accepted, and closing
  it transfers the latter (326, 360-374): more than was locked, from what the other
  channels locked, whose own calls may then fail. `PaysWhatItLocked` is stated for the
  channels that accepted no negative balance (`NoDebt`).
* `force_include` takes an inner node of a posted tree for a leaf, with the rest of the
  path (`rollup.rs:218-249`, `294-315`): nothing tells the hash of a leaf from that of two
  nodes. No commitment hashes to one, so the record it writes stands for nothing; `Covers`
  says that this is all.

In the backend:

* The stored cursor moves back when an older record's handler finishes last
  (`cache.ts:256`); a second `start()`, or a `stop()`, during the read of the cursor
  leaves a stream that nobody can close (`listener.ts:307`). `NothingSkipped` and
  `RecordsAreDelivered` hold all the same, as long as nobody stops the indexer.
* A worker with an old `latest` rolls back final ledgers that a competing worker
  has appended meanwhile; the next sync appends them again. This is why
  `NeverRewinds` is a property of one worker.
* Without `INDEXER_START_SEQUENCE` a restarted worker takes its checkpoint for the
  start and the floor of its search (`workers/indexer.ts:113`): a reorganisation of the
  checkpoint makes it erase the whole store, against `listener.test.ts:112` ("rolls back
  to the last common ledger"), and once the chain has become shorter than the
  checkpoint every sync throws `NoCommonAncestorError`. So does any worker whose
  checkpoint is at its start sequence and is
  reorganised; the modelled source keeps its first ledger.
* A failed commit hook, or a crash before it, leaves a ledger without its refresh
  while the checkpoint moves on (`src/README.md:247`); `RefreshedBeforeAdvance` is
  stated for the time before the first fault.
* Five ways to lose buffered scores (`mishaps` in `Relayer`): concurrent writes of the
  one temporary file, a second restore, a failed write, a failed delivery that replaces
  a queue which has grown, and a crash after a drain, against `durableQueue.ts` ("so a
  relayer restart does not drop buffered proofs").
* The SDK's verifier lacks the backend's checks of order and completeness: a batch with
  its last odd entry repeated, or with entries left out, passes it. The header of
  `defaultHeaderProof` is never that of a real ledger. `getProofForAddress` does not
  read the cache that the generator fills, and its local scores never age.
* The limiter is mounted twice (`index.ts:89`, `index.ts:136`) and counts a request
  twice, against the comment at `index.ts:86`.
* The store of payloads that the cross-chain relayer has by default is lost when it
  restarts (`crossChainRelayer.ts:82`), and with it what a challenge needs; the model's
  store outlives it, as one that is configured does.
* After somebody else has attested a commitment the oracle worker tries it for ever, and
  `stop()` stops nothing. TTLs are matched with addresses by position, so a missing
  answer hides an address near expiry.

In the client:

* A retried submission can be reported as an error though it was applied.
* A new browser with a lower identifier than all others is not met
  (`webrtcTransport.ts`); a connection that failed is not made again
  (`webrtc.ts`, "Reconnection is automatic"); a provider that is disconnected while the
  wallet asks joins all the same; a graft timer puts a peer that has left back into the
  overlay.
* Two frames that are signed at once may be sent in the other order, and the older one is
  dropped until the next reconnection; two tabs whose counters collide skip a message.
* Nobody reads the answer to a tab's request for what it lacks: `broadcastchannel.ts:109`
  sends it without `MESSAGE_SYNC`, and the receiver takes the type of the step for that of
  the message (101-104), against the comment at line 74 that peers reply with the missing
  differences. A tab that connects late has what IndexedDB has: what was made in a
  tab before that one had loaded it is missing (`early`), and a skipped message is not made
  up for (`skipped`). `QuietTabsAgree` names both.
* A record of the rollup that is sealed loses its leaf and path to the first commitment of
  a later batch with its index (`optimisticRollup.ts:250-253`), and a forced inclusion then
  sends these, which are not in the tree of the batch; a pass of forced inclusions puts the
  records it listed back, over paths that were refreshed meanwhile. What a sealed batch
  lists is not touched. `RecordsProveTheirs` says exactly when.
* Disputes settled by a panel or by its timeout never leave the local index: the contract
  emits `voteres` and `votefall` (`registry/src/events.rs:76-86`, `voting.rs:225`, `270`)
  and the parser knows neither (`localIndexer/events.ts:108-136`), so the commitment is
  shown as disputed for ever. `IndexIsCurrent` expects that of them, and of no others.
* A merge of the backend's list in another tab can overwrite an edit made offline.
* `findLCA` may miss a common ancestor that exists.
* Two mutations of a slice that fail in the order they began leave the first one's guess.
* The local index never holds a commitment whose `getCommitment` answered null
  (`db.ts:59`); a first poll that is interrupted leaves rows that age; a lookback longer
  than the node's retention makes every poll fail.
* Of two events of one ledger the store drops the second, because both have the ledger's
  sequence; a socket that was closed on purpose makes the client forget the next one.
* The dashboard loads no second page until a filter is clicked, and searching for the
  address that is shown spins for ever.
* Rules: a rule set within the limits can use up the sandbox's gas, and the resolver
  then fails open; the guard of patterns lets (a|a)* through, as its comment says; a
  number that is NaN becomes null on the way; lengths are counted in
  bytes on one side; the sandbox's match is no regular expression engine.

## 7. Plan

1. *(done)* The registry: life of commitments, reputation, disputes, panel, vault,
   trust history, batch roots; the outcome ledger it implements; governance by the
   timelock; state channels.
2. *(done)* The backend's concurrent parts: both indexers, the batching engine and its
   proofs, the cross-chain relayer, webhooks, TTL monitor, oracle worker, cache and
   limiter.
3. *(done)* The frontend's engines: optimistic updates and rollup, contract calls,
   wallet, feeds and dashboard, rules, offline store, tabs, peers, history, gossip.
4. *(open)* The cross-chain relayer composed with the EVM oracle's nonces; legacy
   layouts of commitments; the fee oracle; single state proofs.
5. *(done, but for liveness and the recursive rules)* Proofs: the registry with its
   refinement, disputes, governance, channels and roots, both indexers, the relayer and its
   batches, the queue of scores, the workers, the cache and the limiter of the API; of the
   client the cache, the rollup, the wallet, calls, peers, tabs, mesh, history and feeds.
