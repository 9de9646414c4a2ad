--------------------------- MODULE RegistryState ---------------------------
(***************************************************************************)
(* The storage of the registry contract (contracts/registry) and the       *)
(* helpers every entry point uses.                                         *)
(*                                                                         *)
(* A contract invocation is one transaction: it holds the reentrancy guard *)
(* from its first to its last statement and a panic rolls everything back, *)
(* so every entry point is one atomic action and every panic a guard.      *)
(* Interleaving happens between transactions, and time passes between them.*)
(***************************************************************************)
EXTENDS Reputation, Sequences, FiniteSets

CONSTANTS
    Committee,            \* the arbitrators passed to initialize
    CreateParams,         \* what an issuer may ask create_commitment for
    MaxId,                \* bound: commitments ever created
    MaxTime,              \* bound: the last ledger timestamp
    MaxStake,             \* bound: recorded stake of one attestor
    StakeAmounts,         \* amounts stake_attestor is called with
    DISPUTE_WINDOW_SECONDS,
    ATTESTOR_VOTE_TIMEOUT_SECONDS,
    UNBONDING_PERIOD_SECONDS,
    DISPUTE_STAKE_AMOUNT,
    MAX_MILESTONES

\* What a commitment is created with.  The panel is a vector in the code, looped
\* over with operations that a repeated member does not change: it is modelled by
\* the set of its members and its length, which counts repetitions.
Terms == [issuer : Addresses, counterparty : Addresses, resolver : Addresses,
          oracle : Addresses \cup {None}, milestones : Nat,
          attestors : SUBSET Addresses, slots : Nat, threshold : Nat, due : Nat]

ASSUME RegistryAssumption ==
    /\ Committee \subseteq Addresses
    /\ Committee # {} /\ IsFiniteSet(Committee)
    /\ CreateParams \subseteq Terms
    /\ \A p \in CreateParams : p.attestors = {} <=> p.slots = 0
    /\ StakeAmounts \subseteq Nat
    /\ {MaxId, MaxTime, MaxStake, DISPUTE_WINDOW_SECONDS,
        ATTESTOR_VOTE_TIMEOUT_SECONDS, UNBONDING_PERIOD_SECONDS, MAX_MILESTONES} \subseteq Nat
    /\ DISPUTE_STAKE_AMOUNT \in Nat \ {0}

VARIABLES
    now,            \* ledger timestamp; the ledger sequence advances with it
    paused,         \* DataKey::Paused
    arbitrators,    \* DataKey::ArbitratorSet, {} until initialize
    tokens,         \* which of DisputeToken and StakingToken are configured
    nextId,         \* DataKey::NextId
    commitments,    \* DataKey::Commitment(id)
    votes,          \* DataKey::Votes(id): arbitrator -> outcome
    tally,          \* DataKey::DisputeTally(id): outcome -> votes
    voteRecord,     \* DataKey::VoteRecord(id, attestor)
    stakes,         \* DataKey::Stake(attestor)
    vault,          \* staking tokens held by the contract
    disputeStake,   \* DataKey::DisputeStake(id), 0 when absent
    escrow,         \* dispute tokens held by the contract
    trust           \* TrustKey::TrustHistory(issuer)

adminVars == <<paused, arbitrators, tokens>>
commitmentVars == <<nextId, commitments>>
panelVars == <<tally, voteRecord>>
stakeVars == <<stakes, vault>>
escrowVars == <<disputeStake, escrow>>
outcomeVars == <<repVars, trust>>
vars == <<now, adminVars, commitmentVars, votes, panelVars, stakeVars, escrowVars, outcomeVars>>

Ids == 1 .. MaxId
Statuses == Outcomes \cup {"Pending", "Disputed"}

\* No record is stored under an id that was never assigned.
NoCommitment == [status |-> "Absent"]

Commitment == [terms : CreateParams, status : Statuses, created_at : Nat,
               attested_at : Nat \cup {None},
               milestones_attested : Nat, late_milestones : Nat]

AttestorStake == [staked : Nat, unbonding_until : Nat \cup {None}, locked : BOOLEAN]
NoStake == [staked |-> 0, unbonding_until |-> None, locked |-> FALSE]

\* Types of the stored data, but for the trust history (TrustScore).
TypeOK ==
    /\ ReputationTypeOK
    /\ now \in Nat
    /\ paused \in BOOLEAN
    /\ arbitrators \in {{}, Committee}
    /\ tokens \subseteq {"dispute", "staking"}
    /\ nextId \in 1 .. (MaxId + 1)
    /\ commitments \in [Ids -> Commitment \cup {NoCommitment}]
    /\ votes \in [Ids -> [Addresses -> Outcomes \cup {None}]]
    /\ tally \in [Ids -> [Outcomes -> Nat]]
    /\ voteRecord \in [Ids -> [Addresses -> Outcomes \cup {None}]]
    /\ stakes \in [Addresses -> AttestorStake]
    /\ vault \in Int
    /\ disputeStake \in [Ids -> Nat]
    /\ escrow \in Int

Init ==
    /\ ReputationInit
    /\ trust = [a \in Addresses |-> None]
    /\ now = 0
    /\ paused = FALSE
    /\ arbitrators = {}
    /\ tokens = {}
    /\ nextId = 1
    /\ commitments = [id \in Ids |-> NoCommitment]
    /\ votes = [id \in Ids |-> [a \in Addresses |-> None]]
    /\ tally = [id \in Ids |-> ZeroCounts]
    /\ voteRecord = [id \in Ids |-> [a \in Addresses |-> None]]
    /\ stakes = [a \in Addresses |-> NoStake]
    /\ vault = 0
    /\ disputeStake = [id \in Ids |-> 0]
    /\ escrow = 0

-----------------------------------------------------------------------------
Panel(c) == c.terms.attestors

HasPanel(c) == c.terms.attestors # {}

Exists(id) == commitments[id].status # "Absent"

\* update_reputation and update_trust_history, which every handler that
\* changes an outcome calls one after the other.
RecordOutcome(issuer, o, increment) ==
    /\ UpdateReputation(issuer, o, increment)
    /\ trust' = [trust EXCEPT ![issuer] = UpdatedHistory(@, o, increment, now)]
=============================================================================
