------------------------- MODULE RegistryRefinement -------------------------
(***************************************************************************)
(* What must be true of the tokens the registry holds, and that the        *)
(* registry implements the outcome ledger.                                 *)
(***************************************************************************)
EXTENDS Registry, Functions

\* An address is 32 bytes, so there are finitely many and their stakes have a sum.
ASSUME AddressesAssumption == IsFiniteSet(Addresses)

RecordedStakes == SumFunction([a \in Addresses |-> stakes[a].staked])
EscrowedStakes == SumFunction(disputeStake)

\* What the vault holds beyond the recorded stakes: the forfeited stakes.
Surplus == vault - RecordedStakes

\* What the contract holds beyond the recorded stakes never shrinks: slashed funds
\* stay in the vault and nobody withdraws more than their own record, so the vault
\* always covers every recorded stake (staking-invariants.md, Invariant 7).
SurplusNeverShrinks == [][Surplus' >= Surplus]_vars

\* Stakes are safe: an attestor loses only by a vote it lost, or by taking its own out, and
\* what it loses stays in the vault.
StakesAreSafe == OnlyDissentersForfeit /\ SurplusNeverShrinks

\* The dispute tokens the contract holds are exactly the recorded dispute stakes,
\* and a commitment without a panel has one recorded exactly while it is disputed.
EscrowBacksDisputes ==
    /\ escrow = EscrowedStakes
    /\ \A id \in Ids : Exists(id) /\ ~HasPanel(commitments[id]) =>
         disputeStake[id] = IF commitments[id].status = "Disputed"
                            THEN DISPUTE_STAKE_AMOUNT ELSE 0

-----------------------------------------------------------------------------
(***************************************************************************)
(* The refinement mapping reads the life of a commitment off its record    *)
(* and the clock, and the reputation through get_reputation, whatever      *)
(* schema it is stored under.                                              *)
(***************************************************************************)

LifeOf(c) ==
    CASE c = NoCommitment -> [phase |-> "absent"]
      [] c.status \in {"Pending", "Disputed"} ->
           [phase  |-> IF c.status = "Pending" THEN "pending" ELSE "contested",
            issuer |-> c.terms.issuer]
      [] OTHER ->
           [phase   |-> IF InDisputeWindow(c) THEN "standing" ELSE "final",
            issuer  |-> c.terms.issuer,
            outcome |-> c.status]

Ledger == INSTANCE OutcomeLedger WITH
              Issuers <- Addresses,
              life <- [id \in Ids |-> LifeOf(commitments[id])],
              reputation <- [a \in Addresses |-> ReputationView(a)]

\* Every behaviour of the contract, seen through its getters, is one of the ledger:
\* an attestation, a dispute, a vote, a timeout or a tick moves a commitment along
\* its life together with its issuer's reputation, and every administrative call,
\* migration and stake movement is invisible.
ImplementsLedger == Ledger!Spec
=============================================================================
