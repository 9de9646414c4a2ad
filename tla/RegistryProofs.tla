--------------------------- MODULE RegistryProofs ---------------------------
(***************************************************************************)
(* Theorems about the registry, for every set of addresses, commitments,   *)
(* amounts and windows.                                                    *)
(***************************************************************************)
EXTENDS Registry, FiniteSetTheorems, TLAPS

\* What an outcome update does to the rows: it keeps their types, whatever the
\* schema.
LEMMA UpdateReputationType ==
    ASSUME ReputationTypeOK, NEW a \in Addresses, NEW o \in Outcomes, NEW increment \in BOOLEAN,
           UpdateReputation(a, o, increment)
    PROVE  ReputationTypeOK'
<1> DEFINE Updated(counts) == ApplyOutcome(counts, o, increment)
<1>1. \A n \in Nat : Bump(n, increment) \in Nat
  BY DEF Bump
<1>2. \A counts \in Counts : Updated(counts) \in Counts
  BY <1>1 DEF ApplyOutcome, Counts
<1>3. ReputationView(a) \in Counts /\ ReputationV2View(a) \in RowV2
  BY NoneIsNoRow DEF ReputationTypeOK, ReputationView, ReputationV2View, ProjectV1toV2, RowV2, Counts,
     ZeroCounts, Outcomes
<1>4. CASE schemaVersion < SCHEMA_VERSION_V2
  BY <1>2, <1>3, <1>4 DEF UpdateReputation, ReputationTypeOK
<1>5. CASE ~(schemaVersion < SCHEMA_VERSION_V2)
  <2>1. Updated(ReputationV2View(a).counts) \in Counts
    BY <1>2, <1>3 DEF RowV2
  <2>2. Bump(ReputationV2View(a).direct, increment) \in Nat
    BY <1>1, <1>3 DEF RowV2
  <2> DEFINE row == [counts |-> Updated(ReputationV2View(a).counts),
                     direct |-> Bump(ReputationV2View(a).direct, increment)]
  <2>3. row \in RowV2
    BY <2>1, <2>2 DEF RowV2
  <2>4. repV2' = [repV2 EXCEPT ![a] = row]
    BY <1>5 DEF UpdateReputation
  <2> HIDE DEF row
  <2>5. repV2' \in [Addresses -> RowV2 \cup {None}]
    BY <2>3, <2>4 DEF ReputationTypeOK
  <2>6. repV1' \in [Addresses -> Counts \cup {None}] /\ schemaVersion' = schemaVersion
    BY <1>5 DEF UpdateReputation, ReputationTypeOK
  <2> QED BY <2>5, <2>6 DEF ReputationTypeOK
<1> QED BY <1>4, <1>5

\* A batch migration stores projections of well-typed rows, so rows stay well typed.
LEMMA MigrateRowsType ==
    ASSUME ReputationTypeOK, NEW as, MigrateRows(as)
    PROVE  ReputationTypeOK'
<1>1. \A a \in Addresses : ReputationV2View(a) \in RowV2
  BY NoneIsNoRow DEF ReputationTypeOK, ReputationV2View, ProjectV1toV2, RowV2, Counts,
     ZeroCounts, Outcomes
<1> QED BY <1>1 DEF MigrateRows, ReputationTypeOK

\* A slash takes part of a stake, never more.
LEMMA SlashCutBounds ==
    ASSUME NEW n \in Nat
    PROVE  SlashCut(n) \in 0 .. n
BY DEF SlashCut, SLASH_PERCENT

\* set_locked keeps a stake record well typed.
LEMMA WithLockType ==
    ASSUME NEW stake \in AttestorStake, NEW locked \in BOOLEAN
    PROVE  WithLock(stake, locked) \in AttestorStake
BY DEF WithLock, AttestorStake

\* A slashed stake is still a natural number.
LEMMA SlashedType ==
    ASSUME NEW stake \in AttestorStake
    PROVE  Slashed(stake) \in AttestorStake
<1>1. stake.staked - SlashCut(stake.staked) \in Nat
  BY SlashCutBounds DEF AttestorStake
<1> QED BY <1>1 DEF Slashed, AttestorStake

\* Settling a commitment with an outcome leaves a well-typed record.
LEMMA SettledType ==
    ASSUME NEW c \in Commitment, NEW o \in Outcomes
    PROVE  Settled(c, o) \in Commitment
BY DEF Settled, Commitment, Statuses

\* An id whose status is not "Absent" holds a commitment.
LEMMA StoredCommitment ==
    ASSUME TypeOK, NEW id \in Ids, Exists(id)
    PROVE  /\ commitments[id] \in Commitment
           /\ commitments[id].terms \in CreateParams
           /\ commitments[id].terms.issuer \in Addresses
           /\ commitments[id].status \in Statuses
BY RegistryAssumption DEF TypeOK, Exists, NoCommitment, Commitment, Terms

\* Recording an outcome keeps the types of everything but the trust history.
LEMMA RecordOutcomeType ==
    ASSUME ReputationTypeOK, NEW a \in Addresses, NEW o \in Outcomes, NEW increment \in BOOLEAN,
           RecordOutcome(a, o, increment)
    PROVE  ReputationTypeOK'
BY UpdateReputationType DEF RecordOutcome

\* finalize_resolution keeps the types of all it writes; of the token balance
\* nothing is claimed but that it is an integer.
LEMMA FinalizeResolutionType ==
    ASSUME TypeOK, NEW id \in Ids, Exists(id), NEW o \in Outcomes, FinalizeResolution(id, o)
    PROVE  /\ ReputationTypeOK'
           /\ commitments' \in [Ids -> Commitment \cup {NoCommitment}]
           /\ disputeStake' \in [Ids -> Nat]
           /\ escrow' \in Int
<1>1. commitments[id] \in Commitment /\ commitments[id].terms.issuer \in Addresses
  BY StoredCommitment
<1>2. ReputationTypeOK'
  BY <1>1, RecordOutcomeType DEF FinalizeResolution, TypeOK
<1>3. Settled(commitments[id], o) \in Commitment
  BY <1>1, SettledType
<1>4. commitments' \in [Ids -> Commitment \cup {NoCommitment}]
  BY <1>3 DEF FinalizeResolution, TypeOK
<1>5. disputeStake' \in [Ids -> Nat] /\ escrow' \in Int
  BY DEF FinalizeResolution, TypeOK
<1> QED BY <1>2, <1>4, <1>5

\* persist_outcome keeps the types of what it writes.
LEMMA PersistOutcomeType ==
    ASSUME TypeOK, NEW id \in Ids, Exists(id), NEW o \in Outcomes, PersistOutcome(id, o)
    PROVE  /\ ReputationTypeOK'
           /\ commitments' \in [Ids -> Commitment \cup {NoCommitment}]
           /\ UNCHANGED escrowVars
<1>1. commitments[id] \in Commitment /\ commitments[id].terms.issuer \in Addresses
  BY StoredCommitment
<1>2. ReputationTypeOK'
  BY <1>1, RecordOutcomeType DEF PersistOutcome, TypeOK
<1>3. Settled(commitments[id], o) \in Commitment
  BY <1>1, SettledType
<1> QED BY <1>2, <1>3 DEF PersistOutcome, TypeOK

\* unlock_panel_and_clear keeps the types of what it writes, slashing included.
LEMMA UnlockPanelAndClearType ==
    ASSUME TypeOK, NEW id \in Ids, NEW ballots, NEW slash \in BOOLEAN, NEW winning,
           UnlockPanelAndClear(id, ballots, slash, winning)
    PROVE  /\ stakes' \in [Addresses -> AttestorStake]
           /\ voteRecord' \in [Ids -> [Addresses -> Outcomes \cup {None}]]
           /\ tally' \in [Ids -> [Outcomes -> Nat]]
           /\ UNCHANGED vault
<1> DEFINE Settle(a) == IF slash /\ Dissents(ballots[a], winning)
                        THEN Slashed(stakes[a]) ELSE stakes[a]
<1>1. \A a \in Addresses : Settle(a) \in AttestorStake
  BY SlashedType DEF TypeOK
<1>2. \A a \in Addresses : WithLock(Settle(a), FALSE) \in AttestorStake
  <2> HIDE DEF Settle
  <2> QED BY <1>1, WithLockType
<1>3. stakes' \in [Addresses -> AttestorStake]
  BY <1>2 DEF UnlockPanelAndClear, TypeOK
<1>4. tally' \in [Ids -> [Outcomes -> Nat]]
  BY DEF UnlockPanelAndClear, TypeOK, ZeroCounts
<1>5. voteRecord' \in [Ids -> [Addresses -> Outcomes \cup {None}]]
  BY DEF UnlockPanelAndClear, TypeOK
<1> QED BY <1>3, <1>4, <1>5 DEF UnlockPanelAndClear

\* The committed state is well typed whatever the entry point: each conjunct of
\* TypeOK is kept by each action.
LEMMA TypeOKStep ==
    ASSUME TypeOK, [Next]_vars
    PROVE  TypeOK'
<1> USE DEF adminVars, commitmentVars, panelVars, stakeVars, escrowVars, outcomeVars, repVars
<1>1. CASE Setup
  BY <1>1, RegistryAssumption DEF Setup, Initialize, SetToken, TypeOK, ReputationTypeOK
<1>2. CASE Administer
  <2>1. ASSUME NEW p \in BOOLEAN, SetPaused(p) PROVE TypeOK'
    BY <2>1 DEF SetPaused, TypeOK, ReputationTypeOK
  <2>2. ASSUME NEW v \in {SCHEMA_VERSION_V1, SCHEMA_VERSION_V2}, Upgrade(v) PROVE TypeOK'
    BY <2>2 DEF Upgrade, SwitchSchema, TypeOK, ReputationTypeOK
  <2> QED BY <1>2, <2>1, <2>2 DEF Administer
<1>3. CASE Create
  <2>1. ASSUME NEW ps \in Seq(CreateParams), CreateAll(ps) PROVE TypeOK'
    <3>1. nextId' \in 1 .. (MaxId + 1)
      BY <2>1, RegistryAssumption DEF CreateAll, TypeOK
    <3>2. ASSUME NEW id \in Ids, id >= nextId, id < nextId + Len(ps)
          PROVE  NewCommitment(ps[id - nextId + 1]) \in Commitment
      <4>1. id - nextId + 1 \in 1 .. Len(ps)
        BY <3>2, RegistryAssumption DEF TypeOK, Ids
      <4>2. ps[id - nextId + 1] \in CreateParams
        BY <4>1
      <4> QED BY <4>2 DEF NewCommitment, Commitment, Statuses, TypeOK
    <3>3. commitments' \in [Ids -> Commitment \cup {NoCommitment}]
      BY <2>1, <3>2 DEF CreateAll, TypeOK
    <3> QED BY <2>1, <3>1, <3>3 DEF CreateAll, TypeOK, ReputationTypeOK
  <2>2. ASSUME NEW p \in CreateParams, CreateCommitment(p) PROVE TypeOK'
    <3>1. <<p>> \in Seq(CreateParams) /\ CreateAll(<<p>>)
      BY <2>2 DEF CreateCommitment
    <3> QED BY <2>1, <3>1
  <2>3. ASSUME NEW p \in CreateParams, NEW q \in CreateParams, BatchCreateCommitments(p, q)
        PROVE  TypeOK'
    <3>1. <<p, q>> \in Seq(CreateParams) /\ CreateAll(<<p, q>>)
      BY <2>3 DEF BatchCreateCommitments
    <3> QED BY <2>1, <3>1
  <2> QED BY <1>3, <2>2, <2>3 DEF Create
<1>4. CASE Attest
  <2>1. ASSUME NEW caller \in Addresses, NEW id \in Ids, NEW index \in 0 .. MAX_MILESTONES,
               NEW o \in Outcomes, AttestMilestone(caller, id, index, o)
        PROVE  TypeOK'
    <3> DEFINE c == commitments[id]
    <3>1. c \in Commitment /\ c.terms.issuer \in Addresses
      BY <2>1, RegistryAssumption DEF AttestMilestone, TypeOK, NoCommitment, Commitment, Terms
    <3>2. Resolution(c, o) \in Outcomes \cup {"Pending"}
      BY DEF Resolution, Outcomes
    <3>3. Attested(c, o) \in Commitment
      <4>1. now \in Nat
        BY DEF TypeOK
      <4> DEFINE attested == c.milestones_attested + 1
                 late == c.late_milestones + (IF o = "Late" THEN 1 ELSE 0)
                 r == Resolution(c, o)
                 at == IF r = "Pending" THEN c.attested_at ELSE now
      <4>2. attested \in Nat /\ late \in Nat /\ at \in Nat \cup {None} /\ r \in Statuses
        BY <3>1, <3>2, <4>1 DEF Commitment, Statuses
      <4>3. Attested(c, o) = [c EXCEPT !.milestones_attested = attested, !.late_milestones = late,
                                       !.status = r, !.attested_at = at]
        BY DEF Attested
      <4> HIDE DEF c, attested, late, r, at
      <4> QED BY <3>1, <4>2, <4>3 DEF Commitment
    <3>4. commitments' \in [Ids -> Commitment \cup {NoCommitment}]
      BY <2>1, <3>3 DEF AttestMilestone, TypeOK
    <3>5. ReputationTypeOK'
      <4>1. CASE Resolution(c, o) = "Pending"
        BY <2>1, <4>1 DEF AttestMilestone, TypeOK, ReputationTypeOK
      <4>2. CASE Resolution(c, o) # "Pending"
        <5>1. UpdateReputation(c.terms.issuer, Resolution(c, o), TRUE)
          BY <2>1, <4>2 DEF AttestMilestone, RecordOutcome
        <5>2. ReputationTypeOK /\ Resolution(c, o) \in Outcomes
          BY <3>2, <4>2 DEF TypeOK
        <5> HIDE DEF c
        <5> QED BY <3>1, <5>1, <5>2, UpdateReputationType
      <4> QED BY <4>1, <4>2
    <3> QED BY <2>1, <3>4, <3>5 DEF AttestMilestone, TypeOK
  <2> QED BY <1>4, <2>1 DEF Attest
<1>5. CASE RaiseDispute
  <2>1. ASSUME NEW caller \in Addresses, NEW id \in Ids, Dispute(caller, id) PROVE TypeOK'
    <3> DEFINE c == commitments[id]
    <3>1. Exists(id) /\ c.status \in Outcomes
      BY <2>1 DEF Dispute, Exists, Outcomes
    <3>2. c \in Commitment /\ c.terms.issuer \in Addresses
      BY <3>1, StoredCommitment
    <3>3. ReputationTypeOK'
      BY <2>1, <3>1, <3>2, RecordOutcomeType DEF Dispute, TypeOK
    <3>4. [c EXCEPT !.status = "Disputed"] \in Commitment
      BY <3>2 DEF Commitment, Statuses
    <3>5. commitments' \in [Ids -> Commitment \cup {NoCommitment}]
      BY <2>1, <3>4 DEF Dispute, TypeOK
    <3>6. stakes' \in [Addresses -> AttestorStake]
      BY <2>1, WithLockType DEF Dispute, TypeOK
    <3>7. disputeStake' \in [Ids -> Nat] /\ escrow' \in Int
      BY <2>1, RegistryAssumption DEF Dispute, TypeOK
    <3> QED BY <2>1, <3>3, <3>5, <3>6, <3>7 DEF Dispute, TypeOK
  <2> QED BY <1>5, <2>1 DEF RaiseDispute
<1>6. CASE ResolveDispute
  <2>1. ASSUME NEW caller \in Addresses, NEW id \in Ids, NEW o \in Outcomes,
               ResolveByResolver(caller, id, o)
        PROVE  TypeOK'
    <3>1. Exists(id) /\ FinalizeResolution(id, o)
      BY <2>1 DEF ResolveByResolver, Exists
    <3> QED BY <2>1, <3>1, FinalizeResolutionType DEF ResolveByResolver, TypeOK
  <2>2. ASSUME NEW caller \in Addresses, NEW id \in Ids, NEW o \in Outcomes,
               ResolveByCommittee(caller, id, o)
        PROVE  TypeOK'
    <3>1. Exists(id)
      BY <2>2 DEF ResolveByCommittee, Exists
    <3>2. votes' \in [Ids -> [Addresses -> Outcomes \cup {None}]]
      BY <2>2 DEF ResolveByCommittee, TypeOK
    <3>3. \/ FinalizeResolution(id, o)
          \/ UNCHANGED <<commitments, outcomeVars, escrowVars>>
      BY <2>2 DEF ResolveByCommittee
    <3>4. /\ ReputationTypeOK'
          /\ commitments' \in [Ids -> Commitment \cup {NoCommitment}]
          /\ disputeStake' \in [Ids -> Nat]
          /\ escrow' \in Int
      BY <3>1, <3>3, FinalizeResolutionType DEF TypeOK, ReputationTypeOK
    <3> QED BY <2>2, <3>2, <3>4 DEF ResolveByCommittee, TypeOK
  <2> QED BY <1>6, <2>1, <2>2 DEF ResolveDispute
<1>7. CASE PanelVote
  <2>1. ASSUME NEW a \in Addresses, NEW id \in Ids, NEW o \in Outcomes, CastDisputeVote(a, id, o)
        PROVE  TypeOK'
    <3> DEFINE ballots == [voteRecord[id] EXCEPT ![a] = o]
    <3>1. Exists(id)
      BY <2>1 DEF CastDisputeVote, Exists
    <3>2. CASE tally[id][o] + 1 >= commitments[id].terms.threshold
      <4>1. PersistOutcome(id, o) /\ UnlockPanelAndClear(id, ballots, TRUE, o)
        BY <2>1, <3>2 DEF CastDisputeVote
      <4> HIDE DEF ballots
      <4> QED BY <2>1, <3>1, <4>1, PersistOutcomeType, UnlockPanelAndClearType
              DEF CastDisputeVote, TypeOK
    <3>3. CASE ~(tally[id][o] + 1 >= commitments[id].terms.threshold)
      <4>1. tally' \in [Ids -> [Outcomes -> Nat]]
        <5> DEFINE counted == [tally[id] EXCEPT ![o] = @ + 1]
        <5>1. counted \in [Outcomes -> Nat]
          BY DEF TypeOK
        <5>2. tally' = [tally EXCEPT ![id] = counted]
          BY <2>1, <3>3 DEF CastDisputeVote
        <5> HIDE DEF counted
        <5> QED BY <5>1, <5>2 DEF TypeOK
      <4>2. voteRecord' \in [Ids -> [Addresses -> Outcomes \cup {None}]]
        <5>1. ballots \in [Addresses -> Outcomes \cup {None}]
          BY DEF TypeOK
        <5>2. voteRecord' = [voteRecord EXCEPT ![id] = ballots]
          BY <2>1, <3>3 DEF CastDisputeVote
        <5> HIDE DEF ballots
        <5> QED BY <5>1, <5>2 DEF TypeOK
      <4> QED BY <2>1, <3>3, <4>1, <4>2 DEF CastDisputeVote, TypeOK, ReputationTypeOK
    <3> QED BY <3>2, <3>3
  <2> QED BY <1>7, <2>1 DEF PanelVote
<1>8. CASE Timeout
  <2>1. ASSUME NEW id \in Ids, CheckDisputeTimeout(id) PROVE TypeOK'
    <3>1. /\ Exists(id)
          /\ PersistOutcome(id, "Breached")
          /\ UnlockPanelAndClear(id, voteRecord[id], FALSE, "Breached")
          /\ "Breached" \in Outcomes
      BY <2>1 DEF CheckDisputeTimeout, Exists, Outcomes
    <3> QED BY <2>1, <3>1, PersistOutcomeType, UnlockPanelAndClearType
            DEF CheckDisputeTimeout, TypeOK
  <2> QED BY <1>8, <2>1 DEF Timeout
<1>9. CASE Stake
  <2>1. ASSUME NEW a \in Addresses, NEW amount \in StakeAmounts, StakeAttestor(a, amount)
        PROVE  TypeOK'
    <3> DEFINE topped == [stakes[a] EXCEPT !.staked = @ + amount]
    <3>1. amount \in Nat /\ stakes[a] \in AttestorStake
      BY RegistryAssumption DEF TypeOK
    <3>3. topped \in AttestorStake
      BY <3>1 DEF AttestorStake
    <3>4. vault' \in Int
      BY <2>1, <3>1 DEF StakeAttestor, TypeOK
    <3>2. stakes' = [stakes EXCEPT ![a] = topped]
      BY <2>1 DEF StakeAttestor
    <3> HIDE DEF topped
    <3> QED BY <2>1, <3>2, <3>3, <3>4 DEF StakeAttestor, TypeOK, ReputationTypeOK
  <2> QED BY <1>9, <2>1 DEF Stake
<1>10. CASE Unstake
  <2>1. ASSUME NEW a \in Addresses, RequestUnstake(a) PROVE TypeOK'
    <3>1. [stakes[a] EXCEPT !.unbonding_until = now + UNBONDING_PERIOD_SECONDS] \in AttestorStake
      BY RegistryAssumption DEF TypeOK, AttestorStake
    <3>2. stakes' = [stakes EXCEPT ![a] =
                       [stakes[a] EXCEPT !.unbonding_until = now + UNBONDING_PERIOD_SECONDS]]
      BY <2>1 DEF RequestUnstake
    <3> QED BY <2>1, <3>1, <3>2 DEF RequestUnstake, TypeOK, ReputationTypeOK
  <2>2. ASSUME NEW a \in Addresses, FinalizeUnstake(a) PROVE TypeOK'
    <3>1. NoStake \in AttestorStake
      BY DEF NoStake, AttestorStake
    <3>2. vault' \in Int
      BY <2>2 DEF FinalizeUnstake, TypeOK, AttestorStake
    <3> QED BY <2>2, <3>1, <3>2 DEF FinalizeUnstake, TypeOK, ReputationTypeOK
  <2> QED BY <1>10, <2>1, <2>2 DEF Unstake
<1>11. CASE Migrate
  <2>1. ASSUME NEW a \in Addresses, MigrateReputationBatch({a}) PROVE TypeOK'
    <3>1. ReputationTypeOK'
      BY <2>1, MigrateRowsType DEF MigrateReputationBatch, TypeOK
    <3> QED BY <2>1, <3>1 DEF MigrateReputationBatch, TypeOK
  <2> QED BY <1>11, <2>1 DEF Migrate
<1>12. CASE Tick
  BY <1>12 DEF Tick, TypeOK, ReputationTypeOK
<1>13. CASE UNCHANGED vars
  BY <1>13 DEF vars, TypeOK, ReputationTypeOK
<1> QED
  BY <1>1, <1>2, <1>3, <1>4, <1>5, <1>6, <1>7, <1>8, <1>9, <1>10, <1>11, <1>12, <1>13 DEF Next

\* A freshly deployed contract is well typed.
LEMMA TypeOKInit == Init => TypeOK
<1> SUFFICES ASSUME Init PROVE TypeOK
  OBVIOUS
<1>1. ReputationTypeOK
  BY DEF Init, ReputationInit, ReputationTypeOK, SCHEMA_VERSION_V1
<1>2. nextId \in 1 .. (MaxId + 1)
  BY RegistryAssumption DEF Init
<1>3. stakes \in [Addresses -> AttestorStake]
  BY DEF Init, NoStake, AttestorStake
<1>4. tally \in [Ids -> [Outcomes -> Nat]]
  BY DEF Init, ZeroCounts
<1>5. /\ commitments \in [Ids -> Commitment \cup {NoCommitment}]
      /\ votes \in [Ids -> [Addresses -> Outcomes \cup {None}]]
      /\ voteRecord \in [Ids -> [Addresses -> Outcomes \cup {None}]]
      /\ disputeStake \in [Ids -> Nat]
  BY DEF Init
<1>6. /\ now \in Nat /\ vault \in Int /\ escrow \in Int
      /\ tokens \subseteq {"dispute", "staking"}
      /\ arbitrators \in {{}, Committee}
  BY DEF Init
<1>7. paused \in BOOLEAN
  BY DEF Init
<1> QED BY <1>1, <1>2, <1>3, <1>4, <1>5, <1>6, <1>7 DEF TypeOK

\* Every stored value keeps its type in every behaviour of the contract.
THEOREM TypeCorrect == Spec => []TypeOK
BY TypeOKInit, TypeOKStep, PTL DEF Spec

-----------------------------------------------------------------------------
(* The life of a commitment.  Each step leaves a commitment alone or moves  *)
(* it along one of these four transitions.                                  *)

Registers(id) ==
    /\ ~Exists(id)
    /\ \E p \in CreateParams : ValidTerms(p) /\ commitments'[id] = NewCommitment(p)

Attests(id) ==
    /\ commitments[id].status = "Pending"
    /\ commitments[id].milestones_attested < commitments[id].terms.milestones
    /\ \E o \in Outcomes : commitments'[id] = Attested(commitments[id], o)

Contests(id) ==
    /\ commitments[id].status \in Outcomes
    /\ InDisputeWindow(commitments[id])
    /\ commitments'[id] = [commitments[id] EXCEPT !.status = "Disputed"]

Settles(id) ==
    /\ commitments[id].status = "Disputed"
    /\ \E o \in Outcomes : commitments'[id] = Settled(commitments[id], o)

Advances(id) ==
    \/ commitments'[id] = commitments[id]
    \/ Attests(id)
    \/ Contests(id)
    \/ Settles(id)

\* Registering a sequence of commitments writes only under ids never used before.
LEMMA CreateAllMoves ==
    ASSUME TypeOK, IdsAreFresh, NEW ps \in Seq(CreateParams), CreateAll(ps), NEW id \in Ids
    PROVE  Registers(id) \/ commitments'[id] = commitments[id]
<1>1. CASE id >= nextId /\ id < nextId + Len(ps)
  <2>1. id - nextId + 1 \in 1 .. Len(ps)
    BY <1>1, RegistryAssumption DEF TypeOK, Ids
  <2>2. ps[id - nextId + 1] \in CreateParams /\ ValidTerms(ps[id - nextId + 1])
    BY <2>1 DEF CreateAll
  <2>3. commitments'[id] = NewCommitment(ps[id - nextId + 1])
    BY <1>1 DEF CreateAll
  <2>4. ~Exists(id)
    BY <1>1, RegistryAssumption DEF IdsAreFresh, TypeOK, Ids
  <2> QED BY <2>2, <2>3, <2>4 DEF Registers
<1>2. CASE ~(id >= nextId /\ id < nextId + Len(ps))
  BY <1>2 DEF CreateAll
<1> QED BY <1>1, <1>2

\* Both ways to register commitments register a sequence of them.
LEMMA CreateIsCreateAll ==
    ASSUME Create
    PROVE  \E ps \in Seq(CreateParams) : CreateAll(ps)
<1>1. ASSUME NEW p \in CreateParams, CreateCommitment(p)
      PROVE  \E ps \in Seq(CreateParams) : CreateAll(ps)
  <2>1. <<p>> \in Seq(CreateParams) /\ CreateAll(<<p>>)
    BY <1>1 DEF CreateCommitment
  <2> QED BY <2>1
<1>2. ASSUME NEW p \in CreateParams, NEW q \in CreateParams, BatchCreateCommitments(p, q)
      PROVE  \E ps \in Seq(CreateParams) : CreateAll(ps)
  <2>1. <<p, q>> \in Seq(CreateParams) /\ CreateAll(<<p, q>>)
    BY <1>2 DEF BatchCreateCommitments
  <2> QED BY <2>1
<1> QED BY <1>1, <1>2 DEF Create

\* Every entry point that does not register commitments leaves each one alone or
\* moves it by a milestone, a dispute or a settlement.
LEMMA CommitmentsAdvance ==
    ASSUME TypeOK, [Next]_vars, ~Create, NEW id \in Ids
    PROVE  Advances(id)
<1> USE DEF commitmentVars
<1>1. CASE Attest
  <2>1. PICK caller \in Addresses, i \in Ids, index \in 0 .. MAX_MILESTONES, o \in Outcomes :
           AttestMilestone(caller, i, index, o)
    BY <1>1 DEF Attest
  <2>2. /\ commitments[i].status = "Pending"
        /\ commitments[i].milestones_attested < commitments[i].terms.milestones
        /\ commitments' = [commitments EXCEPT ![i] = Attested(commitments[i], o)]
    BY <2>1 DEF AttestMilestone, NextMilestone
  <2> QED BY <2>2 DEF Advances, Attests, TypeOK
<1>2. CASE RaiseDispute
  <2>1. PICK caller \in Addresses, i \in Ids : Dispute(caller, i)
    BY <1>2 DEF RaiseDispute
  <2>2. /\ commitments[i].status \in Outcomes
        /\ InDisputeWindow(commitments[i])
        /\ commitments' = [commitments EXCEPT ![i] = [commitments[i] EXCEPT !.status = "Disputed"]]
    BY <2>1 DEF Dispute
  <2> QED BY <2>2 DEF Advances, Contests, TypeOK
<1>3. CASE ResolveDispute \/ PanelVote \/ Timeout
  <2>1. \/ UNCHANGED commitments
        \/ \E i \in Ids, o \in Outcomes :
              /\ commitments[i].status = "Disputed"
              /\ commitments' = [commitments EXCEPT ![i] = Settled(commitments[i], o)]
    <3>1. CASE ResolveDispute
      BY <3>1 DEF ResolveDispute, ResolveByResolver, ResolveByCommittee, FinalizeResolution
    <3>2. CASE PanelVote
      BY <3>2 DEF PanelVote, CastDisputeVote, PersistOutcome
    <3>3. CASE Timeout
      <4>1. "Breached" \in Outcomes
        BY DEF Outcomes
      <4> QED BY <3>3, <4>1 DEF Timeout, CheckDisputeTimeout, PersistOutcome
    <3> QED BY <1>3, <3>1, <3>2, <3>3
  <2> QED BY <2>1 DEF Advances, Settles, TypeOK
<1>4. CASE Setup \/ Administer \/ Stake \/ Unstake \/ Migrate \/ Tick \/ UNCHANGED vars
  <2>1. UNCHANGED commitments
    BY <1>4 DEF Setup, Initialize, SetToken, Administer, SetPaused, Upgrade, Stake, StakeAttestor,
       Unstake, RequestUnstake, FinalizeUnstake, Migrate, MigrateReputationBatch, Tick, vars
  <2> QED BY <2>1 DEF Advances
<1> QED BY <1>1, <1>2, <1>3, <1>4 DEF Next

\* Every step of the contract makes at most one of the four transitions to each
\* commitment.
LEMMA CommitmentsMove ==
    ASSUME TypeOK, IdsAreFresh, [Next]_vars, NEW id \in Ids
    PROVE  Registers(id) \/ Advances(id)
<1>1. CASE Create
  <2>1. PICK ps \in Seq(CreateParams) : CreateAll(ps)
    BY <1>1, CreateIsCreateAll
  <2> QED BY <2>1, CreateAllMoves DEF Advances
<1>2. CASE ~Create
  BY <1>2, CommitmentsAdvance
<1> QED BY <1>1, <1>2

\* Ids are handed out in order by every way to register, and never given back.
LEMMA IdsAreFreshStep ==
    ASSUME TypeOK, IdsAreFresh, [Next]_vars
    PROVE  IdsAreFresh'
<1> USE DEF commitmentVars
<1>1. ASSUME NEW ps \in Seq(CreateParams), CreateAll(ps)
      PROVE  IdsAreFresh'
  <2>1. ASSUME NEW id \in Ids
        PROVE  (commitments'[id].status # "Absent") <=> (id < nextId')
    <3>1. id \in Nat /\ nextId \in Nat /\ Len(ps) \in Nat /\ nextId' = nextId + Len(ps)
      BY <1>1, RegistryAssumption DEF CreateAll, TypeOK, Ids
    <3>2. CASE id >= nextId /\ id < nextId + Len(ps)
      <4>1. commitments'[id].status = "Pending"
        BY <1>1, <3>2 DEF CreateAll, NewCommitment
      <4> QED BY <3>1, <3>2, <4>1
    <3>3. CASE ~(id >= nextId /\ id < nextId + Len(ps))
      <4>1. commitments'[id] = commitments[id]
        BY <1>1, <3>3 DEF CreateAll
      <4> QED BY <3>1, <3>3, <4>1 DEF IdsAreFresh, Exists
    <3> QED BY <3>2, <3>3
  <2> QED BY <2>1 DEF IdsAreFresh, Exists
<1>2. CASE Create
  BY <1>1, <1>2, CreateIsCreateAll
<1>3. CASE ~Create
  <2>1. nextId' = nextId
    BY <1>3 DEF Next, Attest, AttestMilestone, RaiseDispute, Dispute, ResolveDispute,
       ResolveByResolver, ResolveByCommittee, PanelVote, CastDisputeVote, Timeout,
       CheckDisputeTimeout, Setup, Initialize, SetToken, Administer, SetPaused, Upgrade, Stake,
       StakeAttestor, Unstake, RequestUnstake, FinalizeUnstake, Migrate, MigrateReputationBatch,
       Tick, vars
  <2>2. ASSUME NEW id \in Ids PROVE Exists(id) <=> (commitments'[id].status # "Absent")
    <3>1. Advances(id)
      BY <1>3, CommitmentsAdvance
    <3>2. CASE Attests(id)
      <4>1. commitments[id] \in Commitment
        BY <3>2, StoredCommitment DEF Attests, Exists
      <4>2. PICK o \in Outcomes : commitments'[id] = Attested(commitments[id], o)
        BY <3>2 DEF Attests
      <4>3. commitments'[id].status = Resolution(commitments[id], o)
        BY <4>1, <4>2 DEF Attested, Commitment
      <4> QED BY <3>2, <4>3 DEF Attests, Resolution, Exists
    <3>3. CASE Contests(id)
      <4>1. commitments[id] \in Commitment
        BY <3>3, StoredCommitment DEF Contests, Exists, Outcomes
      <4> QED BY <3>3, <4>1 DEF Contests, Exists, Commitment, Outcomes
    <3>4. CASE Settles(id)
      <4>1. commitments[id] \in Commitment
        BY <3>4, StoredCommitment DEF Settles, Exists
      <4> QED BY <3>4, <4>1 DEF Settles, Settled, Exists, Commitment, Outcomes
    <3> QED BY <3>1, <3>2, <3>3, <3>4 DEF Advances, Exists
  <2> QED BY <2>1, <2>2 DEF IdsAreFresh, Exists
<1> QED BY <1>2, <1>3

\* Nothing is registered at deployment.
LEMMA LifeInit == Init => IdsAreFresh /\ OutcomeFollowsMilestones
BY RegistryAssumption DEF Init, IdsAreFresh, OutcomeFollowsMilestones, Exists, NoCommitment, Ids

\* Each of the four transitions keeps a record's status, attestation time and
\* milestone counters in agreement.
LEMMA OutcomeFollowsMilestonesStep ==
    ASSUME TypeOK, IdsAreFresh, OutcomeFollowsMilestones, [Next]_vars
    PROVE  OutcomeFollowsMilestones'
<1> SUFFICES ASSUME NEW id \in Ids, commitments'[id].status # "Absent"
             PROVE  Follows(commitments'[id])
  BY DEF OutcomeFollowsMilestones, Exists, Follows
<1>1. CASE commitments'[id] = commitments[id]
  BY <1>1 DEF OutcomeFollowsMilestones, Exists, Follows
<1>2. CASE Registers(id)
  <2>1. PICK p \in CreateParams : ValidTerms(p) /\ commitments'[id] = NewCommitment(p)
    BY <1>2 DEF Registers
  <2>2. p.milestones \in Nat \ {0}
    BY <2>1, RegistryAssumption DEF ValidTerms, Terms
  <2> QED BY <2>1, <2>2 DEF NewCommitment, Follows
<1>3. ASSUME Exists(id) PROVE commitments[id] \in Commitment /\ commitments[id].terms.milestones \in Nat
                              /\ Follows(commitments[id])
  BY <1>3, StoredCommitment, RegistryAssumption DEF OutcomeFollowsMilestones, Terms, Follows
<1>4. CASE Attests(id)
  <2> DEFINE c == commitments[id]
  <2>1. c \in Commitment /\ c.terms.milestones \in Nat /\ Follows(c) /\ now \in Nat
    BY <1>3, <1>4 DEF Attests, Exists, TypeOK
  <2>2. PICK o \in Outcomes : commitments'[id] = Attested(c, o)
    BY <1>4 DEF Attests
  <2>3. c.status = "Pending" /\ c.milestones_attested < c.terms.milestones
    BY <1>4 DEF Attests
  <2> HIDE DEF c
  <2>4. Follows(Attested(c, o))
    BY <2>1, <2>3, NoneAssumption DEF Follows, Attested, Resolution, Commitment, Outcomes
  <2> QED BY <2>2, <2>4
<1>5. CASE Contests(id)
  <2>1. commitments[id] \in Commitment /\ Follows(commitments[id])
    BY <1>3, <1>5 DEF Contests, Exists, Outcomes
  <2> QED BY <1>5, <2>1 DEF Contests, InDisputeWindow, Follows, Commitment
<1>6. CASE Settles(id)
  <2>1. commitments[id] \in Commitment /\ Follows(commitments[id])
    BY <1>3, <1>6 DEF Settles, Exists
  <2> QED BY <1>6, <2>1 DEF Settles, Settled, Follows, Commitment, Outcomes
<1> QED BY <1>1, <1>2, <1>4, <1>5, <1>6, CommitmentsMove DEF Advances

LifeInv == TypeOK /\ IdsAreFresh /\ OutcomeFollowsMilestones

\* The inductive invariant of the life of a commitment.
LEMMA LifeInvariant == Spec => []LifeInv
<1>1. Init => LifeInv
  BY TypeOKInit, LifeInit DEF LifeInv
<1>2. LifeInv /\ [Next]_vars => LifeInv'
  BY TypeOKStep, IdsAreFreshStep, OutcomeFollowsMilestonesStep DEF LifeInv
<1> QED BY <1>1, <1>2, PTL DEF Spec

\* A stored status is always the one its milestones add up to, or one a dispute
\* settled.
THEOREM OutcomesFollowMilestones == Spec => []OutcomeFollowsMilestones
<1>1. LifeInv => OutcomeFollowsMilestones
  BY DEF LifeInv
<1> QED BY <1>1, LifeInvariant, PTL

\* An outcome settled by a dispute, or left undisputed until its window closed,
\* never changes again.
THEOREM SettledOutcomesAreFinal == Spec => OutcomesBecomeFinal
<1>1. ASSUME TypeOK, IdsAreFresh, [Next]_vars, NEW id \in Ids,
             commitments[id].status \in Outcomes,
             commitments[id].attested_at # None =>
               now > commitments[id].attested_at + DISPUTE_WINDOW_SECONDS
      PROVE  UNCHANGED commitments[id]
  <2>1. Registers(id) \/ Advances(id)
    BY <1>1, CommitmentsMove
  <2>2. ~Registers(id) /\ ~Attests(id) /\ ~Settles(id)
    BY <1>1 DEF Registers, Exists, Attests, Settles, Outcomes
  <2>3. commitments[id] \in Commitment /\ now \in Nat
    BY <1>1, StoredCommitment DEF Exists, Outcomes, TypeOK
  <2>4. ~InDisputeWindow(commitments[id])
    BY <1>1, <2>3, RegistryAssumption DEF InDisputeWindow, Commitment
  <2> QED BY <2>1, <2>2, <2>4 DEF Advances, Contests
<1>2. LifeInv /\ [Next]_vars =>
        [\A id \in Ids :
           LET c == commitments[id]
           IN  (/\ c.status \in Outcomes
                /\ c.attested_at # None => now > c.attested_at + DISPUTE_WINDOW_SECONDS)
               => UNCHANGED commitments[id]]_vars
  BY <1>1 DEF LifeInv
<1> QED BY <1>2, LifeInvariant, PTL DEF Spec, OutcomesBecomeFinal

-----------------------------------------------------------------------------
(***************************************************************************)
(* The reputation of an issuer is exactly the count of its commitments'    *)
(* standing outcomes, under either storage schema and across migrations.   *)
(*                                                                         *)
(* The two properties hold together or not at all: the sum kept in a V2    *)
(* row stays right because a retraction never meets the floor at zero, and *)
(* it never does because the counters are the true counts.                 *)
(***************************************************************************)

\* What update_reputation does to what the getters return.
LEMMA UpdateReputationEffect ==
    ASSUME ReputationTypeOK, RowsAreConsistent,
           NEW a \in Addresses, NEW o \in Outcomes, NEW increment \in BOOLEAN,
           UpdateReputation(a, o, increment),
           increment \/ ReputationView(a)[o] > 0
    PROVE  /\ RowsAreConsistent'
           /\ \A b \in Addresses, p \in Outcomes :
                (ReputationView(b)')[p] =
                  IF b = a /\ p = o
                  THEN ReputationView(b)[p] + (IF increment THEN 1 ELSE -1)
                  ELSE ReputationView(b)[p]
<1> USE DEF SCHEMA_VERSION_V1, SCHEMA_VERSION_V2
<1> DEFINE old == ReputationView(a)
           new == ApplyOutcome(old, o, increment)
<1>1. old \in Counts
  BY NoneIsNoRow DEF ReputationTypeOK, ReputationView, ReputationV2View, ProjectV1toV2, RowV2, Counts,
     ZeroCounts, Outcomes
<1>2. /\ new \in Counts
      /\ \A p \in Outcomes : new[p] = IF p = o THEN old[p] + (IF increment THEN 1 ELSE -1) ELSE old[p]
  BY <1>1 DEF ApplyOutcome, Bump, Counts
<1>3. CASE schemaVersion < SCHEMA_VERSION_V2
  <2>1. repV1' = [repV1 EXCEPT ![a] = new] /\ UNCHANGED <<schemaVersion, repV2>>
    BY <1>3 DEF UpdateReputation
  <2>2. \A b \in Addresses : repV2[b] = None
    BY <1>3 DEF RowsAreConsistent, ReputationTypeOK
  <2>3. new # None
    BY <1>2, NoneIsNoRow
  <2>4. \A b \in Addresses : ReputationView(b)' = IF b = a THEN new ELSE ReputationView(b)
    <3> HIDE DEF new
    <3> QED BY <1>3, <2>1, <2>3 DEF ReputationView, ReputationTypeOK
  <2> QED BY <1>2, <2>1, <2>2, <2>4 DEF RowsAreConsistent
<1>4. CASE ~(schemaVersion < SCHEMA_VERSION_V2)
  <2> DEFINE view == ReputationV2View(a)
             row == [counts |-> new, direct |-> Bump(view.direct, increment)]
  <2>1. schemaVersion = SCHEMA_VERSION_V2 /\ schemaVersion' = schemaVersion
    BY <1>4 DEF UpdateReputation, ReputationTypeOK
  <2>2. old = view.counts
    BY <1>4 DEF ReputationView
  <2>3. repV2' = [repV2 EXCEPT ![a] = row]
    BY <1>4, <2>2 DEF UpdateReputation
  <2>4. repV1' = [repV1 EXCEPT ![a] = None]
    BY <1>4, <2>1 DEF UpdateReputation, MigrationPending, RowsAreConsistent, ReputationTypeOK
  <2>5. view.direct = old["Fulfilled"] + old["Late"] + old["Breached"]
    BY <2>2 DEF ReputationV2View, ProjectV1toV2, RowsAreConsistent, ZeroCounts, Outcomes
  <2>6. row.direct = new["Fulfilled"] + new["Late"] + new["Breached"] /\ row.direct \in Nat
    <3>1. /\ old["Fulfilled"] \in Nat /\ old["Late"] \in Nat /\ old["Breached"] \in Nat
          /\ o \in {"Fulfilled", "Late", "Breached"}
      BY <1>1 DEF Counts, Outcomes
    <3>2. \/ increment /\ new[o] = old[o] + 1
          \/ ~increment /\ new[o] = old[o] - 1 /\ old[o] > 0
      BY <1>2
    <3>3. row.direct = Bump(view.direct, increment)
      OBVIOUS
    <3>4. \A p \in {"Fulfilled", "Late", "Breached"} : p # o => new[p] = old[p]
      BY <1>2 DEF Outcomes
    <3> HIDE DEF old, new, row, view
    <3> QED BY <2>5, <3>1, <3>2, <3>3, <3>4 DEF Bump
  <2>7. row \in RowV2 /\ row # None /\ row.counts = new
    BY <1>2, <2>6, NoneIsNoRow DEF RowV2
  <2> HIDE DEF row, view, old, new
  <2>8. RowsAreConsistent'
    BY <2>1, <2>3, <2>4, <2>6, <2>7 DEF RowsAreConsistent, ReputationTypeOK, ProjectV1toV2
  <2>9. \A b \in Addresses : ReputationView(b)' = IF b = a THEN new ELSE ReputationView(b)
    BY <2>1, <2>3, <2>4, <2>7 DEF ReputationView, ReputationV2View, ReputationTypeOK
  <2> QED BY <1>2, <2>8, <2>9 DEF old
<1> QED BY <1>3, <1>4

\* Neither a schema switch nor a migration changes what a getter returns.
LEMMA SwitchSchemaEffect ==
    ASSUME ReputationTypeOK, RowsAreConsistent, NEW v \in Nat, SwitchSchema(v)
    PROVE  RowsAreConsistent' /\ \A b \in Addresses : ReputationView(b)' = ReputationView(b)
<1> USE DEF SCHEMA_VERSION_V1, SCHEMA_VERSION_V2
<1>1. RowsAreConsistent'
  BY DEF SwitchSchema, RowsAreConsistent, ReputationTypeOK
<1>2. ASSUME NEW b \in Addresses PROVE ReputationView(b)' = ReputationView(b)
  <2>1. CASE schemaVersion' = schemaVersion
    BY <2>1 DEF SwitchSchema, ReputationView, ReputationV2View
  <2>2. CASE schemaVersion' # schemaVersion
    <3>1. schemaVersion = SCHEMA_VERSION_V1 /\ ~(schemaVersion' < SCHEMA_VERSION_V2)
      BY <2>2 DEF SwitchSchema, ReputationTypeOK
    <3>2. repV2[b] = None /\ repV2'[b] = None /\ repV1'[b] = repV1[b]
      BY <3>1 DEF SwitchSchema, RowsAreConsistent
    <3> QED BY <3>1, <3>2 DEF ReputationView, ReputationV2View, ProjectV1toV2
  <2> QED BY <2>1, <2>2
<1> QED BY <1>1, <1>2

\* A batch migration moves rows between schemas without changing what a getter
\* returns.
LEMMA MigrateRowsEffect ==
    ASSUME ReputationTypeOK, RowsAreConsistent, NEW as, MigrateRows(as)
    PROVE  RowsAreConsistent' /\ \A b \in Addresses : ReputationView(b)' = ReputationView(b)
<1> USE DEF SCHEMA_VERSION_V1, SCHEMA_VERSION_V2
<1>1. schemaVersion = SCHEMA_VERSION_V2 /\ schemaVersion' = schemaVersion
  BY DEF MigrateRows, ReputationTypeOK
<1>2. ASSUME NEW b \in Addresses
      PROVE  /\ repV1'[b] = None \/ repV2'[b] = None
             /\ repV2'[b] # None =>
                  repV2'[b].direct = ProjectV1toV2(repV2'[b].counts).direct
             /\ ReputationView(b)' = ReputationView(b)
  <2>1. CASE b \in as /\ MigrationPending(b)
    <3>1. repV2'[b] = ReputationV2View(b) /\ repV1'[b] = None
      BY <2>1 DEF MigrateRows
    <3>2. repV2'[b] = ProjectV1toV2(repV1[b])
      BY <2>1, <3>1 DEF MigrationPending, ReputationV2View
    <3>3. repV2'[b] # None
      BY <3>2, <2>1, NoneIsNoRow DEF MigrationPending, ReputationTypeOK, ProjectV1toV2, RowV2, Counts,
         Outcomes
    <3> QED BY <1>1, <3>1, <3>2, <3>3 DEF ReputationView, ReputationV2View, ProjectV1toV2
  <2>2. CASE ~(b \in as /\ MigrationPending(b))
    <3>1. repV2'[b] = repV2[b] /\ repV1'[b] = repV1[b]
      BY <2>2 DEF MigrateRows
    <3> QED BY <1>1, <3>1 DEF ReputationView, ReputationV2View, RowsAreConsistent
  <2> QED BY <2>1, <2>2
<1> QED BY <1>1, <1>2 DEF RowsAreConsistent

-----------------------------------------------------------------------------
\* Only assigned ids stand at an outcome, so they can be counted.
LEMMA StandingIsFinite ==
    ASSUME NEW a, NEW o
    PROVE  IsFiniteSet(Standing(a, o)) /\ Cardinality(Standing(a, o)) \in Nat
<1>1. IsFiniteSet(Ids)
  BY FS_Interval, RegistryAssumption DEF Ids
<1>2. Standing(a, o) \in SUBSET Ids
  BY DEF Standing
<1> QED BY <1>1, <1>2, FS_Subset, FS_CardinalityType

\* A commitment that comes to stand at an outcome adds one to its issuer's counter.
LEMMA OutcomeAdded ==
    ASSUME TypeOK, RowsAreConsistent, ReputationMatchesOutcomes,
           NEW id \in Ids, Exists(id), commitments[id].status \notin Outcomes,
           NEW o \in Outcomes, NEW d,
           commitments' = [commitments EXCEPT ![id] = d],
           d.status = o, d.terms = commitments[id].terms,
           RecordOutcome(commitments[id].terms.issuer, o, TRUE)
    PROVE  RowsAreConsistent' /\ ReputationMatchesOutcomes'
<1> DEFINE issuer == commitments[id].terms.issuer
<1>1. issuer \in Addresses /\ commitments \in [Ids -> Commitment \cup {NoCommitment}]
  BY StoredCommitment DEF TypeOK
<1>2. /\ RowsAreConsistent'
      /\ \A b \in Addresses, p \in Outcomes :
           (ReputationView(b)')[p] = IF b = issuer /\ p = o THEN ReputationView(b)[p] + 1
                                   ELSE ReputationView(b)[p]
  <2> HIDE DEF issuer
  <2>1. UpdateReputation(issuer, o, TRUE)
    BY DEF RecordOutcome, issuer
  <2>2. ReputationTypeOK
    BY <1>1 DEF TypeOK
  <2>3. /\ RowsAreConsistent'
        /\ \A b \in Addresses, p \in Outcomes :
             (ReputationView(b)')[p] =
               IF b = issuer /\ p = o
               THEN ReputationView(b)[p] + (IF TRUE THEN 1 ELSE -1)
               ELSE ReputationView(b)[p]
    BY <1>1, <2>1, <2>2, UpdateReputationEffect, Zenon
  <2> QED BY <2>3
<1>3. ASSUME NEW b \in Addresses, NEW p \in Outcomes
      PROVE  (ReputationView(b)')[p] = Cardinality(Standing(b, p)')
  <2>1. ReputationView(b)[p] = Cardinality(Standing(b, p)) /\ id \notin Standing(b, p)
    BY DEF ReputationMatchesOutcomes, Standing
  <2>2. CASE b = issuer /\ p = o
    <3>1. Standing(b, p)' = Standing(b, p) \cup {id}
      BY <1>1, <2>2 DEF Standing
    <3>2. Cardinality(Standing(b, p) \cup {id}) = Cardinality(Standing(b, p)) + 1
      BY <2>1, StandingIsFinite, FS_AddElement
    <3> QED BY <1>2, <2>1, <2>2, <3>1, <3>2
  <2>3. CASE ~(b = issuer /\ p = o)
    <3>1. Standing(b, p)' = Standing(b, p)
      BY <1>1, <2>1, <2>3 DEF Standing
    <3> QED BY <1>2, <2>1, <2>3, <3>1
  <2> QED BY <2>2, <2>3
<1> QED BY <1>2, <1>3 DEF ReputationMatchesOutcomes

\* A commitment that leaves an outcome takes one from its issuer's counter.
LEMMA OutcomeRetracted ==
    ASSUME TypeOK, RowsAreConsistent, ReputationMatchesOutcomes,
           NEW id \in Ids, NEW o \in Outcomes, commitments[id].status = o, NEW d,
           commitments' = [commitments EXCEPT ![id] = d],
           d.status \notin Outcomes,
           RecordOutcome(commitments[id].terms.issuer, o, FALSE)
    PROVE  RowsAreConsistent' /\ ReputationMatchesOutcomes'
<1> DEFINE issuer == commitments[id].terms.issuer
<1>1. issuer \in Addresses /\ commitments \in [Ids -> Commitment \cup {NoCommitment}]
  BY StoredCommitment DEF TypeOK, Exists, Outcomes
<1>2. ReputationView(issuer)[o] > 0
  <2>1. id \in Standing(issuer, o)
    BY DEF Standing
  <2>2. Cardinality(Standing(issuer, o)) # 0
    BY <2>1, StandingIsFinite, FS_EmptySet
  <2>3. Cardinality(Standing(issuer, o)) \in Nat
    BY StandingIsFinite
  <2> QED BY <1>1, <2>2, <2>3 DEF ReputationMatchesOutcomes
<1>3. /\ RowsAreConsistent'
      /\ \A b \in Addresses, p \in Outcomes :
           (ReputationView(b)')[p] = IF b = issuer /\ p = o THEN ReputationView(b)[p] + (-1)
                                   ELSE ReputationView(b)[p]
  <2> HIDE DEF issuer
  <2>1. UpdateReputation(issuer, o, FALSE)
    BY DEF RecordOutcome, issuer
  <2>2. ReputationTypeOK /\ (FALSE \/ ReputationView(issuer)[o] > 0)
    BY <1>2 DEF TypeOK
  <2>3. /\ RowsAreConsistent'
        /\ \A b \in Addresses, p \in Outcomes :
             (ReputationView(b)')[p] =
               IF b = issuer /\ p = o
               THEN ReputationView(b)[p] + (IF FALSE THEN 1 ELSE -1)
               ELSE ReputationView(b)[p]
    BY <1>1, <2>1, <2>2, UpdateReputationEffect, Zenon
  <2> QED BY <2>3
<1>4. ASSUME NEW b \in Addresses, NEW p \in Outcomes
      PROVE  (ReputationView(b)')[p] = Cardinality(Standing(b, p)')
  <2>1. ReputationView(b)[p] = Cardinality(Standing(b, p)) /\ Cardinality(Standing(b, p)) \in Nat
    BY StandingIsFinite DEF ReputationMatchesOutcomes
  <2>2. CASE b = issuer /\ p = o
    <3>1. Standing(b, p)' = Standing(b, p) \ {id} /\ id \in Standing(b, p)
      BY <1>1, <2>2 DEF Standing
    <3>2. Cardinality(Standing(b, p) \ {id}) = Cardinality(Standing(b, p)) - 1
      BY <3>1, StandingIsFinite, FS_RemoveElement
    <3> QED BY <1>3, <2>1, <2>2, <3>1, <3>2
  <2>3. CASE ~(b = issuer /\ p = o)
    <3>1. Standing(b, p)' = Standing(b, p)
      BY <1>1, <2>3 DEF Standing
    <3> QED BY <1>3, <2>1, <2>3, <3>1
  <2> QED BY <2>2, <2>3
<1> QED BY <1>3, <1>4 DEF ReputationMatchesOutcomes

\* A step that changes no reputation may move commitments between states that
\* count for nothing.
LEMMA OutcomesKept ==
    ASSUME TypeOK, RowsAreConsistent', ReputationMatchesOutcomes,
           \A b \in Addresses : ReputationView(b)' = ReputationView(b),
           \A id \in Ids : \/ commitments'[id] = commitments[id]
                          \/ /\ commitments[id].status \notin Outcomes
                             /\ commitments'[id].status \notin Outcomes
    PROVE  RowsAreConsistent' /\ ReputationMatchesOutcomes'
<1>1. \A b \in Addresses, p \in Outcomes : Standing(b, p)' = Standing(b, p)
  BY DEF Standing
<1> QED BY <1>1 DEF ReputationMatchesOutcomes

\* Rows that no step touches.
LEMMA RowsKept ==
    ASSUME RowsAreConsistent, UNCHANGED repVars
    PROVE  RowsAreConsistent' /\ \A b \in Addresses : ReputationView(b)' = ReputationView(b)
BY DEF repVars, RowsAreConsistent, ReputationView, ReputationV2View

\* Settling a dispute, by whichever route, scores its outcome once.
LEMMA SettledScored ==
    ASSUME TypeOK, RowsAreConsistent, ReputationMatchesOutcomes,
           NEW id \in Ids, commitments[id].status = "Disputed", NEW o \in Outcomes,
           commitments' = [commitments EXCEPT ![id] = Settled(commitments[id], o)],
           RecordOutcome(commitments[id].terms.issuer, o, TRUE)
    PROVE  RowsAreConsistent' /\ ReputationMatchesOutcomes'
<1>1. Exists(id) /\ commitments[id].status \notin Outcomes
  BY DEF Exists, Outcomes
<1>2. commitments[id] \in Commitment
  BY <1>1, StoredCommitment
<1> DEFINE d == Settled(commitments[id], o)
<1>3. d.status = o /\ d.terms = commitments[id].terms
  BY <1>2 DEF Settled, Commitment
<1>4. commitments' = [commitments EXCEPT ![id] = d]
  OBVIOUS
<1> HIDE DEF d
<1> QED BY <1>1, <1>3, <1>4, OutcomeAdded

\* Every step of the contract keeps reputations equal to the counts of standing
\* commitments, and rows under one schema.
LEMMA ReputationStep ==
    ASSUME TypeOK, IdsAreFresh, RowsAreConsistent, ReputationMatchesOutcomes, [Next]_vars
    PROVE  RowsAreConsistent' /\ ReputationMatchesOutcomes'
<1> USE DEF outcomeVars
<1>1. CASE Create
  <2>1. PICK ps \in Seq(CreateParams) : CreateAll(ps)
    BY <1>1, CreateIsCreateAll
  <2>2. UNCHANGED repVars
    BY <2>1 DEF CreateAll
  <2>3. ASSUME NEW id \in Ids
        PROVE  \/ commitments'[id] = commitments[id]
               \/ /\ commitments[id].status \notin Outcomes
                  /\ commitments'[id].status \notin Outcomes
    <3>1. Registers(id) \/ commitments'[id] = commitments[id]
      BY <2>1, CreateAllMoves
    <3>2. ASSUME Registers(id)
          PROVE  commitments[id].status = "Absent" /\ commitments'[id].status = "Pending"
      BY <3>2 DEF Registers, Exists, NewCommitment
    <3> QED BY <3>1, <3>2 DEF Outcomes
  <2> QED BY <2>2, <2>3, RowsKept, OutcomesKept
<1>2. CASE Attest
  <2>1. PICK caller \in Addresses, id \in Ids, index \in 0 .. MAX_MILESTONES, o \in Outcomes :
           AttestMilestone(caller, id, index, o)
    BY <1>2 DEF Attest
  <2> DEFINE r == Resolution(commitments[id], o)
             d == Attested(commitments[id], o)
  <2>2. /\ commitments[id].status = "Pending"
        /\ commitments' = [commitments EXCEPT ![id] = d]
        /\ IF r = "Pending" THEN UNCHANGED outcomeVars
           ELSE RecordOutcome(commitments[id].terms.issuer, r, TRUE)
    BY <2>1 DEF AttestMilestone
  <2>3. Exists(id) /\ commitments[id].status \notin Outcomes
    BY <2>2 DEF Exists, Outcomes
  <2>4. commitments[id] \in Commitment
    BY <2>3, StoredCommitment
  <2>5. d.status = r /\ d.terms = commitments[id].terms
    BY <2>4 DEF Attested, Commitment
  <2>6. r \in Outcomes \cup {"Pending"}
    BY DEF Resolution, Outcomes
  <2>7. CASE r = "Pending"
    <3>1. UNCHANGED repVars
      BY <2>2, <2>7
    <3>2. \A i \in Ids : \/ commitments'[i] = commitments[i]
                        \/ /\ commitments[i].status \notin Outcomes
                           /\ commitments'[i].status \notin Outcomes
      <4> HIDE DEF d, r
      <4> QED BY <2>2, <2>3, <2>5, <2>7 DEF TypeOK, Outcomes
    <3> QED BY <3>1, <3>2, RowsKept, OutcomesKept
  <2>8. CASE r # "Pending"
    <3>1. RecordOutcome(commitments[id].terms.issuer, r, TRUE) /\ r \in Outcomes
      BY <2>2, <2>6, <2>8
    <3> HIDE DEF d, r
    <3> QED BY <2>2, <2>3, <2>5, <3>1, OutcomeAdded
  <2> QED BY <2>7, <2>8
<1>3. CASE RaiseDispute
  <2>1. PICK caller \in Addresses, id \in Ids : Dispute(caller, id)
    BY <1>3 DEF RaiseDispute
  <2> DEFINE d == [commitments[id] EXCEPT !.status = "Disputed"]
             o == commitments[id].status
  <2>2. /\ o \in Outcomes
        /\ commitments' = [commitments EXCEPT ![id] = d]
        /\ RecordOutcome(commitments[id].terms.issuer, o, FALSE)
    BY <2>1 DEF Dispute
  <2>3. commitments[id] \in Commitment
    BY <2>2, StoredCommitment DEF Exists, Outcomes
  <2>4. d.status \notin Outcomes
    BY <2>3 DEF Commitment, Outcomes
  <2> HIDE DEF d
  <2> QED BY <2>2, <2>4, OutcomeRetracted
<1>4. CASE ResolveDispute
  <2>1. PICK caller \in Addresses, id \in Ids, o \in Outcomes :
           ResolveByResolver(caller, id, o) \/ ResolveByCommittee(caller, id, o)
    BY <1>4 DEF ResolveDispute
  <2>2. commitments[id].status = "Disputed"
    BY <2>1 DEF ResolveByResolver, ResolveByCommittee
  <2>3. FinalizeResolution(id, o) \/ UNCHANGED <<commitments, outcomeVars>>
    BY <2>1 DEF ResolveByResolver, ResolveByCommittee
  <2>4. CASE FinalizeResolution(id, o)
    BY <2>2, <2>4, SettledScored DEF FinalizeResolution
  <2>5. CASE UNCHANGED <<commitments, outcomeVars>>
    BY <2>5, RowsKept, OutcomesKept
  <2> QED BY <2>3, <2>4, <2>5
<1>5. CASE PanelVote
  <2>1. PICK a \in Addresses, id \in Ids, o \in Outcomes : CastDisputeVote(a, id, o)
    BY <1>5 DEF PanelVote
  <2>2. commitments[id].status = "Disputed"
    BY <2>1 DEF CastDisputeVote
  <2>3. PersistOutcome(id, o) \/ UNCHANGED <<commitments, outcomeVars>>
    BY <2>1 DEF CastDisputeVote
  <2>4. CASE PersistOutcome(id, o)
    BY <2>2, <2>4, SettledScored DEF PersistOutcome
  <2>5. CASE UNCHANGED <<commitments, outcomeVars>>
    BY <2>5, RowsKept, OutcomesKept
  <2> QED BY <2>3, <2>4, <2>5
<1>6. CASE Timeout
  <2>1. PICK id \in Ids : CheckDisputeTimeout(id)
    BY <1>6 DEF Timeout
  <2>2. commitments[id].status = "Disputed" /\ PersistOutcome(id, "Breached") /\ "Breached" \in Outcomes
    BY <2>1 DEF CheckDisputeTimeout, Outcomes
  <2> QED BY <2>2, SettledScored DEF PersistOutcome
<1>7. CASE Administer \/ Migrate
  <2>1. UNCHANGED commitments
    BY <1>7 DEF Administer, SetPaused, Upgrade, Migrate, MigrateReputationBatch, commitmentVars
  <2>2. \/ UNCHANGED repVars
        \/ \E v \in {SCHEMA_VERSION_V1, SCHEMA_VERSION_V2} : SwitchSchema(v)
        \/ \E a \in Addresses : MigrateRows({a})
    BY <1>7 DEF Administer, SetPaused, Upgrade, Migrate, MigrateReputationBatch
  <2>3. RowsAreConsistent' /\ \A b \in Addresses : ReputationView(b)' = ReputationView(b)
    <3>1. CASE UNCHANGED repVars
      BY <3>1, RowsKept
    <3>2. ASSUME NEW v \in {SCHEMA_VERSION_V1, SCHEMA_VERSION_V2}, SwitchSchema(v)
          PROVE  RowsAreConsistent' /\ \A b \in Addresses : ReputationView(b)' = ReputationView(b)
      <4>1. v \in Nat
        BY DEF SCHEMA_VERSION_V1, SCHEMA_VERSION_V2
      <4> QED BY <3>2, <4>1, SwitchSchemaEffect DEF TypeOK
    <3>3. ASSUME NEW a \in Addresses, MigrateRows({a})
          PROVE  RowsAreConsistent' /\ \A b \in Addresses : ReputationView(b)' = ReputationView(b)
      BY <3>3, MigrateRowsEffect DEF TypeOK
    <3> QED BY <2>2, <3>1, <3>2, <3>3
  <2> QED BY <2>1, <2>3, OutcomesKept
<1>8. CASE Setup \/ Stake \/ Unstake \/ Tick \/ UNCHANGED vars
  <2>1. UNCHANGED <<commitments, repVars>>
    BY <1>8 DEF Setup, Initialize, SetToken, Stake, StakeAttestor, Unstake, RequestUnstake,
       FinalizeUnstake, Tick, vars, commitmentVars
  <2> QED BY <2>1, RowsKept, OutcomesKept
<1> QED BY <1>1, <1>2, <1>3, <1>4, <1>5, <1>6, <1>7, <1>8 DEF Next

\* At deployment nobody has a reputation and nothing stands at an outcome.
LEMMA ReputationAtStart == Init => RowsAreConsistent /\ ReputationMatchesOutcomes
<1> SUFFICES ASSUME Init PROVE RowsAreConsistent /\ ReputationMatchesOutcomes
  OBVIOUS
<1>1. ASSUME NEW a \in Addresses, NEW o \in Outcomes
      PROVE  ReputationView(a)[o] = 0 /\ Standing(a, o) = {}
  BY DEF Init, ReputationInit, ReputationView, ReputationV2View, ZeroCounts, Standing, NoCommitment,
     Outcomes, SCHEMA_VERSION_V1, SCHEMA_VERSION_V2
<1>2. ReputationMatchesOutcomes
  BY <1>1, FS_EmptySet DEF ReputationMatchesOutcomes
<1>3. RowsAreConsistent
  BY DEF Init, ReputationInit, RowsAreConsistent
<1> QED BY <1>2, <1>3

ReputationInv == TypeOK /\ IdsAreFresh /\ RowsAreConsistent /\ ReputationMatchesOutcomes

\* The inductive invariant of the reputation counters.
LEMMA ReputationInvariant == Spec => []ReputationInv
<1>1. Init => ReputationInv
  BY TypeOKInit, LifeInit, ReputationAtStart DEF ReputationInv
<1>2. ReputationInv /\ [Next]_vars => ReputationInv'
  BY TypeOKStep, IdsAreFreshStep, ReputationStep DEF ReputationInv
<1> QED BY <1>1, <1>2, PTL DEF Spec

\* get_reputation returns the number of commitments standing at each outcome, in
\* every behaviour, for any number of issuers and commitments.
THEOREM ReputationIsExact == Spec => []ReputationMatchesOutcomes
<1>1. ReputationInv => ReputationMatchesOutcomes
  BY DEF ReputationInv
<1> QED BY <1>1, ReputationInvariant, PTL

\* A row is stored under one schema only, with its sum right.
THEOREM MigrationKeepsRowsConsistent == Spec => []RowsAreConsistent
<1>1. ReputationInv => RowsAreConsistent
  BY DEF ReputationInv
<1> QED BY <1>1, ReputationInvariant, PTL

\* What is stored of issuers is sound in every reachable state, for any number of
\* accounts, commitments and upgrades.
THEOREM ReputationStaysSound == Spec => []ReputationIsSound
<1>1. TypeOK /\ RowsAreConsistent /\ ReputationMatchesOutcomes => ReputationIsSound
  BY DEF ReputationIsSound
<1> QED BY <1>1, TypeCorrect, MigrationKeepsRowsConsistent, ReputationIsExact, PTL
=============================================================================
