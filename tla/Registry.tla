------------------------------ MODULE Registry ------------------------------
(***************************************************************************)
(* The whole registry contract: every state-mutating entry point, called   *)
(* by anybody at any time in any order, and what must be true of it.       *)
(***************************************************************************)
EXTENDS Disputes

Setup ==
    \/ Initialize
    \/ \E token \in {"dispute", "staking"} : SetToken(token)

Administer ==
    \/ \E p \in BOOLEAN : SetPaused(p)
    \/ \E v \in {SCHEMA_VERSION_V1, SCHEMA_VERSION_V2} : Upgrade(v)

Create ==
    \/ \E p \in CreateParams : CreateCommitment(p)
    \/ \E p, q \in CreateParams : BatchCreateCommitments(p, q)

Attest ==
    \E caller \in Addresses, id \in Ids, index \in 0 .. MAX_MILESTONES, o \in Outcomes :
        AttestMilestone(caller, id, index, o)

RaiseDispute == \E caller \in Addresses, id \in Ids : Dispute(caller, id)

ResolveDispute ==
    \E caller \in Addresses, id \in Ids, o \in Outcomes :
        \/ ResolveByResolver(caller, id, o)
        \/ ResolveByCommittee(caller, id, o)

PanelVote == \E a \in Addresses, id \in Ids, o \in Outcomes : CastDisputeVote(a, id, o)

Timeout == \E id \in Ids : CheckDisputeTimeout(id)

Stake == \E a \in Addresses, amount \in StakeAmounts : StakeAttestor(a, amount)

Unstake == \E a \in Addresses : RequestUnstake(a) \/ FinalizeUnstake(a)

Migrate == \E a \in Addresses : MigrateReputationBatch({a})

Next ==
    \/ Setup
    \/ Administer
    \/ Create
    \/ Attest
    \/ RaiseDispute
    \/ ResolveDispute
    \/ PanelVote
    \/ Timeout
    \/ Stake
    \/ Unstake
    \/ Migrate
    \/ Tick

Spec == Init /\ [][Next]_vars

-----------------------------------------------------------------------------
(* Scoring: an issuer's reputation is a count kept by increments and        *)
(* decrements in five handlers, across two storage schemas.                 *)

\* The commitments of issuer a that stand at outcome o: a disputed one stands
\* at none.
Standing(a, o) ==
    {id \in Ids : commitments[id].status = o /\ commitments[id].terms.issuer = a}

\* What get_reputation returns is, for every address and outcome, exactly the
\* number of its commitments that stand at that outcome: attest adds one, dispute
\* takes the same one back, and every way to settle adds the settled one, whether
\* the row was written under schema 1, migrated lazily, or migrated by a batch.
ReputationMatchesOutcomes ==
    \A a \in Addresses, o \in Outcomes :
        ReputationView(a)[o] = Cardinality(Standing(a, o))

\* A row lives under one schema only, so a migrated address can never serve its
\* stale V1 value, and direct_count of a V2 row is the sum of its counters.
RowsAreConsistent ==
    \A a \in Addresses :
        /\ repV1[a] = None \/ repV2[a] = None
        /\ repV2[a] # None =>
             /\ schemaVersion = SCHEMA_VERSION_V2
             /\ repV2[a].direct = ProjectV1toV2(repV2[a].counts).direct

\* What is stored of issuers is sound: well typed, under one schema at a time, and the
\* count of what their commitments came to.
ReputationIsSound == TypeOK /\ RowsAreConsistent /\ ReputationMatchesOutcomes

-----------------------------------------------------------------------------
(* The life of a commitment.                                                *)

\* Ids are handed out in order, and a record is stored exactly under the ids
\* handed out: what makes a new commitment overwrite nothing.
IdsAreFresh == \A id \in Ids : Exists(id) <=> id < nextId

\* Status, attestation time and milestone counters agree: a pending commitment
\* has milestones left, a standing outcome is the one its milestones add up to,
\* and only a commitment with an attestation can be in dispute.
Follows(c) ==
    /\ c.late_milestones <= c.milestones_attested
    /\ c.milestones_attested <= c.terms.milestones
    /\ c.status = "Pending" =>
         c.attested_at = None /\ c.milestones_attested < c.terms.milestones
    /\ c.status = "Disputed" => c.attested_at # None
    /\ c.status \in {"Fulfilled", "Late"} /\ c.attested_at # None =>
         /\ c.milestones_attested = c.terms.milestones
         /\ (c.status = "Late") <=> (c.late_milestones > 0)

OutcomeFollowsMilestones == \A id \in Ids : Exists(id) => Follows(commitments[id])

\* An outcome settled by a dispute, and one that was not disputed within the
\* window, never changes again: no second dispute, no second attestation.
OutcomesBecomeFinal ==
    [][\A id \in Ids :
         LET c == commitments[id]
         IN  /\ c.status \in Outcomes
             /\ c.attested_at # None => now > c.attested_at + DISPUTE_WINDOW_SECONDS
             => UNCHANGED commitments[id]]_vars

\* A dispute routed to the committee ends only with more than half of the
\* distinct arbitrators having voted for the outcome it ends with; a dispute with
\* a custom resolver never collects committee votes.
CommitteeDecides ==
    [][\A id \in Ids :
         LET c == commitments[id]
         IN  c.status = "Disputed" /\ ~HasPanel(c) /\ commitments'[id].status # "Disputed" =>
               IF CommitteeRouted(c)
               THEN 2 * Cardinality({a \in Committee : votes'[id][a] = commitments'[id].status})
                      > Cardinality(Committee)
               ELSE \A a \in Addresses : votes'[id][a] = None]_vars

-----------------------------------------------------------------------------
(* The attestor panel.                                                      *)

Ballots(id, o) == {a \in Addresses : voteRecord[id][a] = o}

\* The running tally of a dispute is the number of ballots of its panel members,
\* it stays below the threshold, and no ballot outlives its dispute.
TallyMatchesBallots ==
    \A id \in Ids, o \in Outcomes :
        /\ tally[id][o] = Cardinality(Ballots(id, o))
        /\ Ballots(id, o) # {} =>
             /\ commitments[id].status = "Disputed"
             /\ Ballots(id, o) \subseteq Panel(commitments[id])
             /\ tally[id][o] < commitments[id].terms.threshold

\* A panel-governed dispute ends either with threshold many distinct panel
\* members having voted for the outcome, the last of them in this step, or after
\* the voting window as a breach.
PanelDecides ==
    [][\A id \in Ids :
         LET c == commitments[id]
             o == commitments'[id].status
         IN  c.status = "Disputed" /\ HasPanel(c) /\ o # "Disputed" =>
               IF now <= VoteDeadline(c)
               THEN Cardinality(Ballots(id, o)) + 1 >= c.terms.threshold
               ELSE o = "Breached"]_vars

\* Who has voted in an active dispute has a locked, positive stake to lose until
\* the dispute is settled ("both unstake requests and withdrawals are rejected
\* until the dispute resolves", staking.rs).
VotersStayLocked ==
    \A id \in Ids, a \in Addresses :
        voteRecord[id][a] # None => stakes[a].locked /\ stakes[a].staked > 0

\* Every ballot counts, once, and is backed by a stake as long as it counts.
BallotsCount == VotersStayLocked /\ TallyMatchesBallots

\* A recorded stake goes down only when its owner withdraws all of it after an
\* unbonding period, or when a dispute is settled by vote against the owner's
\* ballot; and every such dissenter does lose the cut.
OnlyDissentersForfeit ==
    [][\A a \in Addresses :
         LET lost == stakes[a].staked - stakes'[a].staked
             dissented == \E id \in Ids :
                             /\ commitments[id].status = "Disputed"
                             /\ commitments'[id].status \in Outcomes
                             /\ now <= VoteDeadline(commitments[id])
                             /\ voteRecord[id][a] \notin {None, commitments'[id].status}
         IN  /\ lost > 0 => \/ dissented /\ lost = SlashCut(stakes[a].staked)
                            \/ /\ stakes[a].unbonding_until # None
                               /\ now >= stakes[a].unbonding_until
                               /\ \A id \in Ids : voteRecord[id][a] = None
                               /\ stakes'[a] = NoStake
             /\ dissented => lost = SlashCut(stakes[a].staked)]_vars

\* Anybody may settle an expired dispute, so somebody who cares eventually does.
\* Nothing else is assumed of the parties, the attestors or the administrators.
KeeperFairness ==
    /\ WF_vars(Tick)
    /\ \A id \in Ids : WF_vars(CheckDisputeTimeout(id))

\* A panel-governed dispute always ends, however few attestors vote, whatever they
\* vote, whether they have stakes, and whether the protocol is paused: no state of
\* votes, stakes, locks, schemas and rows keeps the timeout from settling it.  (A
\* deadline at the last tick is never passed, because the clock stops there.)
PanelDisputesEnd ==
    \A id \in Ids :
        (/\ Exists(id)
         /\ commitments[id].status = "Disputed"
         /\ HasPanel(commitments[id])
         /\ VoteDeadline(commitments[id]) < MaxTime)
          ~> commitments[id].status # "Disputed"
=============================================================================
