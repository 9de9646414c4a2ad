------------------------------ MODULE Disputes ------------------------------
(***************************************************************************)
(* The attestor staking vault; raising a dispute, and settling one by a    *)
(* custom resolver, by the arbitrator committee, or by the panel of staked *)
(* attestors (staking.rs, disputes.rs, voting.rs, economics).              *)
(***************************************************************************)
EXTENDS Commitments

-----------------------------------------------------------------------------
(* The staking vault (staking.rs, economics/slash.rs).                      *)

SLASH_PERCENT == 10

\* slash_cut: rounded down, so that a small stake loses nothing.
SlashCut(staked) == (staked * SLASH_PERCENT) \div 100

\* set_locked leaves a zeroed record alone.
WithLock(stake, locked) == IF stake.staked = 0 THEN stake ELSE [stake EXCEPT !.locked = locked]

Slashed(stake) == [stake EXCEPT !.staked = @ - SlashCut(@)]

-----------------------------------------------------------------------------
\* stake_attestor: allowed at any time, also while locked or unbonding.
StakeAttestor(a, amount) ==
    /\ "staking" \in tokens
    /\ amount > 0
    /\ stakes[a].staked + amount <= MaxStake
    /\ stakes' = [stakes EXCEPT ![a].staked = @ + amount]
    /\ vault' = vault + amount
    /\ UNCHANGED <<now, adminVars, commitmentVars, votes, panelVars, escrowVars, outcomeVars>>

RequestUnstake(a) ==
    /\ stakes[a].staked > 0
    /\ ~stakes[a].locked
    /\ stakes[a].unbonding_until = None
    /\ stakes' = [stakes EXCEPT ![a].unbonding_until = now + UNBONDING_PERIOD_SECONDS]
    /\ UNCHANGED <<now, adminVars, commitmentVars, votes, panelVars, vault,
                   escrowVars, outcomeVars>>

\* finalize_unstake withdraws the whole record, removing it before the transfer.
FinalizeUnstake(a) ==
    /\ stakes[a].unbonding_until # None
    /\ now >= stakes[a].unbonding_until
    /\ ~stakes[a].locked
    /\ stakes' = [stakes EXCEPT ![a] = NoStake]
    /\ vault' = vault - stakes[a].staked
    /\ UNCHANGED <<now, adminVars, commitmentVars, votes, panelVars, escrowVars, outcomeVars>>

-----------------------------------------------------------------------------
(* Disputes of the resolver and of the committee (disputes.rs).             *)

InDisputeWindow_Unbounded(c) == c.attested_at # None

\* A dispute may be raised until the window after the attestation closes; a
\* commitment whose dispute was settled has no attestation time left.
InDisputeWindow(c) ==
    /\ c.attested_at # None
    /\ now <= c.attested_at + DISPUTE_WINDOW_SECONDS

Dispute(caller, id) ==
    LET c == commitments[id]
    IN  /\ ~paused
        /\ "dispute" \in tokens
        /\ c.status \in Outcomes
        /\ caller \in {c.terms.issuer, c.terms.counterparty}
        /\ InDisputeWindow(c)
        /\ escrow' = escrow + DISPUTE_STAKE_AMOUNT
        /\ disputeStake' = [disputeStake EXCEPT ![id] = DISPUTE_STAKE_AMOUNT]
        /\ stakes' = [a \in Addresses |->
                        IF a \in Panel(c) THEN WithLock(stakes[a], TRUE) ELSE stakes[a]]
        /\ commitments' = [commitments EXCEPT ![id].status = "Disputed"]
        /\ RecordOutcome(c.terms.issuer, c.status, FALSE)
        /\ UNCHANGED <<now, adminVars, nextId, votes, panelVars, vault>>

-----------------------------------------------------------------------------
Settled_Reopenable(c, o) == [c EXCEPT !.status = o]

\* The settled record: attested_at is cleared so that it cannot be disputed again.
Settled(c, o) == [c EXCEPT !.status = o, !.attested_at = None]

\* The stake is paid out and stays recorded.
FinalizeResolution_KeepsStake(id, o) ==
    /\ commitments' = [commitments EXCEPT ![id] = Settled(@, o)]
    /\ RecordOutcome(commitments[id].terms.issuer, o, TRUE)
    /\ escrow' = escrow - disputeStake[id]
    /\ UNCHANGED disputeStake

\* finalize_resolution: settle, score the outcome, and pay the escrowed stake out.
FinalizeResolution(id, o) ==
    /\ commitments' = [commitments EXCEPT ![id] = Settled(@, o)]
    /\ RecordOutcome(commitments[id].terms.issuer, o, TRUE)
    /\ escrow' = escrow - disputeStake[id]
    /\ disputeStake' = [disputeStake EXCEPT ![id] = 0]

CommitteeRouted(c) == c.terms.resolver \in arbitrators

Voters(id, o) == {a \in Addresses : votes[id][a] = o}

IsMajority_Half(n) == n >= Cardinality(arbitrators) \div 2

\* votes must strictly exceed half of the committee
IsMajority(n) == n > Cardinality(arbitrators) \div 2

\* resolve_dispute by the custom resolver of the commitment: settled at once.
ResolveByResolver(caller, id, o) ==
    LET c == commitments[id]
    IN  /\ ~paused
        /\ arbitrators # {}
        /\ c.status = "Disputed"
        /\ ~HasPanel(c)
        /\ caller = c.terms.resolver
        /\ ~CommitteeRouted(c)
        /\ FinalizeResolution(id, o)
        /\ UNCHANGED <<now, adminVars, nextId, votes, panelVars, stakeVars>>

\* resolve_dispute by a committee member: one vote each, settled by a majority.
ResolveByCommittee(caller, id, o) ==
    LET c == commitments[id]
    IN  /\ ~paused
        /\ c.status = "Disputed"
        /\ ~HasPanel(c)
        /\ CommitteeRouted(c)
        /\ caller \in arbitrators
        /\ votes[id][caller] = None
        /\ votes' = [votes EXCEPT ![id][caller] = o]
        /\ IF IsMajority(Cardinality(Voters(id, o)) + 1)
           THEN FinalizeResolution(id, o)
           ELSE UNCHANGED <<commitments, outcomeVars, escrowVars>>
        /\ UNCHANGED <<now, adminVars, nextId, panelVars, stakeVars>>

-----------------------------------------------------------------------------
(* Settling the dispute of a panel-governed commitment: an M-of-N vote of   *)
(* its staked attestors, or the fallback once the window is over            *)
(* (voting.rs, economics/policy.rs).                                        *)

VoteDeadline_Sliding(c) == now + ATTESTOR_VOTE_TIMEOUT_SECONDS

VoteDeadline(c) ==
    (IF c.attested_at # None THEN c.attested_at ELSE c.created_at) + ATTESTOR_VOTE_TIMEOUT_SECONDS

\* on the panel, holding stake, and locked by a dispute
MayVote(c, a) ==
    /\ a \in Panel(c)
    /\ stakes[a].staked > 0
    /\ stakes[a].locked

\* persist_outcome: unlike finalize_resolution it leaves the dispute stake alone.
PersistOutcome(id, o) ==
    /\ commitments' = [commitments EXCEPT ![id] = Settled(@, o)]
    /\ RecordOutcome(commitments[id].terms.issuer, o, TRUE)
    /\ UNCHANGED escrowVars

Dissents_Silent(ballot, winning) == ballot # winning

\* should_slash_attestor: a dissenter is a panel member whose vote is not winning;
\* a member that did not vote is spared, and so is everybody after a timeout.
Dissents(ballot, winning) == ballot \notin {None, winning}

\* The tally of the dispute is left behind.
UnlockPanelAndClear_KeepsTally(id, ballots, slashDissenters, winning) ==
    LET panel == Panel(commitments[id])
    IN  /\ stakes' = [a \in Addresses |->
                        IF a \in panel THEN WithLock(stakes[a], FALSE) ELSE stakes[a]]
        /\ voteRecord' = [voteRecord EXCEPT ![id] = [a \in Addresses |->
                        IF a \in panel THEN None ELSE voteRecord[id][a]]]
        /\ UNCHANGED <<tally, vault>>

\* unlock_panel_and_clear, the ballots being the vote records of the dispute.
UnlockPanelAndClear(id, ballots, slashDissenters, winning) ==
    LET panel == Panel(commitments[id])
        Settle(a) == IF slashDissenters /\ Dissents(ballots[a], winning)
                     THEN Slashed(stakes[a])
                     ELSE stakes[a]
    IN  /\ stakes' = [a \in Addresses |->
                        IF a \in panel THEN WithLock(Settle(a), FALSE) ELSE stakes[a]]
        /\ voteRecord' = [voteRecord EXCEPT ![id] = [a \in Addresses |->
                        IF a \in panel THEN None ELSE voteRecord[id][a]]]
        /\ tally' = [tally EXCEPT ![id] = ZeroCounts]
        /\ UNCHANGED vault

CastDisputeVote(a, id, o) ==
    LET c == commitments[id]
        ballots == [voteRecord[id] EXCEPT ![a] = o]
    IN  /\ c.status = "Disputed"
        /\ c.terms.threshold > 0
        /\ now <= VoteDeadline(c)
        /\ MayVote(c, a)
        /\ voteRecord[id][a] = None
        /\ IF tally[id][o] + 1 >= c.terms.threshold
           THEN /\ PersistOutcome(id, o)
                /\ UnlockPanelAndClear(id, ballots, TRUE, o)
           ELSE /\ tally' = [tally EXCEPT ![id][o] = @ + 1]
                /\ voteRecord' = [voteRecord EXCEPT ![id] = ballots]
                /\ UNCHANGED <<commitments, outcomeVars, escrowVars, stakeVars>>
        /\ UNCHANGED <<now, adminVars, nextId, votes>>

\* One second too early.
CheckDisputeTimeout_Early(id) ==
    LET c == commitments[id]
    IN  /\ c.status = "Disputed"
        /\ c.terms.threshold > 0
        /\ now >= VoteDeadline(c)
        /\ PersistOutcome(id, "Breached")
        /\ UnlockPanelAndClear(id, voteRecord[id], FALSE, "Breached")
        /\ UNCHANGED <<now, adminVars, nextId, votes>>

\* check_dispute_timeout: anyone may settle an expired dispute as a breach.
CheckDisputeTimeout(id) ==
    LET c == commitments[id]
    IN  /\ c.status = "Disputed"
        /\ c.terms.threshold > 0
        /\ now > VoteDeadline(c)
        /\ PersistOutcome(id, "Breached")
        /\ UnlockPanelAndClear(id, voteRecord[id], FALSE, "Breached")
        /\ UNCHANGED <<now, adminVars, nextId, votes>>
=============================================================================
