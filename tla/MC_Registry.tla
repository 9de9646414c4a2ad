---------------------------- MODULE MC_Registry ----------------------------
(***************************************************************************)
(* Small instances of the registry for TLC.                                *)
(***************************************************************************)
EXTENDS RegistryRefinement, TLC

CONSTANTS issuer, party, oracle, resolver,   \* the parties of the commitments
          r1, r2, r3                         \* arbitrators, or panel attestors

MC_Committee == {r1, r2, r3}
MC_Single == {resolver}

NoPanel == [issuer |-> issuer, counterparty |-> party, resolver |-> resolver,
            oracle |-> oracle, milestones |-> 2, attestors |-> {}, slots |-> 0, threshold |-> 0,
            due |-> MaxTime + 1]

\* One commitment of two milestones with a custom resolver, and one of a single
\* milestone that the committee would settle; a panel without a threshold is refused.
MC_CommitteeParams ==
    {NoPanel,
     [NoPanel EXCEPT !.resolver = r1, !.milestones = 1, !.oracle = None],
     [NoPanel EXCEPT !.attestors = {r1}, !.slots = 1, !.due = 1]}

MC_Voters == Permutations({r2, r3})

\* A registry whose setup is over: what Initialize and SetToken lead to.
NoStakes == [a \in Addresses |-> NoStake]

ReadyStorage(deposited, balance) ==
    /\ ReputationInit
    /\ trust = [a \in Addresses |-> None]
    /\ now = 0
    /\ paused = FALSE
    /\ arbitrators = Committee
    /\ tokens = {"dispute", "staking"}
    /\ nextId = 1
    /\ commitments = [id \in Ids |-> NoCommitment]
    /\ votes = [id \in Ids |-> [a \in Addresses |-> None]]
    /\ tally = [id \in Ids |-> ZeroCounts]
    /\ voteRecord = [id \in Ids |-> [a \in Addresses |-> None]]
    /\ stakes = deposited
    /\ vault = balance
    /\ disputeStake = [id \in Ids |-> 0]
    /\ escrow = 0

ReadyInit == ReadyStorage(NoStakes, 0)

\* The life of commitments without a panel, the protocol running unpaused on
\* one schema.
CommitteeNext ==
    \/ Create
    \/ Attest
    \/ RaiseDispute
    \/ ResolveDispute
    \/ Tick

CommitteeSpec == ReadyInit /\ [][CommitteeNext]_vars

-----------------------------------------------------------------------------
\* Three attestors, of whom two settle.
Panel3 == [NoPanel EXCEPT !.milestones = 1, !.attestors = {r1, r2, r3}, !.slots = 3,
                    !.threshold = 2]
MC_PanelParams == {Panel3}

MC_Panelists == Permutations({r1, r2})

\* The life of panel-governed commitments together with the staking vault.
\* Commitments are registered and stakes deposited at time zero, in any order with
\* everything else that happens then: later would only shift the clock.  Which
\* outcome was attested does not matter to a panel, so one stands for all.  The
\* third attestor has staked before and does not leave; the others come and go.
PanelInit ==
    ReadyStorage([NoStakes EXCEPT ![r3].staked = MaxStake], MaxStake)

PanelNext ==
    \/ now = 0 /\ \E p \in CreateParams : CreateCommitment(p)
    \/ \E a \in {r1, r2}, amount \in StakeAmounts : StakeAttestor(a, amount)
    \/ \E id \in Ids : AttestMilestone(issuer, id, 0, "Fulfilled")
    \/ RaiseDispute
    \/ PanelVote
    \/ Timeout
    \/ \E a \in {r1, r2} : RequestUnstake(a) \/ FinalizeUnstake(a)
    \/ Tick

PanelSpec == PanelInit /\ [][PanelNext]_vars

-----------------------------------------------------------------------------
\* Every entry point from deployment on, upgrades, migrations and pauses at any
\* moment included: one commitment settled by the single arbitrator, and one with
\* a panel that lists its only member twice and so never reaches its threshold.
MC_EntryPointParams ==
    {[NoPanel EXCEPT !.milestones = 1, !.oracle = None],
     [NoPanel EXCEPT !.milestones = 1, !.oracle = None,
                     !.attestors = {party}, !.slots = 2, !.threshold = 2]}

FairSpec == Spec /\ KeeperFairness

-----------------------------------------------------------------------------
\* Two panels that share r1; the second settles with a single vote.
MC_OverlapParams ==
    {[Panel3 EXCEPT !.attestors = {r1, r3}, !.slots = 2],
     [Panel3 EXCEPT !.attestors = {r1, r2}, !.slots = 2, !.threshold = 1]}
=============================================================================
