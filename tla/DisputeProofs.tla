--------------------------- MODULE DisputeProofs ----------------------------
(***************************************************************************)
(* Theorems about disputes: who settles them, which ballots count, what a  *)
(* vote puts at stake, and the tokens held meanwhile; and that the         *)
(* contract implements the abstract ledger.  For every set of accounts,    *)
(* panels, thresholds, committees, amounts and windows.                    *)
(***************************************************************************)
EXTENDS RegistryRefinement, RegistryProofs, DataTheorems

-----------------------------------------------------------------------------
(* What every step keeps of a stored commitment.                            *)

\* The terms of a commitment never change.
LEMMA TermsKept ==
    ASSUME TypeOK, IdsAreFresh, [Next]_vars, NEW id \in Ids, Exists(id)
    PROVE  commitments'[id].terms = commitments[id].terms /\ commitments'[id].status # "Absent"
<1>1. commitments[id] \in Commitment
  BY StoredCommitment
<1>2. Registers(id) \/ Advances(id)
  BY CommitmentsMove
<1>3. CASE Attests(id)
  <2>1. PICK o \in Outcomes : commitments'[id] = Attested(commitments[id], o)
    BY <1>3 DEF Attests
  <2>2. Resolution(commitments[id], o) # "Absent"
    BY DEF Resolution
  <2> QED BY <1>1, <2>1, <2>2 DEF Attested, Commitment
<1> QED BY <1>1, <1>2, <1>3 DEF Registers, Advances, Contests, Settles, Settled, Commitment, Outcomes, Exists

\* A commitment has a panel exactly when it has a threshold, so that a dispute is
\* either the panel's or somebody else's.
PanelsHaveThresholds ==
    \A id \in Ids : Exists(id) =>
        (HasPanel(commitments[id]) <=> commitments[id].terms.threshold > 0)

\* Every step keeps a panel and its threshold together.
LEMMA PanelsHaveThresholdsStep ==
    ASSUME TypeOK, IdsAreFresh, PanelsHaveThresholds, [Next]_vars
    PROVE  PanelsHaveThresholds'
<1> SUFFICES ASSUME NEW id \in Ids, commitments'[id].status # "Absent"
             PROVE  HasPanel(commitments'[id]) <=> commitments'[id].terms.threshold > 0
  BY DEF PanelsHaveThresholds, Exists, HasPanel
<1>1. CASE Exists(id)
  BY <1>1, TermsKept DEF PanelsHaveThresholds, HasPanel
<1>2. CASE ~Exists(id)
  <2>1. Registers(id)
    BY <1>2, CommitmentsMove DEF Advances, Attests, Contests, Settles, Exists, Outcomes
  <2> QED BY <2>1 DEF Registers, ValidTerms, NewCommitment, HasPanel
<1> QED BY <1>1, <1>2

\* The terms a commitment was created with.
LEMMA StoredTerms ==
    ASSUME TypeOK, NEW id \in Ids, Exists(id)
    PROVE  /\ commitments[id].terms.attestors \in SUBSET Addresses
           /\ commitments[id].terms.threshold \in Nat
BY StoredCommitment, RegistryAssumption DEF Terms

DisputeInv == TypeOK /\ IdsAreFresh /\ PanelsHaveThresholds

\* What the theorems below rest on.
LEMMA DisputeInvariant == Spec => []DisputeInv
<1>1. Init => DisputeInv
  BY TypeOKInit, LifeInit DEF DisputeInv, Init, PanelsHaveThresholds, Exists, NoCommitment
<1>2. DisputeInv /\ [Next]_vars => DisputeInv'
  BY TypeOKStep, IdsAreFreshStep, PanelsHaveThresholdsStep DEF DisputeInv
<1> QED BY <1>1, <1>2, PTL DEF Spec

-----------------------------------------------------------------------------
(* The routes out of a dispute.                                             *)

\* A commitment in dispute stays as it is until its dispute is settled: a
\* panel's by a vote of its panel or a timeout, another by its resolver or the
\* committee.
LEMMA RoutesOut ==
    ASSUME DisputeInv, [Next]_vars, NEW id \in Ids, commitments[id].status = "Disputed",
           commitments'[id] # commitments[id]
    PROVE  \E o \in Outcomes :
             /\ commitments' = [commitments EXCEPT ![id] = Settled(commitments[id], o)]
             /\ commitments'[id].status = o
             /\ \/ /\ HasPanel(commitments[id])
                   /\ \E a \in Addresses :
                        /\ CastDisputeVote(a, id, o)
                        /\ tally[id][o] + 1 >= commitments[id].terms.threshold
                \/ /\ HasPanel(commitments[id])
                   /\ o = "Breached"
                   /\ CheckDisputeTimeout(id)
                \/ /\ ~HasPanel(commitments[id])
                   /\ FinalizeResolution(id, o)
                   /\ \E caller \in Addresses :
                        \/ ResolveByResolver(caller, id, o)
                        \/ /\ ResolveByCommittee(caller, id, o)
                           /\ IsMajority(Cardinality(Voters(id, o)) + 1)
<1> USE DEF DisputeInv
<1>1. Exists(id) /\ commitments[id] \in Commitment /\ commitments \in [Ids -> Commitment \cup {NoCommitment}]
  BY StoredCommitment DEF Exists, TypeOK
<1>2. HasPanel(commitments[id]) <=> commitments[id].terms.threshold > 0
  BY <1>1 DEF PanelsHaveThresholds
<1>3. \A o \in Outcomes : commitments' = [commitments EXCEPT ![id] = Settled(commitments[id], o)]
                            => commitments'[id].status = o
  BY <1>1 DEF Settled, Commitment
<1>4. CASE PanelVote
  <2>1. PICK a \in Addresses, i \in Ids, o \in Outcomes : CastDisputeVote(a, i, o)
    BY <1>4 DEF PanelVote
  <2>2. tally[i][o] + 1 >= commitments[i].terms.threshold /\ PersistOutcome(i, o)
    BY <2>1 DEF CastDisputeVote
  <2>3. i = id
    BY <1>1, <2>2 DEF PersistOutcome
  <2>4. HasPanel(commitments[id])
    BY <1>2, <2>1, <2>3 DEF CastDisputeVote
  <2> QED BY <1>3, <2>1, <2>2, <2>3, <2>4 DEF PersistOutcome
<1>5. CASE Timeout
  <2>1. PICK i \in Ids : CheckDisputeTimeout(i)
    BY <1>5 DEF Timeout
  <2>2. PersistOutcome(i, "Breached") /\ "Breached" \in Outcomes
    BY <2>1 DEF CheckDisputeTimeout, Outcomes
  <2>3. i = id
    BY <1>1, <2>2 DEF PersistOutcome
  <2>4. HasPanel(commitments[id])
    BY <1>2, <2>1, <2>3 DEF CheckDisputeTimeout
  <2> QED BY <1>3, <2>1, <2>2, <2>3, <2>4 DEF PersistOutcome
<1>6. CASE ResolveDispute
  <2>1. PICK caller \in Addresses, i \in Ids, o \in Outcomes :
           ResolveByResolver(caller, i, o) \/ ResolveByCommittee(caller, i, o)
    BY <1>6 DEF ResolveDispute
  <2>2. /\ FinalizeResolution(i, o)
        /\ ~HasPanel(commitments[i])
        /\ \/ ResolveByResolver(caller, i, o)
           \/ ResolveByCommittee(caller, i, o) /\ IsMajority(Cardinality(Voters(i, o)) + 1)
    BY <2>1 DEF ResolveByResolver, ResolveByCommittee
  <2>3. i = id
    BY <1>1, <2>2 DEF FinalizeResolution
  <2> QED BY <1>3, <2>2, <2>3 DEF FinalizeResolution
<1>7. CASE Attest \/ RaiseDispute
  <2>1. \E i \in Ids : \E d : /\ commitments' = [commitments EXCEPT ![i] = d]
                              /\ commitments[i].status # "Disputed"
    BY <1>7 DEF Attest, AttestMilestone, RaiseDispute, Dispute, Outcomes
  <2> QED BY <1>1, <2>1
<1>8. CASE Create
  <2>1. Registers(id)
    BY <1>8, CreateIsCreateAll, CreateAllMoves
  <2> QED BY <1>1, <2>1 DEF Registers
<1>9. CASE Setup \/ Administer \/ Stake \/ Unstake \/ Migrate \/ Tick \/ UNCHANGED vars
  BY <1>9 DEF Setup, Initialize, SetToken, Administer, SetPaused, Upgrade, Stake, StakeAttestor,
     Unstake, RequestUnstake, FinalizeUnstake, Migrate, MigrateReputationBatch, Tick, vars,
     commitmentVars
<1> QED BY <1>4, <1>5, <1>6, <1>7, <1>8, <1>9 DEF Next

-----------------------------------------------------------------------------
(* The attestor panel.                                                      *)

\* Ballots are finitely many, and those for an outcome are not those for another.
LEMMA BallotsAreFinite ==
    ASSUME NEW id, NEW o
    PROVE  IsFiniteSet(Ballots(id, o)) /\ Cardinality(Ballots(id, o)) \in Nat
<1>1. Ballots(id, o) \in SUBSET Addresses
  BY DEF Ballots
<1> QED BY <1>1, AddressesAssumption, FS_Subset, FS_CardinalityType

\* A ballot is cast by a panel member of a dispute.
LEMMA BallotsAreOfThePanel ==
    ASSUME TypeOK, TallyMatchesBallots, NEW id \in Ids, NEW a \in Addresses, voteRecord[id][a] # None
    PROVE  commitments[id].status = "Disputed" /\ a \in Panel(commitments[id])
<1>1. voteRecord[id][a] \in Outcomes
  BY DEF TypeOK
<1>2. a \in Ballots(id, voteRecord[id][a])
  BY DEF Ballots
<1> QED BY <1>1, <1>2 DEF TallyMatchesBallots

\* unlock_panel_and_clear clears every ballot and every tally of a dispute, and
\* nothing of the others.
LEMMA ClearedBallots ==
    ASSUME TypeOK, TallyMatchesBallots, NEW id \in Ids, NEW ballots, NEW slash, NEW winning,
           UnlockPanelAndClear(id, ballots, slash, winning)
    PROVE  /\ \A a \in Addresses : voteRecord'[id][a] = None
           /\ \A o \in Outcomes : tally'[id][o] = 0 /\ Ballots(id, o)' = {}
           /\ \A i \in Ids \ {id} : voteRecord'[i] = voteRecord[i] /\ tally'[i] = tally[i]
<1>1. /\ voteRecord' = [voteRecord EXCEPT ![id] = [a \in Addresses |->
                          IF a \in Panel(commitments[id]) THEN None ELSE voteRecord[id][a]]]
      /\ tally' = [tally EXCEPT ![id] = ZeroCounts]
  BY DEF UnlockPanelAndClear
<1>2. \A a \in Addresses : a \notin Panel(commitments[id]) => voteRecord[id][a] = None
  BY BallotsAreOfThePanel
<1>3. \A a \in Addresses : voteRecord'[id][a] = None
  BY <1>1, <1>2 DEF TypeOK
<1>4. \A o \in Outcomes : tally'[id][o] = 0 /\ Ballots(id, o)' = {}
  BY <1>1, <1>3, NoneAssumption DEF TypeOK, ZeroCounts, Ballots
<1>5. \A i \in Ids \ {id} : voteRecord'[i] = voteRecord[i] /\ tally'[i] = tally[i]
  BY <1>1 DEF TypeOK
<1> QED BY <1>3, <1>4, <1>5

\* What TallyMatchesBallots says of one dispute and one outcome.
Tallied(id, o) ==
    /\ tally[id][o] = Cardinality(Ballots(id, o))
    /\ Ballots(id, o) # {} =>
         /\ commitments[id].status = "Disputed"
         /\ Ballots(id, o) \subseteq Panel(commitments[id])
         /\ tally[id][o] < commitments[id].terms.threshold

\* Nobody's ballots change while neither the votes nor a dispute that has any do.
LEMMA TalliedKept ==
    ASSUME NEW id \in Ids, NEW o \in Outcomes, Tallied(id, o),
           voteRecord'[id] = voteRecord[id], tally'[id] = tally[id],
           Ballots(id, o) # {} => commitments'[id] = commitments[id]
    PROVE  Tallied(id, o)'
<1>1. Ballots(id, o)' = Ballots(id, o)
  BY DEF Ballots
<1> QED BY <1>1 DEF Tallied, Panel

\* One more ballot, below the threshold.
LEMMA VoteTallied ==
    ASSUME DisputeInv, TallyMatchesBallots, NEW a \in Addresses, NEW id \in Ids, NEW o \in Outcomes,
           CastDisputeVote(a, id, o), ~(tally[id][o] + 1 >= commitments[id].terms.threshold)
    PROVE  TallyMatchesBallots'
<1> USE DEF DisputeInv
<1>1. /\ commitments[id].status = "Disputed"
      /\ a \in Panel(commitments[id])
      /\ voteRecord[id][a] = None
      /\ tally' = [tally EXCEPT ![id][o] = @ + 1]
      /\ voteRecord' = [voteRecord EXCEPT ![id] = [voteRecord[id] EXCEPT ![a] = o]]
      /\ UNCHANGED commitments
  BY DEF CastDisputeVote, MayVote
<1>2. commitments[id].terms.threshold \in Nat /\ tally[id][o] \in Nat
  BY <1>1, StoredTerms DEF Exists, TypeOK
<1>3. ASSUME NEW i \in Ids, NEW p \in Outcomes PROVE Tallied(i, p)'
  <2>1. Tallied(i, p)
    BY DEF TallyMatchesBallots, Tallied
  <2>2. CASE i = id /\ p = o
    <3>1. Ballots(id, o)' = Ballots(id, o) \cup {a} /\ a \notin Ballots(id, o)
      BY <1>1, NoneAssumption DEF Ballots, TypeOK
    <3>2. tally'[id][o] = tally[id][o] + 1
      BY <1>1 DEF TypeOK
    <3>3. Cardinality(Ballots(id, o) \cup {a}) = Cardinality(Ballots(id, o)) + 1
      BY <3>1, BallotsAreFinite, FS_AddElement
    <3>4. tally[id][o] + 1 < commitments[id].terms.threshold
      BY <1>2
    <3> QED BY <1>1, <2>1, <2>2, <3>1, <3>2, <3>3, <3>4 DEF Tallied, Panel
  <2>3. CASE i = id /\ p # o
    <3>1. Ballots(id, p)' = Ballots(id, p)
      BY <1>1, <2>3, NoneAssumption DEF Ballots, TypeOK
    <3>2. tally'[id][p] = tally[id][p]
      BY <1>1, <2>3 DEF TypeOK
    <3> QED BY <1>1, <2>1, <2>3, <3>1, <3>2 DEF Tallied, Panel
  <2>4. CASE i # id
    <3>1. voteRecord'[i] = voteRecord[i] /\ tally'[i] = tally[i]
      BY <1>1, <2>4 DEF TypeOK
    <3> QED BY <1>1, <2>1, <3>1, TalliedKept
  <2> QED BY <2>2, <2>3, <2>4
<1> QED BY <1>3 DEF TallyMatchesBallots, Tallied

\* The ballots of a settled dispute are gone, and the others are as they were.
LEMMA SettlementTallied ==
    ASSUME TypeOK, TallyMatchesBallots, NEW id \in Ids, NEW d, NEW ballots, NEW slash, NEW winning,
           UnlockPanelAndClear(id, ballots, slash, winning),
           commitments' = [commitments EXCEPT ![id] = d]
    PROVE  TallyMatchesBallots'
<1>1. ASSUME NEW i \in Ids, NEW p \in Outcomes PROVE Tallied(i, p)'
  <2>1. CASE i = id
    BY <2>1, ClearedBallots, FS_EmptySet DEF Tallied
  <2>2. CASE i # id
    <3>1. voteRecord'[i] = voteRecord[i] /\ tally'[i] = tally[i]
      BY <2>2, ClearedBallots
    <3>2. commitments'[i] = commitments[i]
      BY <2>2 DEF TypeOK
    <3>3. Tallied(i, p)
      BY DEF TallyMatchesBallots, Tallied
    <3> QED BY <3>1, <3>2, <3>3, TalliedKept
  <2> QED BY <2>1, <2>2
<1> QED BY <1>1 DEF TallyMatchesBallots, Tallied

\* Every step keeps the tallies equal to the ballots.
LEMMA TallyStep ==
    ASSUME DisputeInv, TallyMatchesBallots, [Next]_vars
    PROVE  TallyMatchesBallots'
<1> USE DEF DisputeInv
<1>1. CASE PanelVote
  <2>1. PICK a \in Addresses, id \in Ids, o \in Outcomes : CastDisputeVote(a, id, o)
    BY <1>1 DEF PanelVote
  <2>2. CASE tally[id][o] + 1 >= commitments[id].terms.threshold
    <3>1. /\ UnlockPanelAndClear(id, [voteRecord[id] EXCEPT ![a] = o], TRUE, o)
          /\ commitments' = [commitments EXCEPT ![id] = Settled(commitments[id], o)]
      BY <2>1, <2>2 DEF CastDisputeVote, PersistOutcome
    <3> QED BY <3>1, SettlementTallied
  <2> QED BY <2>1, <2>2, VoteTallied
<1>2. CASE Timeout
  <2>1. PICK id \in Ids : CheckDisputeTimeout(id)
    BY <1>2 DEF Timeout
  <2>2. /\ UnlockPanelAndClear(id, voteRecord[id], FALSE, "Breached")
        /\ commitments' = [commitments EXCEPT ![id] = Settled(commitments[id], "Breached")]
    BY <2>1 DEF CheckDisputeTimeout, PersistOutcome
  <2> QED BY <2>2, SettlementTallied
<1>3. CASE ~PanelVote /\ ~Timeout
  <2>1. UNCHANGED panelVars
    BY <1>3 DEF Next, Create, CreateCommitment, BatchCreateCommitments, CreateAll, Attest,
       AttestMilestone, RaiseDispute, Dispute, ResolveDispute, ResolveByResolver,
       ResolveByCommittee, Setup, Initialize, SetToken, Administer, SetPaused, Upgrade, Stake,
       StakeAttestor, Unstake, RequestUnstake, FinalizeUnstake, Migrate, MigrateReputationBatch,
       Tick, vars, panelVars
  <2>2. ASSUME NEW id \in Ids, NEW o \in Outcomes PROVE Tallied(id, o)'
    <3>1. Tallied(id, o)
      BY DEF TallyMatchesBallots, Tallied
    <3>2. ASSUME Ballots(id, o) # {} PROVE commitments'[id] = commitments[id]
      <4>1. commitments[id].status = "Disputed" /\ HasPanel(commitments[id])
        BY <3>1, <3>2 DEF Tallied, HasPanel, Panel
      <4> QED BY <1>3, <4>1, RoutesOut DEF PanelVote, Timeout
    <3> QED BY <2>1, <3>1, <3>2, TalliedKept DEF panelVars
  <2> QED BY <2>2 DEF TallyMatchesBallots, Tallied
<1> QED BY <1>1, <1>2, <1>3

\* At first there are no ballots, and nothing is tallied.
LEMMA TallyInit == Init => TallyMatchesBallots
<1> SUFFICES ASSUME Init, NEW id \in Ids, NEW o \in Outcomes
             PROVE  tally[id][o] = 0 /\ Ballots(id, o) = {}
  BY FS_EmptySet DEF TallyMatchesBallots
<1> QED BY NoneAssumption DEF Init, ZeroCounts, Ballots

\* The running tally of a dispute is the number of its ballots, each of a panel
\* member, stays below the threshold, and no ballot outlives its dispute: for any
\* number of panels, overlapping or not.
THEOREM TallyIsExact == Spec => []TallyMatchesBallots
BY DisputeInvariant, TallyInit, TallyStep, PTL DEF Spec

\* A panel's dispute ends by the vote that reaches the threshold, or after the
\* voting window as a breach, and in no other way.
THEOREM PanelsDecide == Spec => PanelDecides
<1>1. ASSUME DisputeInv, TallyMatchesBallots, [Next]_vars, NEW id \in Ids,
             commitments[id].status = "Disputed", HasPanel(commitments[id]),
             commitments'[id].status # "Disputed"
      PROVE  IF now <= VoteDeadline(commitments[id])
             THEN Cardinality(Ballots(id, commitments'[id].status)) + 1
                    >= commitments[id].terms.threshold
             ELSE commitments'[id].status = "Breached"
  <2>1. commitments[id] \in Commitment /\ now \in Nat
    BY <1>1, StoredCommitment DEF DisputeInv, Exists, TypeOK
  <2>2. VoteDeadline(commitments[id]) \in Nat
    BY <2>1, RegistryAssumption DEF VoteDeadline, Commitment
  <2>3. PICK o \in Outcomes :
          /\ commitments'[id].status = o
          /\ \/ /\ \E a \in Addresses : CastDisputeVote(a, id, o)
                /\ tally[id][o] + 1 >= commitments[id].terms.threshold
             \/ o = "Breached" /\ CheckDisputeTimeout(id)
    BY <1>1, RoutesOut
  <2>4. tally[id][o] = Cardinality(Ballots(id, o))
    BY <1>1 DEF TallyMatchesBallots
  <2>5. CASE o = "Breached" /\ CheckDisputeTimeout(id)
    BY <2>1, <2>2, <2>3, <2>5 DEF CheckDisputeTimeout
  <2>6. CASE /\ \E a \in Addresses : CastDisputeVote(a, id, o)
             /\ tally[id][o] + 1 >= commitments[id].terms.threshold
    BY <2>3, <2>4, <2>6 DEF CastDisputeVote
  <2> QED BY <2>3, <2>5, <2>6
<1>2. DisputeInv /\ TallyMatchesBallots /\ [Next]_vars =>
        [\A id \in Ids :
           LET c == commitments[id]
               o == commitments'[id].status
           IN  c.status = "Disputed" /\ HasPanel(c) /\ o # "Disputed" =>
                 IF now <= VoteDeadline(c)
                 THEN Cardinality(Ballots(id, o)) + 1 >= c.terms.threshold
                 ELSE o = "Breached"]_vars
  BY <1>1
<1> QED BY <1>2, DisputeInvariant, TallyIsExact, PTL DEF Spec, PanelDecides

-----------------------------------------------------------------------------
(* The committee.                                                           *)

\* Votes are those of arbitrators, on commitments that name one as resolver.
VotesAreTheCommittees ==
    \A id \in Ids, a \in Addresses : votes[id][a] # None =>
        /\ arbitrators = Committee
        /\ a \in Committee
        /\ Exists(id)
        /\ CommitteeRouted(commitments[id])

\* Once there is a committee it is there for good.
LEMMA CommitteeKept ==
    ASSUME TypeOK, [Next]_vars, arbitrators = Committee
    PROVE  arbitrators' = Committee
BY RegistryAssumption DEF Next, Create, CreateCommitment, BatchCreateCommitments, CreateAll, Attest,
   AttestMilestone, RaiseDispute, Dispute, ResolveDispute, ResolveByResolver,
   ResolveByCommittee, PanelVote, CastDisputeVote, Timeout, CheckDisputeTimeout,
   Setup, Initialize, SetToken, Administer, SetPaused, Upgrade, Stake,
   StakeAttestor, Unstake, RequestUnstake, FinalizeUnstake, Migrate, MigrateReputationBatch,
   Tick, vars, adminVars

\* A vote is written by resolve_dispute only.
LEMMA VotesAreCast ==
    ASSUME TypeOK, [Next]_vars, NEW id \in Ids, NEW a \in Addresses, votes'[id][a] # votes[id][a]
    PROVE  \E o \in Outcomes : ResolveByCommittee(a, id, o)
<1>1. CASE ResolveDispute
  <2>1. PICK caller \in Addresses, i \in Ids, o \in Outcomes :
           ResolveByResolver(caller, i, o) \/ ResolveByCommittee(caller, i, o)
    BY <1>1 DEF ResolveDispute
  <2>2. ResolveByCommittee(caller, i, o)
    BY <2>1 DEF ResolveByResolver
  <2>3. i = id /\ caller = a
    BY <2>2 DEF ResolveByCommittee, TypeOK
  <2> QED BY <2>2, <2>3
<1>2. CASE ~ResolveDispute
  <2>1. UNCHANGED votes
    BY <1>2 DEF Next, Create, CreateCommitment, BatchCreateCommitments, CreateAll, Attest,
       AttestMilestone, RaiseDispute, Dispute, PanelVote, CastDisputeVote, Timeout,
       CheckDisputeTimeout, Setup, Initialize, SetToken, Administer, SetPaused, Upgrade, Stake,
       StakeAttestor, Unstake, RequestUnstake, FinalizeUnstake, Migrate, MigrateReputationBatch,
       Tick, vars
  <2> QED BY <2>1
<1> QED BY <1>1, <1>2

\* A vote comes from a member of the committee and stays one.
LEMMA VotesAreTheCommitteesStep ==
    ASSUME DisputeInv, VotesAreTheCommittees, [Next]_vars
    PROVE  VotesAreTheCommittees'
<1> USE DEF DisputeInv
<1> SUFFICES ASSUME NEW id \in Ids, NEW a \in Addresses, votes'[id][a] # None
             PROVE  /\ arbitrators' = Committee
                    /\ a \in Committee
                    /\ commitments'[id].status # "Absent"
                    /\ commitments'[id].terms.resolver \in arbitrators'
  BY DEF VotesAreTheCommittees, Exists, CommitteeRouted
<1>1. /\ arbitrators = Committee /\ a \in Committee
      /\ Exists(id) /\ commitments[id].terms.resolver \in arbitrators
  <2>1. CASE votes'[id][a] = votes[id][a]
    BY <2>1 DEF VotesAreTheCommittees, CommitteeRouted
  <2>2. CASE votes'[id][a] # votes[id][a]
    <3>1. PICK o \in Outcomes : ResolveByCommittee(a, id, o)
      BY <2>2, VotesAreCast
    <3>2. a \in arbitrators /\ CommitteeRouted(commitments[id]) /\ Exists(id)
      BY <3>1 DEF ResolveByCommittee, Exists
    <3> QED BY <3>2 DEF TypeOK, CommitteeRouted
  <2> QED BY <2>1, <2>2
<1> QED BY <1>1, TermsKept, CommitteeKept

\* Nobody has voted at deployment.
LEMMA VotesAtStart == Init => VotesAreTheCommittees
BY DEF Init, VotesAreTheCommittees

\* In every reachable state, for any committee.
LEMMA VotesInvariant == Spec => []VotesAreTheCommittees
BY DisputeInvariant, VotesAtStart, VotesAreTheCommitteesStep, PTL DEF Spec

\* The outcome of a dispute that names an arbitrator is what more than half of the
\* committee voted for, and no vote is cast on another's.
THEOREM CommitteesDecide == Spec => CommitteeDecides
<1>1. ASSUME DisputeInv, VotesAreTheCommittees, [Next]_vars, NEW id \in Ids,
             commitments[id].status = "Disputed", ~HasPanel(commitments[id]),
             commitments'[id].status # "Disputed"
      PROVE  IF CommitteeRouted(commitments[id])
             THEN 2 * Cardinality({a \in Committee : votes'[id][a] = commitments'[id].status})
                    > Cardinality(Committee)
             ELSE \A a \in Addresses : votes'[id][a] = None
  <2> USE DEF DisputeInv
  <2>1. PICK o \in Outcomes :
          /\ commitments'[id].status = o
          /\ \E caller \in Addresses :
                \/ ResolveByResolver(caller, id, o)
                \/ ResolveByCommittee(caller, id, o) /\ IsMajority(Cardinality(Voters(id, o)) + 1)
    BY <1>1, RoutesOut
  <2>2. PICK caller \in Addresses :
          \/ ResolveByResolver(caller, id, o)
          \/ ResolveByCommittee(caller, id, o) /\ IsMajority(Cardinality(Voters(id, o)) + 1)
    BY <2>1
  <2>3. CASE ResolveByResolver(caller, id, o)
    <3>1. ~CommitteeRouted(commitments[id]) /\ UNCHANGED votes
      BY <2>3 DEF ResolveByResolver
    <3> QED BY <1>1, <3>1 DEF VotesAreTheCommittees
  <2>4. CASE ResolveByCommittee(caller, id, o) /\ IsMajority(Cardinality(Voters(id, o)) + 1)
    <3>1. /\ CommitteeRouted(commitments[id])
          /\ caller \in arbitrators /\ arbitrators = Committee
          /\ votes[id][caller] = None
          /\ votes' = [votes EXCEPT ![id][caller] = o]
      <4>1. /\ CommitteeRouted(commitments[id])
            /\ caller \in arbitrators
            /\ votes[id][caller] = None
            /\ votes' = [votes EXCEPT ![id][caller] = o]
        BY <2>4 DEF ResolveByCommittee
      <4>2. arbitrators \in {{}, Committee}
        BY <1>1 DEF TypeOK
      <4> QED BY <4>1, <4>2
    <3> DEFINE V == {a \in Committee : votes'[id][a] = commitments'[id].status}
    <3>2. V = Voters(id, o) \cup {caller} /\ caller \notin Voters(id, o)
      BY <1>1, <2>1, <3>1, NoneAssumption, RegistryAssumption DEF TypeOK, Voters, VotesAreTheCommittees
    <3>3. IsFiniteSet(Voters(id, o)) /\ Cardinality(Voters(id, o)) \in Nat
      <4>1. Voters(id, o) \in SUBSET Addresses
        BY DEF Voters
      <4> QED BY <4>1, AddressesAssumption, FS_Subset, FS_CardinalityType
    <3>4. Cardinality(V) = Cardinality(Voters(id, o)) + 1
      BY <3>2, <3>3, FS_AddElement
    <3>5. Cardinality(Committee) \in Nat
      BY RegistryAssumption, FS_CardinalityType
    <3>6. Cardinality(Voters(id, o)) + 1 > Cardinality(Committee) \div 2
      BY <2>4, <3>1 DEF IsMajority
    <3>7. 2 * (Cardinality(Voters(id, o)) + 1) > Cardinality(Committee)
      BY <3>3, <3>5, <3>6
    <3> HIDE DEF V
    <3>8. 2 * Cardinality(V) > Cardinality(Committee)
      BY <3>4, <3>7
    <3> QED BY <3>1, <3>8 DEF V
  <2> QED BY <2>2, <2>3, <2>4
<1>2. DisputeInv /\ VotesAreTheCommittees /\ [Next]_vars =>
        [\A id \in Ids :
           LET c == commitments[id]
           IN  c.status = "Disputed" /\ ~HasPanel(c) /\ commitments'[id].status # "Disputed" =>
                 IF CommitteeRouted(c)
                 THEN 2 * Cardinality({a \in Committee : votes'[id][a] = commitments'[id].status})
                        > Cardinality(Committee)
                 ELSE \A a \in Addresses : votes'[id][a] = None]_vars
  BY <1>1
<1> QED BY <1>2, DisputeInvariant, VotesInvariant, PTL DEF Spec, CommitteeDecides

-----------------------------------------------------------------------------
(* The stakes of those who vote.                                            *)

\* No two disputes are before the same attestor.  The contract does not see to it,
\* and without it a settlement unlocks voters of the other dispute.
PanelsAreDisjoint ==
    \A i, j \in Ids :
        i # j /\ commitments[i].status = "Disputed" /\ commitments[j].status = "Disputed" =>
            Panel(commitments[i]) \cap Panel(commitments[j]) = {}

\* set_locked leaves the amount alone, and locks what there is.
LEMMA WithLockEffect ==
    ASSUME NEW stake \in AttestorStake, NEW locked \in BOOLEAN
    PROVE  /\ WithLock(stake, locked).staked = stake.staked
           /\ stake.staked > 0 => WithLock(stake, locked).locked = locked
BY DEF WithLock, AttestorStake

\* What slash takes.
LEMMA SlashedEffect ==
    ASSUME NEW stake \in AttestorStake
    PROVE  /\ Slashed(stake).staked = stake.staked - SlashCut(stake.staked)
           /\ Slashed(stake) \in AttestorStake
BY SlashedType DEF Slashed, AttestorStake

\* What the settlement of a panel's dispute does to the stake of a.
Releases(id, a) ==
    /\ commitments[id].status = "Disputed"
    /\ a \in Panel(commitments[id])
    /\ \/ \E b \in Addresses, o \in Outcomes :
            /\ CastDisputeVote(b, id, o)
            /\ commitments' = [commitments EXCEPT ![id] = Settled(commitments[id], o)]
            /\ UnlockPanelAndClear(id, [voteRecord[id] EXCEPT ![b] = o], TRUE, o)
            /\ stakes'[a].staked =
                 IF Dissents([voteRecord[id] EXCEPT ![b] = o][a], o)
                 THEN stakes[a].staked - SlashCut(stakes[a].staked)
                 ELSE stakes[a].staked
       \/ /\ CheckDisputeTimeout(id)
          /\ UnlockPanelAndClear(id, voteRecord[id], FALSE, "Breached")
          /\ stakes'[a].staked = stakes[a].staked

\* What a settlement does to the stake of each panel member, and of nobody else.
LEMMA SettlementStakes ==
    ASSUME TypeOK, NEW id \in Ids, NEW ballots, NEW slash \in BOOLEAN, NEW winning,
           UnlockPanelAndClear(id, ballots, slash, winning), NEW a \in Addresses
    PROVE  IF a \in Panel(commitments[id])
           THEN stakes'[a].staked = IF slash /\ Dissents(ballots[a], winning)
                                    THEN stakes[a].staked - SlashCut(stakes[a].staked)
                                    ELSE stakes[a].staked
           ELSE stakes'[a] = stakes[a]
<1> DEFINE settled == IF slash /\ Dissents(ballots[a], winning) THEN Slashed(stakes[a]) ELSE stakes[a]
<1>1. stakes[a] \in AttestorStake
  BY DEF TypeOK
<1>2. settled \in AttestorStake
  BY <1>1, SlashedEffect
<1>3. settled.staked = IF slash /\ Dissents(ballots[a], winning)
                       THEN stakes[a].staked - SlashCut(stakes[a].staked) ELSE stakes[a].staked
  BY <1>1, SlashedEffect
<1>4. stakes'[a] = IF a \in Panel(commitments[id]) THEN WithLock(settled, FALSE) ELSE stakes[a]
  BY DEF UnlockPanelAndClear
<1> HIDE DEF settled
<1>5. WithLock(settled, FALSE).staked = settled.staked
  BY <1>2, WithLockEffect
<1> QED BY <1>3, <1>4, <1>5

\* Everything a step can do to a recorded stake.
LEMMA StakesMove ==
    ASSUME TypeOK, [Next]_vars, NEW a \in Addresses
    PROVE  \/ stakes'[a] = stakes[a]
           \/ \E amount \in StakeAmounts : StakeAttestor(a, amount)
           \/ RequestUnstake(a)
           \/ FinalizeUnstake(a)
           \/ UNCHANGED <<vault, voteRecord>> /\ stakes'[a] = WithLock(stakes[a], TRUE)
           \/ \E id \in Ids : Releases(id, a)
<1>1. CASE PanelVote
  <2>1. PICK b \in Addresses, id \in Ids, o \in Outcomes : CastDisputeVote(b, id, o)
    BY <1>1 DEF PanelVote
  <2>2. CASE tally[id][o] + 1 >= commitments[id].terms.threshold
    <3> DEFINE ballots == [voteRecord[id] EXCEPT ![b] = o]
    <3>1. /\ commitments[id].status = "Disputed"
          /\ commitments' = [commitments EXCEPT ![id] = Settled(commitments[id], o)]
          /\ UnlockPanelAndClear(id, ballots, TRUE, o)
      BY <2>1, <2>2 DEF CastDisputeVote, PersistOutcome
    <3>2. IF a \in Panel(commitments[id])
          THEN stakes'[a].staked = IF TRUE /\ Dissents(ballots[a], o)
                                   THEN stakes[a].staked - SlashCut(stakes[a].staked)
                                   ELSE stakes[a].staked
          ELSE stakes'[a] = stakes[a]
      <4> HIDE DEF ballots
      <4> QED BY <3>1, SettlementStakes
    <3> QED BY <2>1, <3>1, <3>2 DEF Releases
  <2>3. CASE ~(tally[id][o] + 1 >= commitments[id].terms.threshold)
    BY <2>1, <2>3 DEF CastDisputeVote, stakeVars
  <2> QED BY <2>2, <2>3
<1>2. CASE Timeout
  <2>1. PICK id \in Ids : CheckDisputeTimeout(id)
    BY <1>2 DEF Timeout
  <2>2. /\ commitments[id].status = "Disputed"
        /\ UnlockPanelAndClear(id, voteRecord[id], FALSE, "Breached")
    BY <2>1 DEF CheckDisputeTimeout
  <2>3. IF a \in Panel(commitments[id])
        THEN stakes'[a].staked = stakes[a].staked ELSE stakes'[a] = stakes[a]
    BY <2>2, SettlementStakes
  <2> QED BY <2>1, <2>2, <2>3 DEF Releases
<1>3. CASE RaiseDispute
  <2>1. PICK caller \in Addresses, id \in Ids : Dispute(caller, id)
    BY <1>3 DEF RaiseDispute
  <2> QED BY <2>1 DEF Dispute, panelVars
<1>4. CASE Stake
  <2>1. PICK b \in Addresses, amount \in StakeAmounts : StakeAttestor(b, amount)
    BY <1>4 DEF Stake
  <2> QED BY <2>1 DEF StakeAttestor, TypeOK
<1>5. CASE Unstake
  <2>1. PICK b \in Addresses : RequestUnstake(b) \/ FinalizeUnstake(b)
    BY <1>5 DEF Unstake
  <2> QED BY <2>1 DEF RequestUnstake, FinalizeUnstake, TypeOK
<1>6. CASE ~PanelVote /\ ~Timeout /\ ~RaiseDispute /\ ~Stake /\ ~Unstake
  <2>1. UNCHANGED stakes
    BY <1>6 DEF Next, Create, CreateCommitment, BatchCreateCommitments, CreateAll, Attest,
       AttestMilestone, ResolveDispute, ResolveByResolver, ResolveByCommittee, Setup,
       Initialize, SetToken, Administer, SetPaused, Upgrade, Migrate, MigrateReputationBatch,
       Tick, vars, stakeVars
  <2> QED BY <2>1
<1> QED BY <1>1, <1>2, <1>3, <1>4, <1>5, <1>6

\* What a vote puts at stake cannot be taken out.
Secured(a) == stakes[a].locked /\ stakes[a].staked > 0

\* Only the settlement of a dispute before them releases a locked attestor.
LEMMA SecuredKept ==
    ASSUME TypeOK, [Next]_vars, NEW a \in Addresses, Secured(a),
           ~ \E id \in Ids : Releases(id, a)
    PROVE  Secured(a)'
<1>1. stakes[a] \in AttestorStake /\ stakes \in [Addresses -> AttestorStake]
  BY DEF TypeOK
<1>2. CASE stakes'[a] = stakes[a]
  BY <1>2 DEF Secured
<1>3. CASE \E amount \in StakeAmounts : StakeAttestor(a, amount)
  <2>1. PICK amount \in StakeAmounts : StakeAttestor(a, amount)
    BY <1>3
  <2>2. amount \in Nat
    BY RegistryAssumption
  <2>3. stakes'[a] = [stakes[a] EXCEPT !.staked = @ + amount]
    BY <1>1, <2>1 DEF StakeAttestor
  <2> QED BY <1>1, <2>2, <2>3 DEF Secured, AttestorStake
<1>4. CASE RequestUnstake(a) \/ FinalizeUnstake(a)
  BY <1>4 DEF RequestUnstake, FinalizeUnstake, Secured
<1>5. CASE stakes'[a] = WithLock(stakes[a], TRUE)
  BY <1>1, <1>5, WithLockEffect DEF Secured
<1> QED BY <1>2, <1>3, <1>4, <1>5, StakesMove

\* A ballot appears only when its owner casts it.
LEMMA BallotsAreCast ==
    ASSUME TypeOK, TallyMatchesBallots, [Next]_vars, NEW id \in Ids, NEW a \in Addresses,
           voteRecord'[id][a] # None
    PROVE  \/ /\ voteRecord[id][a] # None
              /\ ~ \E ballots, slash, winning : UnlockPanelAndClear(id, ballots, slash, winning)
           \/ MayVote(commitments[id], a) /\ UNCHANGED stakes
<1>1. ~ \E ballots, slash, winning : UnlockPanelAndClear(id, ballots, slash, winning)
  BY ClearedBallots
<1>2. CASE voteRecord[id][a] # None
  BY <1>1, <1>2
<1>3. CASE voteRecord[id][a] = None
  <2>1. CASE PanelVote
    <3>1. PICK b \in Addresses, i \in Ids, o \in Outcomes : CastDisputeVote(b, i, o)
      BY <2>1 DEF PanelVote
    <3>2. CASE tally[i][o] + 1 >= commitments[i].terms.threshold
      <4>1. UnlockPanelAndClear(i, [voteRecord[i] EXCEPT ![b] = o], TRUE, o)
        BY <3>1, <3>2 DEF CastDisputeVote
      <4>2. i # id
        BY <1>1, <4>1
      <4>3. voteRecord'[id] = voteRecord[id]
        BY <4>1, <4>2, ClearedBallots
      <4> QED BY <1>3, <4>3
    <3>3. CASE ~(tally[i][o] + 1 >= commitments[i].terms.threshold)
      <4>1. /\ voteRecord' = [voteRecord EXCEPT ![i] = [voteRecord[i] EXCEPT ![b] = o]]
            /\ MayVote(commitments[i], b)
            /\ UNCHANGED stakes
        BY <3>1, <3>3 DEF CastDisputeVote, stakeVars
      <4>2. i = id /\ b = a
        BY <1>3, <4>1 DEF TypeOK
      <4> QED BY <4>1, <4>2
    <3> QED BY <3>2, <3>3
  <2>2. CASE Timeout
    <3>1. PICK i \in Ids : CheckDisputeTimeout(i)
      BY <2>2 DEF Timeout
    <3>2. UnlockPanelAndClear(i, voteRecord[i], FALSE, "Breached")
      BY <3>1 DEF CheckDisputeTimeout
    <3>3. i # id
      BY <1>1, <3>2
    <3>4. voteRecord'[id] = voteRecord[id]
      BY <3>2, <3>3, ClearedBallots
    <3> QED BY <1>3, <3>4
  <2>3. CASE ~PanelVote /\ ~Timeout
    <3>1. UNCHANGED voteRecord
      BY <2>3 DEF Next, Create, CreateCommitment, BatchCreateCommitments, CreateAll, Attest,
         AttestMilestone, RaiseDispute, Dispute, ResolveDispute, ResolveByResolver,
         ResolveByCommittee, Setup, Initialize, SetToken, Administer, SetPaused, Upgrade, Stake,
         StakeAttestor, Unstake, RequestUnstake, FinalizeUnstake, Migrate,
         MigrateReputationBatch, Tick, vars, panelVars
    <3> QED BY <1>3, <3>1
  <2> QED BY <2>1, <2>2, <2>3
<1> QED BY <1>2, <1>3

\* While panels are disjoint, nothing releases who has voted but the settlement
\* that counts the vote.
LEMMA VotersStayLockedStep ==
    ASSUME DisputeInv, TallyMatchesBallots, VotersStayLocked, PanelsAreDisjoint, [Next]_vars
    PROVE  VotersStayLocked'
<1> USE DEF DisputeInv
<1> SUFFICES ASSUME NEW id \in Ids, NEW a \in Addresses, voteRecord'[id][a] # None
             PROVE  Secured(a)'
  BY DEF VotersStayLocked, Secured
<1>1. CASE MayVote(commitments[id], a) /\ UNCHANGED stakes
  BY <1>1 DEF MayVote, Secured
<1>2. CASE /\ voteRecord[id][a] # None
           /\ ~ \E ballots, slash, winning : UnlockPanelAndClear(id, ballots, slash, winning)
  <2>1. Secured(a) /\ commitments[id].status = "Disputed" /\ a \in Panel(commitments[id])
    BY <1>2, BallotsAreOfThePanel DEF VotersStayLocked, Secured
  <2>2. ASSUME NEW j \in Ids, Releases(j, a) PROVE FALSE
    <3>1. \E ballots, slash, winning : UnlockPanelAndClear(j, ballots, slash, winning)
      <4>1. CASE UnlockPanelAndClear(j, voteRecord[j], FALSE, "Breached")
        BY <4>1
      <4>2. ASSUME NEW b \in Addresses, NEW o \in Outcomes,
                   UnlockPanelAndClear(j, [voteRecord[j] EXCEPT ![b] = o], TRUE, o)
            PROVE  \E ballots, slash, winning : UnlockPanelAndClear(j, ballots, slash, winning)
        BY <4>2
      <4> QED BY <2>2, <4>1, <4>2 DEF Releases
    <3>2. j # id
      BY <1>2, <3>1
    <3>3. commitments[j].status = "Disputed" /\ a \in Panel(commitments[j])
      BY <2>2 DEF Releases
    <3> QED BY <2>1, <3>2, <3>3 DEF PanelsAreDisjoint
  <2> QED BY <2>1, <2>2, SecuredKept
<1> QED BY <1>1, <1>2, BallotsAreCast

\* Every ballot counts once, and is backed by a locked stake as long as it counts,
\* provided no attestor has two disputes at a time: for any panels, thresholds and
\* stakes, and any interleaving of votes with deposits and withdrawals.
THEOREM BallotsAlwaysCount == Spec /\ []PanelsAreDisjoint => []BallotsCount
<1>1. Init => VotersStayLocked
  BY DEF Init, VotersStayLocked
<1>2. DisputeInv /\ TallyMatchesBallots /\ PanelsAreDisjoint /\ VotersStayLocked /\ [Next]_vars
        => VotersStayLocked'
  BY VotersStayLockedStep
<1>3. VotersStayLocked /\ TallyMatchesBallots => BallotsCount
  BY DEF BallotsCount
<1> QED BY <1>1, <1>2, <1>3, DisputeInvariant, TallyIsExact, PTL DEF Spec

-----------------------------------------------------------------------------
(* Who loses stake, and where it goes.                                      *)

\* The vote that settles a dispute against a ballot takes the cut from its owner.
Dissented(a) ==
    \E id \in Ids :
        /\ commitments[id].status = "Disputed"
        /\ commitments'[id].status \in Outcomes
        /\ now <= VoteDeadline(commitments[id])
        /\ voteRecord[id][a] \notin {None, commitments'[id].status}

\* What the settling vote leaves of each stake.
LEMMA ReleasedStake ==
    ASSUME DisputeInv, NEW id \in Ids, NEW a \in Addresses, Releases(id, a)
    PROVE  \/ stakes'[a].staked = stakes[a].staked
           \/ Dissented(a) /\ stakes'[a].staked = stakes[a].staked - SlashCut(stakes[a].staked)
<1> USE DEF DisputeInv
<1> SUFFICES ASSUME NEW b \in Addresses, NEW o \in Outcomes,
                    CastDisputeVote(b, id, o),
                    commitments' = [commitments EXCEPT ![id] = Settled(commitments[id], o)],
                    Dissents([voteRecord[id] EXCEPT ![b] = o][a], o)
             PROVE  Dissented(a)
  BY DEF Releases
<1>1. commitments[id].status = "Disputed" /\ now <= VoteDeadline(commitments[id])
  BY DEF CastDisputeVote
<1>2. commitments[id] \in Commitment
  BY <1>1, StoredCommitment DEF Exists
<1>3. commitments'[id].status = o
  BY <1>2 DEF TypeOK, Settled, Commitment
<1>4. voteRecord[id][a] \notin {None, o}
  BY DEF TypeOK, Dissents
<1> QED BY <1>1, <1>3, <1>4 DEF Dissented

\* A recorded stake shrinks only by a lost vote, or when its owner, who has no ballot
\* in a dispute, takes it out after the unbonding period.
LEMMA StakeLost ==
    ASSUME DisputeInv, VotersStayLocked, [Next]_vars, NEW a \in Addresses,
           stakes[a].staked - stakes'[a].staked > 0
    PROVE  \/ Dissented(a) /\ stakes[a].staked - stakes'[a].staked = SlashCut(stakes[a].staked)
           \/ /\ stakes[a].unbonding_until # None
              /\ now >= stakes[a].unbonding_until
              /\ \A id \in Ids : voteRecord[id][a] = None
              /\ stakes'[a] = NoStake
<1> USE DEF DisputeInv
<1>1. stakes[a] \in AttestorStake /\ stakes \in [Addresses -> AttestorStake]
  BY DEF TypeOK
<1>2. ASSUME NEW amount \in StakeAmounts, StakeAttestor(a, amount) PROVE FALSE
  <2>1. stakes'[a].staked = stakes[a].staked + amount /\ amount \in Nat
    BY <1>1, <1>2, RegistryAssumption DEF StakeAttestor, AttestorStake
  <2> QED BY <1>1, <2>1 DEF AttestorStake
<1>3. ~RequestUnstake(a)
  BY <1>1 DEF RequestUnstake, AttestorStake
<1>4. CASE FinalizeUnstake(a)
  BY <1>1, <1>4 DEF FinalizeUnstake, VotersStayLocked
<1>5. ASSUME stakes'[a] = WithLock(stakes[a], TRUE) PROVE FALSE
  <2>1. stakes'[a].staked = stakes[a].staked /\ stakes[a].staked \in Nat
    BY <1>1, <1>5, WithLockEffect DEF AttestorStake
  <2> QED BY <2>1
<1>6. CASE \E id \in Ids : Releases(id, a)
  <2>1. Dissented(a) /\ stakes'[a].staked = stakes[a].staked - SlashCut(stakes[a].staked)
    BY <1>1, <1>6, ReleasedStake DEF AttestorStake
  <2>2. SlashCut(stakes[a].staked) \in 0 .. stakes[a].staked /\ stakes[a].staked \in Nat
    BY <1>1, SlashCutBounds DEF AttestorStake
  <2> QED BY <2>1, <2>2
<1>7. stakes'[a] # stakes[a]
  BY <1>1 DEF AttestorStake
<1> QED BY <1>2, <1>3, <1>4, <1>5, <1>6, <1>7, StakesMove

\* Every dissenter of a vote pays the cut.
LEMMA DissentersPay ==
    ASSUME DisputeInv, TallyMatchesBallots, [Next]_vars, NEW a \in Addresses, Dissented(a)
    PROVE  stakes[a].staked - stakes'[a].staked = SlashCut(stakes[a].staked)
<1> USE DEF DisputeInv
<1>1. PICK id \in Ids :
        /\ commitments[id].status = "Disputed"
        /\ commitments'[id].status \in Outcomes
        /\ now <= VoteDeadline(commitments[id])
        /\ voteRecord[id][a] \notin {None, commitments'[id].status}
  BY DEF Dissented
<1>2. a \in Panel(commitments[id]) /\ HasPanel(commitments[id])
  BY <1>1, BallotsAreOfThePanel DEF Panel, HasPanel
<1>3. commitments'[id] # commitments[id]
  BY <1>1 DEF Outcomes
<1>4. PICK o \in Outcomes :
        /\ commitments'[id].status = o
        /\ \/ \E b \in Addresses : CastDisputeVote(b, id, o) /\ tally[id][o] + 1 >= commitments[id].terms.threshold
           \/ CheckDisputeTimeout(id)
  BY <1>1, <1>2, <1>3, RoutesOut
<1>5. ~CheckDisputeTimeout(id)
  <2>1. commitments[id] \in Commitment /\ now \in Nat
    BY <1>1, StoredCommitment DEF Exists, TypeOK
  <2>2. VoteDeadline(commitments[id]) \in Nat
    BY <2>1, RegistryAssumption DEF VoteDeadline, Commitment
  <2>3. CheckDisputeTimeout(id) => now > VoteDeadline(commitments[id])
    BY DEF CheckDisputeTimeout
  <2>4. now <= VoteDeadline(commitments[id])
    BY <1>1
  <2> QED BY <2>1, <2>2, <2>3, <2>4
<1>6. PICK b \in Addresses :
        CastDisputeVote(b, id, o) /\ tally[id][o] + 1 >= commitments[id].terms.threshold
  BY <1>4, <1>5
<1> DEFINE ballots == [voteRecord[id] EXCEPT ![b] = o]
<1>7. UnlockPanelAndClear(id, ballots, TRUE, o) /\ voteRecord[id][b] = None
  BY <1>6 DEF CastDisputeVote
<1>8. Dissents(ballots[a], o)
  BY <1>1, <1>4, <1>7 DEF Dissents, TypeOK
<1>9. stakes'[a].staked = stakes[a].staked - SlashCut(stakes[a].staked)
  <2> HIDE DEF ballots
  <2> QED BY <1>2, <1>7, <1>8, SettlementStakes
<1>10. stakes[a].staked \in Nat /\ SlashCut(stakes[a].staked) \in 0 .. stakes[a].staked
  BY SlashCutBounds DEF TypeOK, AttestorStake
<1> QED BY <1>9, <1>10

-----------------------------------------------------------------------------
(* The tokens held for the stakes.                                          *)

Staked == [a \in Addresses |-> stakes[a].staked]

\* The recorded stakes are the sum over all addresses.
LEMMA RecordedIsSum == RecordedStakes = SumFunctionOnSet(Staked, Addresses)
BY DEF RecordedStakes, SumFunction, Staked

\* A deposit adds to the vault what it adds to the records.
LEMMA DepositIsRecorded ==
    ASSUME TypeOK, NEW a \in Addresses, NEW amount \in StakeAmounts, StakeAttestor(a, amount)
    PROVE  Surplus' >= Surplus
<1> DEFINE new == [b \in Addresses |-> stakes'[b].staked]
<1>1. /\ \A b \in Addresses : Staked[b] \in Int
      /\ amount \in Int /\ vault \in Int
  BY RegistryAssumption DEF Staked, TypeOK, AttestorStake
<1>2. /\ new[a] = Staked[a] + amount
      /\ \A b \in Addresses \ {a} : new[b] = Staked[b]
  BY DEF StakeAttestor, TypeOK, AttestorStake, Staked
<1>3. SumFunctionOnSet(new, Addresses) = SumFunctionOnSet(Staked, Addresses) + new[a] - Staked[a]
  <2>1. new[a] \in Int
    BY <1>1, <1>2
  <2> HIDE DEF new
  <2> QED BY <1>1, <1>2, <2>1, AddressesAssumption, SumUpdate
<1>4. SumFunctionOnSet(Staked, Addresses) \in Int
  BY <1>1, AddressesAssumption, SumType
<1>5. RecordedStakes' = SumFunctionOnSet(new, Addresses)
  BY DEF RecordedStakes, SumFunction
<1>6. vault' = vault + amount
  BY DEF StakeAttestor
<1> HIDE DEF new
<1> QED BY <1>1, <1>2, <1>3, <1>4, <1>5, <1>6, RecordedIsSum DEF Surplus

\* A withdrawal takes from the vault what it takes from the records.
LEMMA WithdrawalIsRecorded ==
    ASSUME TypeOK, NEW a \in Addresses, FinalizeUnstake(a)
    PROVE  Surplus' >= Surplus
<1> DEFINE new == [b \in Addresses |-> stakes'[b].staked]
<1>1. (\A b \in Addresses : Staked[b] \in Int) /\ vault \in Int
  BY DEF Staked, TypeOK, AttestorStake
<1>2. /\ new[a] = 0
      /\ \A b \in Addresses \ {a} : new[b] = Staked[b]
  BY DEF FinalizeUnstake, TypeOK, NoStake, Staked
<1>3. SumFunctionOnSet(new, Addresses) = SumFunctionOnSet(Staked, Addresses) + new[a] - Staked[a]
  <2> HIDE DEF new
  <2> QED BY <1>1, <1>2, AddressesAssumption, SumUpdate
<1>4. SumFunctionOnSet(Staked, Addresses) \in Int
  BY <1>1, AddressesAssumption, SumType
<1>5. RecordedStakes' = SumFunctionOnSet(new, Addresses)
  BY DEF RecordedStakes, SumFunction
<1>6. vault' = vault - Staked[a]
  BY DEF FinalizeUnstake, Staked
<1> HIDE DEF new
<1> QED BY <1>1, <1>2, <1>3, <1>4, <1>5, <1>6, RecordedIsSum DEF Surplus

\* Whatever else takes from the records leaves the vault alone.
LEMMA SlashesStayInTheVault ==
    ASSUME TypeOK, TypeOK', UNCHANGED vault,
           \A a \in Addresses : stakes'[a].staked <= stakes[a].staked
    PROVE  Surplus' >= Surplus
<1> DEFINE new == [b \in Addresses |-> stakes'[b].staked]
<1>1. \A b \in Addresses : Staked[b] \in Int /\ new[b] \in Int /\ new[b] <= Staked[b]
  BY DEF Staked, TypeOK, AttestorStake
<1>2. SumFunctionOnSet(new, Addresses) <= SumFunctionOnSet(Staked, Addresses)
  <2> HIDE DEF new
  <2> QED BY <1>1, AddressesAssumption, SumMonotone
<1>3. SumFunctionOnSet(Staked, Addresses) \in Int /\ SumFunctionOnSet(new, Addresses) \in Int
  <2> HIDE DEF new
  <2> QED BY <1>1, AddressesAssumption, SumType
<1>4. RecordedStakes' = SumFunctionOnSet(new, Addresses)
  BY DEF RecordedStakes, SumFunction
<1> HIDE DEF new
<1> QED BY <1>2, <1>3, <1>4, RecordedIsSum DEF Surplus, TypeOK

\* No step takes more out of the vault than out of the records.
LEMMA SurplusStep ==
    ASSUME TypeOK, [Next]_vars
    PROVE  Surplus' >= Surplus
<1>1. TypeOK'
  BY TypeOKStep
<1>2. CASE Stake
  BY <1>2, DepositIsRecorded DEF Stake
<1>3. CASE \E a \in Addresses : FinalizeUnstake(a)
  BY <1>3, WithdrawalIsRecorded
<1>4. CASE ~Stake /\ ~ \E a \in Addresses : FinalizeUnstake(a)
  <2>1. UNCHANGED vault
    BY <1>4 DEF Next, Create, CreateCommitment, BatchCreateCommitments, CreateAll, Attest,
       AttestMilestone, RaiseDispute, Dispute, ResolveDispute, ResolveByResolver,
       ResolveByCommittee, PanelVote, CastDisputeVote, UnlockPanelAndClear, Timeout,
       CheckDisputeTimeout, Setup, Initialize, SetToken, Administer, SetPaused, Upgrade, Unstake,
       RequestUnstake, Migrate, MigrateReputationBatch, Tick, vars, stakeVars
  <2>2. ASSUME NEW a \in Addresses PROVE stakes'[a].staked <= stakes[a].staked
    <3>1. stakes[a] \in AttestorStake /\ stakes \in [Addresses -> AttestorStake]
      BY DEF TypeOK
    <3>2. stakes[a].staked \in Nat /\ SlashCut(stakes[a].staked) \in 0 .. stakes[a].staked
      BY <3>1, SlashCutBounds DEF AttestorStake
    <3>3. CASE stakes'[a].staked = stakes[a].staked
      BY <3>2, <3>3
    <3>4. ASSUME RequestUnstake(a) PROVE stakes'[a].staked = stakes[a].staked
      BY <3>1, <3>4 DEF RequestUnstake, AttestorStake
    <3>5. ASSUME stakes'[a] = WithLock(stakes[a], TRUE) PROVE stakes'[a].staked = stakes[a].staked
      BY <3>1, <3>5, WithLockEffect
    <3>6. ASSUME NEW id \in Ids, Releases(id, a) PROVE stakes'[a].staked <= stakes[a].staked
      <4>1. \/ stakes'[a].staked = stakes[a].staked
            \/ stakes'[a].staked = stakes[a].staked - SlashCut(stakes[a].staked)
        BY <3>6 DEF Releases
      <4> QED BY <3>2, <4>1
    <3>7. ~ \E amount \in StakeAmounts : StakeAttestor(a, amount)
      BY <1>4 DEF Stake
    <3> QED BY <1>4, <3>3, <3>4, <3>5, <3>6, <3>7, StakesMove
  <2> QED BY <1>1, <2>1, <2>2, SlashesStayInTheVault
<1> QED BY <1>2, <1>3, <1>4

\* What the contract holds beyond the recorded stakes never shrinks, whatever is
\* slashed and withdrawn, by any number of attestors.
THEOREM ForfeitsStayInTheVault == Spec => SurplusNeverShrinks
<1>1. TypeOK /\ [Next]_vars => [Surplus' >= Surplus]_vars
  BY SurplusStep
<1> QED BY <1>1, TypeCorrect, PTL DEF Spec, SurplusNeverShrinks

\* Nobody's vote, settlement, timeout or withdrawal takes from an attestor's stake but
\* the cut of a lost vote, and what is lost stays in the vault; provided no attestor has
\* two disputes at a time.
THEOREM StakesStaySafe == Spec /\ []PanelsAreDisjoint => StakesAreSafe
<1>1. ASSUME DisputeInv, TallyMatchesBallots, VotersStayLocked, [Next]_vars, NEW a \in Addresses
      PROVE  LET lost == stakes[a].staked - stakes'[a].staked
                 dissented == \E id \in Ids :
                                 /\ commitments[id].status = "Disputed"
                                 /\ commitments'[id].status \in Outcomes
                                 /\ now <= VoteDeadline(commitments[id])
                                 /\ voteRecord[id][a] \notin {None, commitments'[id].status}
             IN  /\ lost > 0 => \/ dissented /\ lost = SlashCut(stakes[a].staked)
                                \/ /\ stakes[a].unbonding_until # None
                                   /\ now >= stakes[a].unbonding_until
                                   /\ \A id \in Ids : voteRecord[id][a] = None
                                   /\ stakes'[a] = NoStake
                 /\ dissented => lost = SlashCut(stakes[a].staked)
  <2>1. stakes[a].staked - stakes'[a].staked > 0 =>
          \/ Dissented(a) /\ stakes[a].staked - stakes'[a].staked = SlashCut(stakes[a].staked)
          \/ /\ stakes[a].unbonding_until # None
             /\ now >= stakes[a].unbonding_until
             /\ \A id \in Ids : voteRecord[id][a] = None
             /\ stakes'[a] = NoStake
    BY <1>1, StakeLost
  <2>2. Dissented(a) => stakes[a].staked - stakes'[a].staked = SlashCut(stakes[a].staked)
    BY <1>1, DissentersPay
  <2> QED BY <2>1, <2>2 DEF Dissented
<1>2. BallotsCount => VotersStayLocked /\ TallyMatchesBallots
  BY DEF BallotsCount
<1>3. DisputeInv /\ BallotsCount /\ [Next]_vars =>
        [\A a \in Addresses :
           LET lost == stakes[a].staked - stakes'[a].staked
               dissented == \E id \in Ids :
                               /\ commitments[id].status = "Disputed"
                               /\ commitments'[id].status \in Outcomes
                               /\ now <= VoteDeadline(commitments[id])
                               /\ voteRecord[id][a] \notin {None, commitments'[id].status}
           IN  /\ lost > 0 => \/ dissented /\ lost = SlashCut(stakes[a].staked)
                              \/ /\ stakes[a].unbonding_until # None
                                 /\ now >= stakes[a].unbonding_until
                                 /\ \A id \in Ids : voteRecord[id][a] = None
                                 /\ stakes'[a] = NoStake
               /\ dissented => lost = SlashCut(stakes[a].staked)]_vars
  BY <1>1, <1>2
<1>4. Spec /\ []PanelsAreDisjoint => OnlyDissentersForfeit
  BY <1>3, DisputeInvariant, BallotsAlwaysCount, PTL DEF Spec, OnlyDissentersForfeit
<1> QED BY <1>4, ForfeitsStayInTheVault, PTL DEF StakesAreSafe

-----------------------------------------------------------------------------
(* The tokens held for the disputes.                                        *)

\* A dispute stake that is recorded is that of a dispute, or was left behind by a
\* panel whose commitment cannot be disputed again.
StakesAreOfDisputes ==
    \A id \in Ids : disputeStake[id] # 0 =>
        \/ commitments[id].status = "Disputed"
        \/ commitments[id].status \in Outcomes /\ commitments[id].attested_at = None

\* finalize_resolution of a dispute without a panel.
PaysOut(id) ==
    /\ commitments[id].status = "Disputed"
    /\ ~HasPanel(commitments[id])
    /\ \E o \in Outcomes : FinalizeResolution(id, o)

\* A dispute stake is recorded when a dispute is raised and dropped when it is paid.
LEMMA EscrowMoves ==
    ASSUME TypeOK, [Next]_vars
    PROVE  \/ UNCHANGED escrowVars /\ ~RaiseDispute
           \/ \E id \in Ids, caller \in Addresses : Dispute(caller, id)
           \/ (\E id \in Ids : PaysOut(id)) /\ ~RaiseDispute
<1>1. CASE ResolveDispute
  <2>1. PICK caller \in Addresses, id \in Ids, o \in Outcomes :
           ResolveByResolver(caller, id, o) \/ ResolveByCommittee(caller, id, o)
    BY <1>1 DEF ResolveDispute
  <2>2. commitments[id].status = "Disputed" /\ ~HasPanel(commitments[id])
    BY <2>1 DEF ResolveByResolver, ResolveByCommittee
  <2>3. FinalizeResolution(id, o) \/ UNCHANGED escrowVars
    BY <2>1 DEF ResolveByResolver, ResolveByCommittee
  <2> QED BY <2>2, <2>3 DEF PaysOut, RaiseDispute
<1>2. CASE ~ResolveDispute
  BY <1>2 DEF Next, Create, CreateCommitment, BatchCreateCommitments, CreateAll, Attest,
     AttestMilestone, RaiseDispute, PanelVote, CastDisputeVote, PersistOutcome, Timeout,
     CheckDisputeTimeout, Setup, Initialize, SetToken, Administer, SetPaused, Upgrade, Stake,
     StakeAttestor, Unstake, RequestUnstake, FinalizeUnstake, Migrate, MigrateReputationBatch,
     Tick, vars
<1> QED BY <1>1, <1>2

\* Standing outcomes are contested by raising a dispute only.
LEMMA ContestsAreRaised ==
    ASSUME DisputeInv, [Next]_vars, NEW id \in Ids, Contests(id)
    PROVE  RaiseDispute
<1> USE DEF DisputeInv
<1>1. commitments[id].status \in Outcomes /\ commitments[id] \in Commitment
  BY StoredCommitment DEF Contests, Exists, Outcomes
<1>2. commitments'[id].status = "Disputed"
  BY <1>1 DEF Contests, Commitment
<1>3. ASSUME NEW i \in Ids, NEW o \in Outcomes, commitments[i] \in Commitment,
             commitments' = [commitments EXCEPT ![i] = Settled(commitments[i], o)]
      PROVE  FALSE
  BY <1>1, <1>2, <1>3 DEF TypeOK, Settled, Commitment, Outcomes
<1>4. ~ResolveDispute
  <2> SUFFICES ASSUME NEW caller \in Addresses, NEW i \in Ids, NEW o \in Outcomes,
                      ResolveByResolver(caller, i, o) \/ ResolveByCommittee(caller, i, o)
               PROVE  FALSE
    BY DEF ResolveDispute
  <2>1. commitments[i] \in Commitment
    BY StoredCommitment DEF ResolveByResolver, ResolveByCommittee, Exists
  <2>2. \/ commitments' = [commitments EXCEPT ![i] = Settled(commitments[i], o)]
        \/ UNCHANGED commitments
    BY DEF ResolveByResolver, ResolveByCommittee, FinalizeResolution
  <2> QED BY <1>1, <1>2, <1>3, <2>1, <2>2 DEF Outcomes
<1>5. ~PanelVote
  <2> SUFFICES ASSUME NEW a \in Addresses, NEW i \in Ids, NEW o \in Outcomes, CastDisputeVote(a, i, o)
               PROVE  FALSE
    BY DEF PanelVote
  <2>1. commitments[i] \in Commitment
    BY StoredCommitment DEF CastDisputeVote, Exists
  <2>2. \/ commitments' = [commitments EXCEPT ![i] = Settled(commitments[i], o)]
        \/ UNCHANGED commitments
    BY DEF CastDisputeVote, PersistOutcome
  <2> QED BY <1>1, <1>2, <1>3, <2>1, <2>2 DEF Outcomes
<1>6. ~Timeout
  <2> SUFFICES ASSUME NEW i \in Ids, CheckDisputeTimeout(i)
               PROVE  FALSE
    BY DEF Timeout
  <2>1. commitments[i] \in Commitment
    BY StoredCommitment DEF CheckDisputeTimeout, Exists
  <2>2. commitments' = [commitments EXCEPT ![i] = Settled(commitments[i], "Breached")] /\ "Breached" \in Outcomes
    BY DEF CheckDisputeTimeout, PersistOutcome, Outcomes
  <2> QED BY <1>3, <2>1, <2>2
<1>7. ~Attest
  <2> SUFFICES ASSUME NEW caller \in Addresses, NEW i \in Ids, NEW index, NEW o \in Outcomes,
                      AttestMilestone(caller, i, index, o)
               PROVE  FALSE
    BY DEF Attest
  <2>1. /\ commitments[i].status = "Pending"
        /\ commitments' = [commitments EXCEPT ![i] = Attested(commitments[i], o)]
    BY DEF AttestMilestone
  <2>2. i = id
    BY <1>1, <1>2, <2>1 DEF TypeOK, Outcomes
  <2> QED BY <1>1, <2>1, <2>2 DEF Outcomes
<1>8. ~Create
  <2>1. Create => Registers(id) \/ commitments'[id] = commitments[id]
    BY CreateIsCreateAll, CreateAllMoves
  <2>2. ~Registers(id)
    BY <1>1 DEF Registers, Exists, Outcomes
  <2> QED BY <1>1, <1>2, <2>1, <2>2 DEF Outcomes
<1>9. ~ (Setup \/ Administer \/ Stake \/ Unstake \/ Migrate \/ Tick \/ UNCHANGED vars)
  <2>1. commitments' # commitments
    BY <1>1, <1>2 DEF Outcomes
  <2> QED BY <2>1 DEF Setup, Initialize, SetToken, Administer, SetPaused, Upgrade, Stake, StakeAttestor,
     Unstake, RequestUnstake, FinalizeUnstake, Migrate, MigrateReputationBatch, Tick, vars,
     commitmentVars
<1> QED BY <1>4, <1>5, <1>6, <1>7, <1>8, <1>9 DEF Next

\* What EscrowBacksDisputes and StakesAreOfDisputes say of one commitment.
Backed(id) ==
    /\ Exists(id) /\ ~HasPanel(commitments[id]) =>
         disputeStake[id] = IF commitments[id].status = "Disputed" THEN DISPUTE_STAKE_AMOUNT ELSE 0
    /\ disputeStake[id] # 0 =>
         \/ commitments[id].status = "Disputed"
         \/ commitments[id].status \in Outcomes /\ commitments[id].attested_at = None

\* A dispute stake that a step leaves alone stays right: the commitment stays, is
\* registered or attested, or is settled by its panel.
LEMMA BackedKept ==
    ASSUME DisputeInv, [Next]_vars, ~RaiseDispute, NEW id \in Ids, Backed(id), ~PaysOut(id),
           disputeStake'[id] = disputeStake[id]
    PROVE  Backed(id)'
<1> USE DEF DisputeInv
<1>1. CASE commitments'[id] = commitments[id]
  BY <1>1 DEF Backed, Exists, HasPanel
<1>2. CASE Registers(id)
  BY <1>2 DEF Registers, NewCommitment, Exists, Backed, Outcomes
<1>3. CASE Attests(id)
  <2>1. commitments[id] \in Commitment /\ commitments[id].status = "Pending"
    BY <1>3, StoredCommitment DEF Attests, Exists
  <2>2. PICK o \in Outcomes : commitments'[id] = Attested(commitments[id], o)
    BY <1>3 DEF Attests
  <2>3. disputeStake[id] = 0
    BY <2>1 DEF Backed, Outcomes
  <2>4. commitments'[id].status # "Disputed"
    BY <2>1, <2>2 DEF Attested, Commitment, Resolution
  <2> QED BY <2>3, <2>4 DEF Backed
<1>4. ~Contests(id)
  BY ContestsAreRaised
<1>5. CASE Settles(id)
  <2>1. commitments[id].status = "Disputed" /\ commitments[id] \in Commitment
    BY <1>5, StoredCommitment DEF Settles, Exists
  <2>2. PICK o \in Outcomes : commitments'[id] = Settled(commitments[id], o)
    BY <1>5 DEF Settles
  <2>3. /\ commitments'[id].status = o /\ commitments'[id].attested_at = None
        /\ commitments'[id].terms = commitments[id].terms
    BY <2>1, <2>2 DEF Settled, Commitment
  <2>4. commitments'[id] # commitments[id]
    BY <2>1, <2>3 DEF Outcomes
  <2>5. HasPanel(commitments[id])
    BY <2>1, <2>4, RoutesOut DEF PaysOut
  <2> QED BY <2>3, <2>5 DEF Backed, HasPanel
<1> QED BY <1>1, <1>2, <1>3, <1>4, <1>5, CommitmentsMove DEF Advances

EscrowInv == EscrowBacksDisputes /\ StakesAreOfDisputes

\* The invariant of escrow, dispute by dispute.
LEMMA EscrowInvIsBacked ==
    EscrowInv <=> escrow = SumFunction(disputeStake) /\ \A id \in Ids : Backed(id)
BY DEF EscrowInv, EscrowBacksDisputes, StakesAreOfDisputes, EscrowedStakes, Backed

\* The sum follows a change of one dispute stake.
LEMMA EscrowFollows ==
    ASSUME TypeOK, NEW id \in Ids, NEW n \in Nat,
           escrow = SumFunction(disputeStake),
           disputeStake' = [disputeStake EXCEPT ![id] = n],
           escrow' = escrow + n - disputeStake[id]
    PROVE  escrow' = SumFunction(disputeStake')
<1>1. /\ DOMAIN disputeStake = Ids /\ DOMAIN disputeStake' = Ids
      /\ \A i \in Ids : disputeStake[i] \in Int
      /\ disputeStake'[id] = n
      /\ \A i \in Ids \ {id} : disputeStake'[i] = disputeStake[i]
  BY DEF TypeOK
<1>2. IsFiniteSet(Ids)
  BY FS_Interval, RegistryAssumption DEF Ids
<1>3. SumFunctionOnSet(disputeStake', Ids) = SumFunctionOnSet(disputeStake, Ids) + n - disputeStake[id]
  <2> DEFINE v == disputeStake'
  <2>1. v[id] = n /\ v[id] \in Int /\ \A i \in Ids \ {id} : v[i] = disputeStake[i]
    BY <1>1
  <2> HIDE DEF v
  <2>2. SumFunctionOnSet(v, Ids) = SumFunctionOnSet(disputeStake, Ids) + v[id] - disputeStake[id]
    BY <1>1, <1>2, <2>1, SumUpdate
  <2> QED BY <2>1, <2>2 DEF v
<1> QED BY <1>1, <1>3 DEF SumFunction

\* Every step keeps escrow and dispute stakes equal.
LEMMA EscrowStep ==
    ASSUME DisputeInv, EscrowInv, [Next]_vars
    PROVE  EscrowInv'
<1> USE DEF DisputeInv
<1>1. escrow = SumFunction(disputeStake) /\ \A id \in Ids : Backed(id)
  BY EscrowInvIsBacked
<1> SUFFICES escrow' = SumFunction(disputeStake') /\ \A id \in Ids : Backed(id)'
  BY DEF EscrowInv, EscrowBacksDisputes, StakesAreOfDisputes, EscrowedStakes, Backed
<1>2. CASE UNCHANGED escrowVars /\ ~RaiseDispute
  <2>1. ASSUME NEW id \in Ids PROVE Backed(id)'
    <3>1. CASE ~PaysOut(id)
      BY <1>1, <1>2, <3>1, BackedKept DEF escrowVars
    <3>2. CASE PaysOut(id)
      <4>1. disputeStake'[id] = 0 /\ disputeStake[id] = DISPUTE_STAKE_AMOUNT
        BY <1>1, <3>2 DEF PaysOut, FinalizeResolution, TypeOK, Backed, Exists
      <4> QED BY <1>2, <4>1, RegistryAssumption DEF escrowVars
    <3> QED BY <3>1, <3>2
  <2> QED BY <1>1, <1>2, <2>1 DEF escrowVars
<1>3. ASSUME NEW id \in Ids, NEW caller \in Addresses, Dispute(caller, id)
      PROVE  escrow' = SumFunction(disputeStake') /\ \A i \in Ids : Backed(i)'
  <2>1. /\ commitments[id].status \in Outcomes
        /\ commitments[id].attested_at # None
        /\ disputeStake' = [disputeStake EXCEPT ![id] = DISPUTE_STAKE_AMOUNT]
        /\ escrow' = escrow + DISPUTE_STAKE_AMOUNT
        /\ commitments' = [commitments EXCEPT ![id] = [commitments[id] EXCEPT !.status = "Disputed"]]
    BY <1>3 DEF Dispute, InDisputeWindow
  <2>2. disputeStake[id] = 0
    BY <1>1, <2>1 DEF Backed, Outcomes
  <2>3. escrow' = SumFunction(disputeStake')
    <3>1. escrow' = escrow + DISPUTE_STAKE_AMOUNT - disputeStake[id] /\ DISPUTE_STAKE_AMOUNT \in Nat
      BY <2>1, <2>2, RegistryAssumption DEF TypeOK
    <3> QED BY <1>1, <2>1, <3>1, EscrowFollows
  <2>4. commitments[id] \in Commitment
    BY <2>1, StoredCommitment DEF Exists, Outcomes
  <2>5. ASSUME NEW i \in Ids PROVE Backed(i)'
    <3>1. CASE i = id
      <4>1. commitments'[id].status = "Disputed" /\ disputeStake'[id] = DISPUTE_STAKE_AMOUNT
        BY <2>1, <2>4 DEF TypeOK, Commitment
      <4> QED BY <3>1, <4>1 DEF Backed
    <3>2. CASE i # id
      <4>1. commitments'[i] = commitments[i] /\ disputeStake'[i] = disputeStake[i]
        BY <2>1, <3>2 DEF TypeOK
      <4> QED BY <1>1, <4>1 DEF Backed, Exists, HasPanel
    <3> QED BY <3>1, <3>2
  <2> QED BY <2>3, <2>5
<1>4. ASSUME NEW id \in Ids, PaysOut(id), ~RaiseDispute
      PROVE  escrow' = SumFunction(disputeStake') /\ \A i \in Ids : Backed(i)'
  <2>1. PICK o \in Outcomes : FinalizeResolution(id, o)
    BY <1>4 DEF PaysOut
  <2>2. /\ disputeStake' = [disputeStake EXCEPT ![id] = 0]
        /\ escrow' = escrow - disputeStake[id]
        /\ commitments' = [commitments EXCEPT ![id] = Settled(commitments[id], o)]
    BY <2>1 DEF FinalizeResolution
  <2>3. escrow' = SumFunction(disputeStake')
    <3>1. escrow' = escrow + 0 - disputeStake[id]
      BY <2>2 DEF TypeOK
    <3> QED BY <1>1, <2>2, <3>1, EscrowFollows
  <2>4. commitments[id] \in Commitment
    BY <1>4, StoredCommitment DEF PaysOut, Exists
  <2>5. ASSUME NEW i \in Ids PROVE Backed(i)'
    <3>1. CASE i = id
      <4>1. commitments'[id].status = o /\ disputeStake'[id] = 0
        BY <2>2, <2>4 DEF TypeOK, Settled, Commitment
      <4> QED BY <3>1, <4>1 DEF Backed, Outcomes
    <3>2. CASE i # id
      <4>1. commitments'[i] = commitments[i] /\ disputeStake'[i] = disputeStake[i]
        BY <2>2, <3>2 DEF TypeOK
      <4> QED BY <1>1, <4>1 DEF Backed, Exists, HasPanel
    <3> QED BY <3>1, <3>2
  <2> QED BY <2>3, <2>5
<1> QED BY <1>2, <1>3, <1>4, EscrowMoves

\* At first nothing is in escrow and no dispute has a stake.
LEMMA EscrowAtStart == Init => EscrowInv
<1> SUFFICES ASSUME Init PROVE EscrowInv
  OBVIOUS
<1>1. \A id \in Ids : Backed(id)
  BY DEF Init, Backed, Exists, NoCommitment
<1>2. SumFunctionOnSet(disputeStake, Ids) = 0
  <2>1. IsFiniteSet(Ids)
    BY FS_Interval, RegistryAssumption DEF Ids
  <2> QED BY <2>1, SumOfZeros DEF Init
<1>3. escrow = SumFunction(disputeStake)
  BY <1>2 DEF Init, SumFunction
<1> QED BY <1>1, <1>3, EscrowInvIsBacked

\* The dispute tokens the contract holds are the sum of the recorded dispute stakes,
\* and a commitment without a panel has one recorded exactly while it is disputed:
\* for any number of commitments, however their disputes interleave.
THEOREM EscrowAlwaysBacksDisputes == Spec => []EscrowBacksDisputes
<1>1. EscrowInv => EscrowBacksDisputes
  BY DEF EscrowInv
<1> QED BY <1>1, DisputeInvariant, EscrowAtStart, EscrowStep, PTL DEF Spec

-----------------------------------------------------------------------------
(* The registry implements the outcome ledger: every step of the contract,  *)
(* seen through its getters, is a step of the ledger or changes nothing.    *)

\* The life of a commitment at a given time: what LifeOf says, of any moment.
LifeAt(c, t) ==
    IF c = NoCommitment THEN [phase |-> "absent"]
    ELSE IF c.status = "Pending" THEN [phase |-> "pending", issuer |-> c.terms.issuer]
    ELSE IF c.status = "Disputed" THEN [phase |-> "contested", issuer |-> c.terms.issuer]
    ELSE [phase   |-> IF c.attested_at # None /\ t <= c.attested_at + DISPUTE_WINDOW_SECONDS
                      THEN "standing" ELSE "final",
          issuer  |-> c.terms.issuer,
          outcome |-> c.status]

\* A stored commitment is not the absence of one.
LEMMA CommitmentIsSomething ==
    ASSUME NEW c \in Commitment
    PROVE  c # NoCommitment /\ c.status # "Absent"
BY DEF Commitment, Statuses, Outcomes, NoCommitment

\* LifeOf is the life at the present moment, before a step and after it.
LEMMA LifeIsLifeAt ==
    ASSUME NEW id \in Ids
    PROVE  /\ LifeOf(commitments[id]) = LifeAt(commitments[id], now)
           /\ LifeOf(commitments[id])' = LifeAt(commitments'[id], now')
<1>1. ASSUME NEW c PROVE LifeOf(c) = LifeAt(c, now)
  <2>1. CASE c = NoCommitment
    BY <2>1 DEF LifeOf, LifeAt, NoCommitment
  <2>2. CASE c # NoCommitment /\ c.status = "Pending"
    BY <2>2 DEF LifeOf, LifeAt
  <2>3. CASE c # NoCommitment /\ c.status = "Disputed"
    BY <2>3 DEF LifeOf, LifeAt
  <2>4. CASE c # NoCommitment /\ c.status \notin {"Pending", "Disputed"}
    BY <2>4 DEF LifeOf, LifeAt, InDisputeWindow
  <2> QED BY <2>1, <2>2, <2>3, <2>4
<1>2. LifeOf(commitments[id])' = LifeAt(commitments'[id], now')
  <2> DEFINE c == commitments[id]
  <2>1. CASE c' = NoCommitment
    BY <2>1 DEF LifeOf, LifeAt, NoCommitment
  <2>2. CASE c' # NoCommitment /\ c'.status = "Pending"
    BY <2>2 DEF LifeOf, LifeAt
  <2>3. CASE c' # NoCommitment /\ c'.status = "Disputed"
    BY <2>3 DEF LifeOf, LifeAt
  <2>4. CASE c' # NoCommitment /\ c'.status \notin {"Pending", "Disputed"}
    BY <2>4 DEF LifeOf, LifeAt, InDisputeWindow
  <2> QED BY <2>1, <2>2, <2>3, <2>4
<1> QED BY <1>1, <1>2

\* The phases of the ledger.
LEMMA PhasesAt ==
    ASSUME NEW c \in Commitment, NEW t
    PROVE  /\ c.status = "Pending" => LifeAt(c, t) = Ledger!Pending(c.terms.issuer)
           /\ c.status = "Disputed" => LifeAt(c, t) = Ledger!Contested(c.terms.issuer)
           /\ c.status \in Outcomes /\ c.attested_at # None
                /\ t <= c.attested_at + DISPUTE_WINDOW_SECONDS =>
                LifeAt(c, t) = Ledger!Standing(c.terms.issuer, c.status)
           /\ c.status \in Outcomes
                /\ ~ (c.attested_at # None /\ t <= c.attested_at + DISPUTE_WINDOW_SECONDS) =>
                LifeAt(c, t) = Ledger!Final(c.terms.issuer, c.status)
BY CommitmentIsSomething DEF LifeAt, Outcomes, Ledger!Pending, Ledger!Contested, Ledger!Standing,
   Ledger!Final

\* One commitment changes, and the life of no other.
LEMMA OneLifeMoves ==
    ASSUME TypeOK, NEW id \in Ids, NEW d, commitments' = [commitments EXCEPT ![id] = d], now' = now
    PROVE  [i \in Ids |-> LifeOf(commitments[i])]' =
             [[i \in Ids |-> LifeOf(commitments[i])] EXCEPT ![id] = LifeAt(d, now)]
<1>1. /\ commitments'[id] = d
      /\ \A i \in Ids \ {id} : commitments'[i] = commitments[i]
  BY DEF TypeOK
<1>2. \A i \in Ids : LifeOf(commitments[i])' = IF i = id THEN LifeAt(d, now) ELSE LifeOf(commitments[i])
  BY <1>1, LifeIsLifeAt
<1> QED BY <1>2

\* While commitments and time stand still, no commitment moves in the ledger.
LEMMA NoLifeMoves ==
    ASSUME UNCHANGED <<commitments, now>>
    PROVE  [i \in Ids |-> LifeOf(commitments[i])]' = [i \in Ids |-> LifeOf(commitments[i])]
BY DEF LifeOf, InDisputeWindow

\* What get_reputation returns is a row of counters.
LEMMA ViewsAreCounts ==
    ASSUME ReputationTypeOK, NEW a \in Addresses
    PROVE  ReputationView(a) \in Counts
BY NoneIsNoRow DEF ReputationTypeOK, ReputationView, ReputationV2View, ProjectV1toV2, RowV2, Counts,
   ZeroCounts, Outcomes

\* It is one after a step, too.
LEMMA ViewsAreCountsThen ==
    ASSUME ReputationTypeOK', NEW a \in Addresses
    PROVE  ReputationView(a)' \in Counts
BY NoneIsNoRow DEF ReputationTypeOK, ReputationView, ReputationV2View, ProjectV1toV2, RowV2, Counts,
   ZeroCounts, Outcomes, SCHEMA_VERSION_V1, SCHEMA_VERSION_V2

\* An outcome that stands has been counted.
LEMMA StandingIsCounted ==
    ASSUME TypeOK, ReputationMatchesOutcomes, NEW id \in Ids, commitments[id].status \in Outcomes
    PROVE  ReputationView(commitments[id].terms.issuer)[commitments[id].status] > 0
<1> DEFINE a == commitments[id].terms.issuer
           o == commitments[id].status
<1>1. a \in Addresses /\ o \in Outcomes
  BY StoredCommitment DEF Exists, Outcomes
<1>2. id \in Standing(a, o)
  BY DEF Standing
<1>3. Cardinality(Standing(a, o)) \in Nat /\ Cardinality(Standing(a, o)) # 0
  BY <1>2, StandingIsFinite, FS_EmptySet
<1> QED BY <1>1, <1>3 DEF ReputationMatchesOutcomes

\* An outcome that is recorded moves one counter of one issuer by one.
LEMMA RecordedIsScored ==
    ASSUME TypeOK, TypeOK', RowsAreConsistent,
           NEW a \in Addresses, NEW o \in Outcomes, NEW increment \in BOOLEAN,
           RecordOutcome(a, o, increment), increment \/ ReputationView(a)[o] > 0
    PROVE  [b \in Addresses |-> ReputationView(b)]' =
             [[b \in Addresses |-> ReputationView(b)] EXCEPT ![a][o] = @ + IF increment THEN 1 ELSE -1]
<1> DEFINE n == IF increment THEN 1 ELSE -1
           old == [b \in Addresses |-> ReputationView(b)]
<1>1. \A b \in Addresses, p \in Outcomes :
        (ReputationView(b)')[p] = IF b = a /\ p = o THEN ReputationView(b)[p] + n
                                  ELSE ReputationView(b)[p]
  BY UpdateReputationEffect DEF RecordOutcome, TypeOK
<1>2. \A b \in Addresses : ReputationView(b) \in Counts /\ ReputationView(b)' \in Counts
  BY ViewsAreCounts, ViewsAreCountsThen DEF TypeOK
<1>3. \A b \in Addresses \ {a} : ReputationView(b)' = ReputationView(b)
  BY <1>1, <1>2 DEF Counts
<1>4. ReputationView(a)' = [ReputationView(a) EXCEPT ![o] = @ + n]
  <2> HIDE DEF n
  <2> QED BY <1>1, <1>2 DEF Counts
<1>5. \A b \in Addresses : ReputationView(b)' = [old EXCEPT ![a][o] = @ + n][b]
  <2> HIDE DEF n
  <2> QED BY <1>3, <1>4
<1> QED BY <1>5

-----------------------------------------------------------------------------
(* The steps of the contract, as steps of the ledger.                       *)

\* Registering commitments is Register.
LEMMA CreateRegisters ==
    ASSUME TypeOK, IdsAreFresh, RowsAreConsistent, Create
    PROVE  \E ids \in SUBSET Ids : Ledger!Register(ids)
<1>1. PICK ps \in Seq(CreateParams) : CreateAll(ps)
  BY CreateIsCreateAll
<1> DEFINE ids == {id \in Ids : commitments'[id] # commitments[id]}
<1>2. ASSUME NEW id \in ids
      PROVE  /\ LifeOf(commitments[id]) = Ledger!Absent
             /\ commitments'[id].terms.issuer \in Addresses
             /\ LifeOf(commitments[id])' = Ledger!Pending(commitments'[id].terms.issuer)
  <2>1. Registers(id)
    BY <1>1, CreateAllMoves
  <2>2. commitments[id] = NoCommitment
    BY <2>1, CommitmentIsSomething DEF Registers, Exists, TypeOK
  <2>3. PICK p \in CreateParams : commitments'[id] = NewCommitment(p)
    BY <2>1 DEF Registers
  <2>4. /\ commitments'[id].terms.issuer \in Addresses
        /\ commitments'[id].status = "Pending"
        /\ commitments'[id].terms = p
    BY <2>3, RegistryAssumption DEF NewCommitment, Terms
  <2>5. LifeAt(commitments[id], now) = Ledger!Absent
    BY <2>2 DEF LifeAt, Ledger!Absent
  <2>6. LifeAt(commitments'[id], now') = Ledger!Pending(commitments'[id].terms.issuer)
    BY <2>4 DEF LifeAt, Ledger!Pending, NoCommitment
  <2> QED BY <2>4, <2>5, <2>6, LifeIsLifeAt
<1>3. ASSUME NEW id \in Ids \ ids PROVE LifeOf(commitments[id])' = LifeOf(commitments[id])
  <2>1. commitments'[id] = commitments[id] /\ now' = now
    BY <1>1 DEF CreateAll
  <2> QED BY <2>1, LifeIsLifeAt
<1> DEFINE issuer == [id \in ids |-> commitments'[id].terms.issuer]
<1>4. issuer \in [ids -> Addresses]
  BY <1>2
<1>5. [id \in Ids |-> LifeOf(commitments[id])]' =
        [id \in Ids |-> IF id \in ids THEN Ledger!Pending(issuer[id])
                        ELSE [i \in Ids |-> LifeOf(commitments[i])][id]]
  BY <1>2, <1>3
<1>6. UNCHANGED [a \in Addresses |-> ReputationView(a)]
  BY <1>1, RowsKept DEF CreateAll, outcomeVars
<1>7. \A id \in ids : [i \in Ids |-> LifeOf(commitments[i])][id] = Ledger!Absent
  BY <1>2
<1>8. Ledger!Register(ids)
  BY <1>4, <1>5, <1>6, <1>7 DEF Ledger!Register
<1> QED BY <1>8

\* Settling a dispute, by whichever route, is Settle.
LEMMA SettlementSettles ==
    ASSUME TypeOK, TypeOK', RowsAreConsistent,
           NEW id \in Ids, commitments[id].status = "Disputed", NEW o \in Outcomes,
           commitments' = [commitments EXCEPT ![id] = Settled(commitments[id], o)], now' = now,
           RecordOutcome(commitments[id].terms.issuer, o, TRUE)
    PROVE  \E a \in Addresses : Ledger!Settle(id, a, o)
<1> DEFINE a == commitments[id].terms.issuer
           d == Settled(commitments[id], o)
<1>1. commitments[id] \in Commitment /\ a \in Addresses
  BY StoredCommitment DEF Exists
<1>2. d \in Commitment /\ d.terms = commitments[id].terms /\ d.status = o /\ d.attested_at = None
  BY <1>1, SettledType DEF Settled, Commitment
<1>3. LifeOf(commitments[id]) = Ledger!Contested(a)
  BY <1>1, PhasesAt, LifeIsLifeAt
<1>4. LifeAt(d, now) = Ledger!Final(a, o)
  <2> HIDE DEF d
  <2> QED BY <1>2, PhasesAt
<1>5. [i \in Ids |-> LifeOf(commitments[i])]' =
        [[i \in Ids |-> LifeOf(commitments[i])] EXCEPT ![id] = Ledger!Final(a, o)]
  <2>1. commitments' = [commitments EXCEPT ![id] = d]
    OBVIOUS
  <2> HIDE DEF d
  <2> QED BY <1>4, <2>1, OneLifeMoves
<1>6. [b \in Addresses |-> ReputationView(b)]' =
        [[b \in Addresses |-> ReputationView(b)] EXCEPT ![a][o] = @ + 1]
  <2>1. TRUE \in BOOLEAN
    OBVIOUS
  <2> QED BY <1>1, <2>1, RecordedIsScored
<1>7. [i \in Ids |-> LifeOf(commitments[i])][id] = Ledger!Contested(a)
  BY <1>3
<1>8. Ledger!Settle(id, a, o)
  BY <1>5, <1>6, <1>7 DEF Ledger!Settle, Ledger!Become, Ledger!Score
<1> QED BY <1>1, <1>8

\* Raising a dispute is Contest: only a standing outcome is disputed.
LEMMA DisputeContests ==
    ASSUME TypeOK, TypeOK', RowsAreConsistent, ReputationMatchesOutcomes,
           NEW caller, NEW id \in Ids, Dispute(caller, id)
    PROVE  \E a \in Addresses, o \in Outcomes : Ledger!Contest(id, a, o)
<1> DEFINE a == commitments[id].terms.issuer
           o == commitments[id].status
           d == [commitments[id] EXCEPT !.status = "Disputed"]
<1>1. /\ o \in Outcomes /\ now' = now
      /\ commitments[id].attested_at # None
      /\ now <= commitments[id].attested_at + DISPUTE_WINDOW_SECONDS
      /\ commitments' = [commitments EXCEPT ![id] = d]
      /\ RecordOutcome(a, o, FALSE)
  BY DEF Dispute, InDisputeWindow
<1>2. commitments[id] \in Commitment /\ a \in Addresses
  BY <1>1, StoredCommitment DEF Exists, Outcomes
<1>3. d \in Commitment /\ d.terms = commitments[id].terms /\ d.status = "Disputed"
  BY <1>2 DEF Commitment, Statuses
<1>4. LifeOf(commitments[id]) = Ledger!Standing(a, o)
  BY <1>1, <1>2, PhasesAt, LifeIsLifeAt
<1>5. LifeAt(d, now) = Ledger!Contested(a)
  <2> HIDE DEF d
  <2> QED BY <1>3, PhasesAt
<1>6. [i \in Ids |-> LifeOf(commitments[i])]' =
        [[i \in Ids |-> LifeOf(commitments[i])] EXCEPT ![id] = Ledger!Contested(a)]
  <2> HIDE DEF d
  <2> QED BY <1>1, <1>5, OneLifeMoves
<1>7. [b \in Addresses |-> ReputationView(b)]' =
        [[b \in Addresses |-> ReputationView(b)] EXCEPT ![a][o] = @ + (-1)]
  <2>1. FALSE \in BOOLEAN /\ ReputationView(a)[o] > 0
    BY <1>1, StandingIsCounted
  <2> QED BY <1>1, <1>2, <2>1, RecordedIsScored
<1>8. [i \in Ids |-> LifeOf(commitments[i])][id] = Ledger!Standing(a, o)
  BY <1>4
<1>9. Ledger!Contest(id, a, o)
  BY <1>6, <1>7, <1>8 DEF Ledger!Contest, Ledger!Become, Ledger!Score
<1> QED BY <1>1, <1>2, <1>9

\* The milestone that decides is Resolve; any other is invisible.
LEMMA AttestationResolves ==
    ASSUME TypeOK, TypeOK', RowsAreConsistent, NEW caller, NEW id \in Ids, NEW index,
           NEW o \in Outcomes, AttestMilestone(caller, id, index, o)
    PROVE  \/ \E a \in Addresses, r \in Outcomes : Ledger!Resolve(id, a, r)
           \/ UNCHANGED Ledger!ledgerVars
<1> DEFINE a == commitments[id].terms.issuer
           r == Resolution(commitments[id], o)
           d == Attested(commitments[id], o)
<1>1. /\ commitments[id].status = "Pending" /\ now' = now
      /\ commitments' = [commitments EXCEPT ![id] = d]
      /\ IF r = "Pending" THEN UNCHANGED outcomeVars ELSE RecordOutcome(a, r, TRUE)
  BY DEF AttestMilestone
<1>2. commitments[id] \in Commitment /\ a \in Addresses
  BY <1>1, StoredCommitment DEF Exists
<1>3. r \in Outcomes \cup {"Pending"}
  BY DEF Resolution, Outcomes
<1>4. d.terms = commitments[id].terms /\ d.status = r /\ (r # "Pending" => d.attested_at = now)
  BY <1>2 DEF Attested, Commitment
<1>5. d \in Commitment
  <2>1. commitments'[id] = d /\ commitments'[id] \in Commitment \cup {NoCommitment}
    BY <1>1 DEF TypeOK
  <2>2. d.status # "Absent"
    BY <1>3, <1>4 DEF Outcomes
  <2> HIDE DEF d
  <2> QED BY <2>1, <2>2 DEF NoCommitment
<1>6. LifeOf(commitments[id]) = Ledger!Pending(a)
  BY <1>1, <1>2, PhasesAt, LifeIsLifeAt
<1>7. CASE r = "Pending"
  <2>1. LifeAt(d, now) = Ledger!Pending(a)
    <3> HIDE DEF d
    <3> QED BY <1>4, <1>5, <1>7, PhasesAt
  <2>2. [i \in Ids |-> LifeOf(commitments[i])]' =
          [[i \in Ids |-> LifeOf(commitments[i])] EXCEPT ![id] = Ledger!Pending(a)]
    <3> HIDE DEF d
    <3> QED BY <1>1, <2>1, OneLifeMoves
  <2>3. UNCHANGED [i \in Ids |-> LifeOf(commitments[i])]
    BY <2>2, <1>6
  <2>4. UNCHANGED [b \in Addresses |-> ReputationView(b)]
    BY <1>1, <1>7, RowsKept DEF outcomeVars
  <2> QED BY <2>3, <2>4 DEF Ledger!ledgerVars
<1>8. CASE r # "Pending"
  <2>1. r \in Outcomes
    BY <1>3, <1>8
  <2>2. now \in Nat /\ DISPUTE_WINDOW_SECONDS \in Nat /\ now # None
    BY RegistryAssumption, NoneAssumption DEF TypeOK
  <2>3. LifeAt(d, now) = Ledger!Standing(a, r)
    <3> HIDE DEF d, r
    <3> QED BY <1>4, <1>5, <1>8, <2>1, <2>2, PhasesAt
  <2>4. [i \in Ids |-> LifeOf(commitments[i])]' =
          [[i \in Ids |-> LifeOf(commitments[i])] EXCEPT ![id] = Ledger!Standing(a, r)]
    <3> HIDE DEF d
    <3> QED BY <1>1, <2>3, OneLifeMoves
  <2>5. [b \in Addresses |-> ReputationView(b)]' =
          [[b \in Addresses |-> ReputationView(b)] EXCEPT ![a][r] = @ + 1]
    <3>1. TRUE \in BOOLEAN /\ RecordOutcome(a, r, TRUE)
      BY <1>1, <1>8
    <3> HIDE DEF r
    <3> QED BY <1>2, <2>1, <3>1, RecordedIsScored
  <2>6. [i \in Ids |-> LifeOf(commitments[i])][id] = Ledger!Pending(a)
    BY <1>6
  <2>7. Ledger!Resolve(id, a, r)
    BY <2>4, <2>5, <2>6 DEF Ledger!Resolve, Ledger!Become, Ledger!Score
  <2> QED BY <1>2, <2>1, <2>7
<1> QED BY <1>7, <1>8

\* Time makes final the outcomes whose dispute window has just closed.
LEMMA TickExpires ==
    ASSUME TypeOK, RowsAreConsistent, Tick
    PROVE  \E ids \in SUBSET Ids : Ledger!Expire(ids)
<1> DEFINE ids == {i \in Ids : /\ commitments[i].status \in Outcomes
                               /\ commitments[i].attested_at # None
                               /\ now = commitments[i].attested_at + DISPUTE_WINDOW_SECONDS}
           life == [i \in Ids |-> LifeOf(commitments[i])]
<1>1. now' = now + 1 /\ commitments' = commitments /\ now \in Nat /\ DISPUTE_WINDOW_SECONDS \in Nat
  BY RegistryAssumption DEF Tick, TypeOK, commitmentVars
<1>2. ASSUME NEW i \in ids
      PROVE  /\ life[i] = Ledger!Standing(commitments[i].terms.issuer, commitments[i].status)
             /\ LifeOf(commitments[i])' =
                  Ledger!Final(commitments[i].terms.issuer, commitments[i].status)
  <2>1. commitments[i] \in Commitment
    BY StoredCommitment DEF Exists, Outcomes
  <2>2. now <= commitments[i].attested_at + DISPUTE_WINDOW_SECONDS
    BY <1>1
  <2>3. ~ (now + 1 <= commitments[i].attested_at + DISPUTE_WINDOW_SECONDS)
    BY <1>1
  <2>4. LifeAt(commitments[i], now) =
          Ledger!Standing(commitments[i].terms.issuer, commitments[i].status)
    BY <2>1, <2>2, PhasesAt
  <2>5. LifeAt(commitments[i], now + 1) =
          Ledger!Final(commitments[i].terms.issuer, commitments[i].status)
    BY <2>1, <2>3, PhasesAt
  <2> QED BY <1>1, <2>4, <2>5, LifeIsLifeAt
<1>3. ASSUME NEW i \in Ids \ ids
      PROVE  LifeOf(commitments[i])' = life[i]
  <2>1. LifeAt(commitments[i], now + 1) = LifeAt(commitments[i], now)
    <3>1. CASE commitments[i] = NoCommitment
      BY <3>1 DEF LifeAt
    <3>2. CASE commitments[i] \in Commitment
      <4>1. commitments[i].status \in Outcomes \cup {"Pending", "Disputed"}
        BY <3>2 DEF Commitment, Statuses
      <4>2. commitments[i].attested_at # None => commitments[i].attested_at \in Nat
        BY <3>2 DEF Commitment
      <4>3. commitments[i].status \in Outcomes /\ commitments[i].attested_at # None =>
              ((now + 1 <= commitments[i].attested_at + DISPUTE_WINDOW_SECONDS)
                <=> (now <= commitments[i].attested_at + DISPUTE_WINDOW_SECONDS))
        BY <1>1, <4>2
      <4> QED BY <4>1, <4>3 DEF LifeAt
    <3> QED BY <3>1, <3>2 DEF TypeOK
  <2> QED BY <1>1, <2>1, LifeIsLifeAt
<1>4. ASSUME NEW i \in ids
      PROVE  /\ life[i].phase = "standing"
             /\ life[i].issuer = commitments[i].terms.issuer
             /\ life[i].outcome = commitments[i].status
  <2>1. life[i] = Ledger!Standing(commitments[i].terms.issuer, commitments[i].status)
    BY <1>2
  <2> HIDE DEF ids, life
  <2> QED BY <2>1 DEF Ledger!Standing
<1>5. ASSUME NEW i \in ids
      PROVE  LifeOf(commitments[i])' = Ledger!Final(life[i].issuer, life[i].outcome)
  <2>1. LifeOf(commitments[i])' = Ledger!Final(commitments[i].terms.issuer, commitments[i].status)
    BY <1>2
  <2> HIDE DEF ids, life
  <2> QED BY <1>4, <2>1
<1>6. life' = [i \in Ids |-> IF i \in ids THEN Ledger!Final(life[i].issuer, life[i].outcome)
                             ELSE life[i]]
  <2>1. \A i \in Ids : LifeOf(commitments[i])' =
                        IF i \in ids THEN Ledger!Final(life[i].issuer, life[i].outcome) ELSE life[i]
    <3> HIDE DEF ids, life
    <3> QED BY <1>3, <1>5
  <2>2. life' = [i \in Ids |-> LifeOf(commitments[i])']
    OBVIOUS
  <2> HIDE DEF ids, life
  <2> QED BY <2>1, <2>2
<1>7. UNCHANGED [b \in Addresses |-> ReputationView(b)]
  BY RowsKept DEF Tick, outcomeVars
<1>8. Ledger!Expire(ids)
  BY <1>4, <1>6, <1>7 DEF Ledger!Expire
<1> QED BY <1>8

-----------------------------------------------------------------------------
\* A step that moves no life and no reputation is a stutter of the ledger.
LEMMA LedgerStutters ==
    ASSUME UNCHANGED <<commitments, now>>,
           \A b \in Addresses : ReputationView(b)' = ReputationView(b)
    PROVE  UNCHANGED Ledger!ledgerVars
<1>1. UNCHANGED [id \in Ids |-> LifeOf(commitments[id])]
  BY NoLifeMoves
<1>2. UNCHANGED [a \in Addresses |-> ReputationView(a)]
  OBVIOUS
<1> QED BY <1>1, <1>2 DEF Ledger!ledgerVars

\* Every step of the contract is a step of the ledger, or a stutter.
LEMMA LedgerStep ==
    ASSUME TypeOK, TypeOK', IdsAreFresh, RowsAreConsistent, ReputationMatchesOutcomes, [Next]_vars
    PROVE  [Ledger!Next]_(Ledger!ledgerVars)
<1> USE DEF outcomeVars
<1>1. CASE Create
  BY <1>1, CreateRegisters DEF Ledger!Next
<1>2. CASE Attest
  BY <1>2, AttestationResolves DEF Attest, Ledger!Next
<1>3. CASE RaiseDispute
  BY <1>3, DisputeContests DEF RaiseDispute, Ledger!Next
<1>4. CASE ResolveDispute
  <2>1. PICK caller \in Addresses, id \in Ids, o \in Outcomes :
           ResolveByResolver(caller, id, o) \/ ResolveByCommittee(caller, id, o)
    BY <1>4 DEF ResolveDispute
  <2>2. commitments[id].status = "Disputed" /\ now' = now
    BY <2>1 DEF ResolveByResolver, ResolveByCommittee
  <2>3. FinalizeResolution(id, o) \/ UNCHANGED <<commitments, outcomeVars>>
    BY <2>1 DEF ResolveByResolver, ResolveByCommittee
  <2>4. CASE FinalizeResolution(id, o)
    BY <2>2, <2>4, SettlementSettles DEF FinalizeResolution, Ledger!Next
  <2>5. CASE UNCHANGED <<commitments, outcomeVars>>
    BY <2>2, <2>5, RowsKept, LedgerStutters
  <2> QED BY <2>3, <2>4, <2>5
<1>5. CASE PanelVote
  <2>1. PICK a \in Addresses, id \in Ids, o \in Outcomes : CastDisputeVote(a, id, o)
    BY <1>5 DEF PanelVote
  <2>2. commitments[id].status = "Disputed" /\ now' = now
    BY <2>1 DEF CastDisputeVote
  <2>3. PersistOutcome(id, o) \/ UNCHANGED <<commitments, outcomeVars>>
    BY <2>1 DEF CastDisputeVote
  <2>4. CASE PersistOutcome(id, o)
    BY <2>2, <2>4, SettlementSettles DEF PersistOutcome, Ledger!Next
  <2>5. CASE UNCHANGED <<commitments, outcomeVars>>
    BY <2>2, <2>5, RowsKept, LedgerStutters
  <2> QED BY <2>3, <2>4, <2>5
<1>6. CASE Timeout
  <2>1. PICK id \in Ids : CheckDisputeTimeout(id)
    BY <1>6 DEF Timeout
  <2>2. /\ commitments[id].status = "Disputed" /\ now' = now
        /\ PersistOutcome(id, "Breached") /\ "Breached" \in Outcomes
    BY <2>1 DEF CheckDisputeTimeout, Outcomes
  <2> QED BY <2>2, SettlementSettles DEF PersistOutcome, Ledger!Next
<1>7. CASE Administer \/ Migrate
  <2>1. UNCHANGED <<commitments, now>>
    BY <1>7 DEF Administer, SetPaused, Upgrade, Migrate, MigrateReputationBatch, commitmentVars
  <2>2. \/ UNCHANGED repVars
        \/ \E v \in {SCHEMA_VERSION_V1, SCHEMA_VERSION_V2} : SwitchSchema(v)
        \/ \E a \in Addresses : MigrateRows({a})
    BY <1>7 DEF Administer, SetPaused, Upgrade, Migrate, MigrateReputationBatch
  <2>3. \A b \in Addresses : ReputationView(b)' = ReputationView(b)
    <3>1. CASE UNCHANGED repVars
      BY <3>1, RowsKept
    <3>2. ASSUME NEW v \in {SCHEMA_VERSION_V1, SCHEMA_VERSION_V2}, SwitchSchema(v)
          PROVE  \A b \in Addresses : ReputationView(b)' = ReputationView(b)
      <4>1. v \in Nat
        BY DEF SCHEMA_VERSION_V1, SCHEMA_VERSION_V2
      <4> QED BY <3>2, <4>1, SwitchSchemaEffect DEF TypeOK
    <3>3. ASSUME NEW a \in Addresses, MigrateRows({a})
          PROVE  \A b \in Addresses : ReputationView(b)' = ReputationView(b)
      BY <3>3, MigrateRowsEffect DEF TypeOK
    <3> QED BY <2>2, <3>1, <3>2, <3>3
  <2> QED BY <2>1, <2>3, LedgerStutters
<1>8. CASE Setup \/ Stake \/ Unstake \/ UNCHANGED vars
  <2>1. UNCHANGED <<commitments, now, repVars>>
    BY <1>8 DEF Setup, Initialize, SetToken, Stake, StakeAttestor, Unstake, RequestUnstake,
       FinalizeUnstake, vars, commitmentVars
  <2> QED BY <2>1, RowsKept, LedgerStutters
<1>9. CASE Tick
  BY <1>9, TickExpires DEF Ledger!Next
<1> QED BY <1>1, <1>2, <1>3, <1>4, <1>5, <1>6, <1>7, <1>8, <1>9 DEF Next

\* At deployment nothing is registered and nobody has a reputation.
LEMMA LedgerAtStart == Init => Ledger!Init
<1> SUFFICES ASSUME Init PROVE Ledger!Init
  OBVIOUS
<1>1. \A id \in Ids : LifeOf(commitments[id]) = Ledger!Absent
  <2> TAKE id \in Ids
  <2>1. commitments[id] = NoCommitment
    BY DEF Init
  <2>2. LifeAt(commitments[id], now) = Ledger!Absent
    BY <2>1 DEF LifeAt, Ledger!Absent
  <2> QED BY <2>2, LifeIsLifeAt
<1>2. \A a \in Addresses : ReputationView(a) = [o \in Outcomes |-> 0]
  <2> TAKE a \in Addresses
  <2>1. schemaVersion = 1 /\ repV1[a] = None
    BY DEF Init, ReputationInit, SCHEMA_VERSION_V1
  <2>2. ReputationView(a) = ZeroCounts
    BY <2>1 DEF ReputationView, SCHEMA_VERSION_V2
  <2> QED BY <2>2 DEF ZeroCounts
<1> QED BY <1>1, <1>2 DEF Ledger!Init

\* The contract implements the outcome ledger, for any accounts, committee, panels,
\* windows and upgrades: a commitment's life and its issuer's reputation move together,
\* in one step, and nothing else moves either.
THEOREM LedgerIsImplemented == Spec => ImplementsLedger
<1>1. TypeOK /\ TypeOK' /\ ReputationInv /\ [Next]_vars => [Ledger!Next]_(Ledger!ledgerVars)
  BY LedgerStep DEF ReputationInv
<1> QED
  BY <1>1, LedgerAtStart, TypeCorrect, ReputationInvariant, PTL DEF Spec, ImplementsLedger, Ledger!Spec
=============================================================================
