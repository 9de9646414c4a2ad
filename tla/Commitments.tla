---------------------------- MODULE Commitments -----------------------------
(***************************************************************************)
(* Setting the contract up, halting it, registering commitments and        *)
(* attesting their milestones (lib.rs, pausable.rs, commitments.rs,        *)
(* attestation.rs).                                                        *)
(***************************************************************************)
EXTENDS RegistryState

\* initialize: once, with a non-empty committee, deduplicated.
Initialize ==
    /\ arbitrators = {}
    /\ arbitrators' = Committee
    /\ UNCHANGED <<now, paused, tokens, commitmentVars, votes, panelVars,
                   stakeVars, escrowVars, outcomeVars>>

\* set_dispute_token and set_staking_token: once each, by an arbitrator.
SetToken(token) ==
    /\ arbitrators # {}
    /\ token \notin tokens
    /\ tokens' = tokens \cup {token}
    /\ UNCHANGED <<now, paused, arbitrators, commitmentVars, votes, panelVars,
                   stakeVars, escrowVars, outcomeVars>>

\* pause and unpause, by the admin recorded by initialize.
SetPaused(p) ==
    /\ arbitrators # {}
    /\ paused' = p
    /\ UNCHANGED <<now, arbitrators, tokens, commitmentVars, votes, panelVars,
                   stakeVars, escrowVars, outcomeVars>>

-----------------------------------------------------------------------------
(* Registering commitments.  create() and create_batch() make the same     *)
(* checks; a batch is always of single-milestone commitments, and one bad  *)
(* member reverts all of it.                                               *)

ValidTerms(p) ==
    /\ p.due > now
    /\ p.milestones \in 1 .. MAX_MILESTONES
    /\ (p.attestors # {}) <=> (p.threshold > 0)
    /\ p.threshold <= p.slots

NewCommitment(p) ==
    [terms |-> p, status |-> "Pending", created_at |-> now, attested_at |-> None,
     milestones_attested |-> 0, late_milestones |-> 0]

CreateAll(ps) ==
    /\ ~paused
    /\ nextId + Len(ps) <= MaxId + 1
    /\ \A i \in DOMAIN ps : ValidTerms(ps[i])
    /\ nextId' = nextId + Len(ps)
    /\ commitments' = [id \in Ids |-> IF id >= nextId /\ id < nextId + Len(ps)
                                      THEN NewCommitment(ps[id - nextId + 1])
                                      ELSE commitments[id]]
    /\ UNCHANGED <<now, adminVars, votes, panelVars, stakeVars, escrowVars, outcomeVars>>

\* create_commitment and create_milestone_commitment
CreateCommitment(p) == CreateAll(<<p>>)

\* batch_create_commitments, for batches of two
BatchCreateCommitments(p, q) ==
    /\ p.milestones = 1 /\ q.milestones = 1
    /\ CreateAll(<<p, q>>)

-----------------------------------------------------------------------------
(* Attesting the milestones of a commitment (attestation.rs).               *)

\* The milestone an attestation names must be the next pending one; attest()
\* itself always names that one.
NextMilestone(c, index) ==
    /\ index < c.terms.milestones
    /\ index = c.milestones_attested

\* Only the last milestone decides.
Resolution_LastOnly(c, o) ==
    IF o # "Breached" /\ c.milestones_attested + 1 < c.terms.milestones THEN "Pending" ELSE o

\* What a commitment becomes once one more milestone has outcome o: a breach
\* ends it on the spot, otherwise the last milestone does.
Resolution(c, o) ==
    LET attested == c.milestones_attested + 1
        late     == c.late_milestones + (IF o = "Late" THEN 1 ELSE 0)
    IN  IF o = "Breached" THEN "Breached"
        ELSE IF attested < c.terms.milestones THEN "Pending"
        ELSE IF late > 0 THEN "Late"
        ELSE "Fulfilled"

Attested(c, o) ==
    [c EXCEPT !.milestones_attested = @ + 1,
              !.late_milestones = @ + (IF o = "Late" THEN 1 ELSE 0),
              !.status = Resolution(c, o),
              !.attested_at = IF Resolution(c, o) = "Pending" THEN @ ELSE now]

MayAttest(c, caller) ==
    caller \in {c.terms.issuer, c.terms.counterparty} \cup ({c.terms.oracle} \ {None})

\* attest_milestone(caller, id, index, o); attest() is the case where index is
\* the number of milestones attested so far.
AttestMilestone(caller, id, index, o) ==
    LET c == commitments[id]
    IN  /\ ~paused
        /\ c.status = "Pending"
        /\ MayAttest(c, caller)
        /\ NextMilestone(c, index)
        /\ commitments' = [commitments EXCEPT ![id] = Attested(c, o)]
        /\ IF Resolution(c, o) = "Pending"
           THEN UNCHANGED outcomeVars
           ELSE RecordOutcome(c.terms.issuer, Resolution(c, o), TRUE)
        /\ UNCHANGED <<now, adminVars, nextId, votes, panelVars, stakeVars, escrowVars>>

-----------------------------------------------------------------------------
\* upgrade: the schema half of it, by the upgrade admin, whom only the admin of an
\* initialized contract can have installed (Governance).  Not stopped by a pause.
Upgrade(v) ==
    /\ arbitrators # {}
    /\ SwitchSchema(v)
    /\ UNCHANGED <<now, adminVars, commitmentVars, votes, panelVars, stakeVars,
                   escrowVars, trust>>

\* migrate_reputation_batch: anyone may call it.
MigrateReputationBatch(as) ==
    /\ ~paused
    /\ MigrateRows(as)
    /\ UNCHANGED <<now, adminVars, commitmentVars, votes, panelVars, stakeVars,
                   escrowVars, trust>>

\* The ledger closes: time passes between transactions.
Tick ==
    /\ now < MaxTime
    /\ now' = now + 1
    /\ UNCHANGED <<adminVars, commitmentVars, votes, panelVars, stakeVars,
                   escrowVars, outcomeVars>>
=============================================================================
