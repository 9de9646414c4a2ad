------------------------------ MODULE Timelock ------------------------------
(***************************************************************************)
(* The timelock contract (contracts/timelock/src/lib.rs): a queue of       *)
(* governance actions, each pinned when it is queued and executable only   *)
(* in the window that opens a delay later.  What executing one does to its *)
(* target is in Governance.                                                *)
(***************************************************************************)
EXTENDS Integers

CONSTANTS
    Accounts,       \* keys that can sign
    TimelockId,     \* the address of the timelock contract itself
    Wasms,          \* executables
    Actions,        \* what may be proposed
    Nobody,
    MIN_DELAY_SECONDS, MAX_DELAY_SECONDS, GRACE_PERIOD_SECONDS,
    MaxProposals,   \* bound: proposals ever queued
    MaxEpoch,       \* bound: admin rotations
    MaxTime         \* bound: the last ledger timestamp

ProposalAction ==
    [kind : {"Upgrade"}, wasm : Wasms, schema : Nat]
    \cup [kind : {"SetUpgradeAdmin"}, to : Accounts \cup {TimelockId}]

ASSUME TimelockAssumption ==
    /\ Nobody \notin Accounts \cup {TimelockId}
    /\ TimelockId \notin Accounts
    /\ Actions \subseteq ProposalAction
    /\ {MIN_DELAY_SECONDS, MAX_DELAY_SECONDS, GRACE_PERIOD_SECONDS, MaxProposals,
        MaxEpoch, MaxTime} \subseteq Nat

VARIABLES
    clock,          \* ledger timestamp
    admin,          \* TimelockKey::Admin, Nobody until initialize
    guardian,       \* TimelockKey::Guardian
    delay,          \* TimelockKey::Delay
    epoch,          \* TimelockKey::AdminEpoch
    nextProposal,   \* TimelockKey::NextProposalId
    proposals       \* TimelockKey::Proposal(id)

rolesVars == <<admin, guardian, epoch>>
queueVars == <<nextProposal, proposals>>
timelockVars == <<clock, rolesVars, delay, queueVars>>

ProposalIds == 1 .. MaxProposals
Proposal == [action : Actions, proposer : Accounts, admin_epoch : Nat, queued_at : Nat,
             eta : Nat, expires_at : Nat, state : {"Queued", "Executed", "Cancelled"}]
NoProposal == [state |-> "Absent"]

\* validate_delay
ValidDelay(d) == MIN_DELAY_SECONDS <= d /\ d <= MAX_DELAY_SECONDS

TimelockTypeOK ==
    /\ clock \in Nat
    /\ admin \in Accounts \cup {Nobody}
    /\ guardian \in Accounts \cup {Nobody}
    /\ delay \in Nat
    /\ admin # Nobody => guardian # Nobody /\ ValidDelay(delay)
    /\ epoch \in Nat
    /\ nextProposal \in 1 .. (MaxProposals + 1)
    /\ proposals \in [ProposalIds -> Proposal \cup {NoProposal}]

TimelockInit ==
    /\ clock = 0
    /\ admin = Nobody /\ guardian = Nobody
    /\ delay = 0
    /\ epoch = 0
    /\ nextProposal = 1
    /\ proposals = [id \in ProposalIds |-> NoProposal]

-----------------------------------------------------------------------------
\* initialize: once, signed by both.
Initialize(a, g, d) ==
    /\ admin = Nobody
    /\ ValidDelay(d)
    /\ admin' = a /\ guardian' = g /\ delay' = d
    /\ UNCHANGED <<clock, epoch, queueVars>>

\* queue: the action, the epoch and the window are pinned here.
Queue(caller, action) ==
    /\ nextProposal <= MaxProposals
    /\ caller = admin
    /\ action.kind = "Upgrade" => action.schema # 0
    /\ nextProposal' = nextProposal + 1
    /\ proposals' = [proposals EXCEPT ![nextProposal] =
                       [action |-> action, proposer |-> caller, admin_epoch |-> epoch,
                        queued_at |-> clock, eta |-> clock + delay,
                        expires_at |-> clock + delay + GRACE_PERIOD_SECONDS,
                        state |-> "Queued"]]
    /\ UNCHANGED <<clock, rolesVars, delay>>

Cancel(caller, id) ==
    /\ caller \in {admin, guardian}
    /\ proposals[id].state = "Queued"
    /\ proposals' = [proposals EXCEPT ![id].state = "Cancelled"]
    /\ UNCHANGED <<clock, rolesVars, delay, nextProposal>>

\* execute, up to the call of the target.
Execute(caller, id) ==
    LET p == proposals[id]
    IN  /\ caller = admin
        /\ p.state = "Queued"
        /\ p.admin_epoch = epoch
        /\ p.eta <= clock /\ clock <= p.expires_at
        /\ proposals' = [proposals EXCEPT ![id].state = "Executed"]
        /\ UNCHANGED <<clock, rolesVars, delay, nextProposal>>

\* In-flight proposals survive the rotation.
TransferAdmin_SameEpoch(new) ==
    /\ admin # Nobody
    /\ admin' = new
    /\ UNCHANGED <<clock, guardian, epoch, delay, queueVars>>

\* transfer_admin and transfer_guardian: admin and guardian both sign.
TransferAdmin(new) ==
    /\ admin # Nobody
    /\ epoch < MaxEpoch
    /\ admin' = new
    /\ epoch' = epoch + 1
    /\ UNCHANGED <<clock, guardian, delay, queueVars>>

TransferGuardian(new) ==
    /\ admin # Nobody
    /\ guardian' = new
    /\ UNCHANGED <<clock, admin, epoch, delay, queueVars>>

\* The new delay applies to the proposals in flight as well.
SetDelay_Retroactive(d) ==
    /\ admin # Nobody
    /\ ValidDelay(d)
    /\ delay' = d
    /\ proposals' = [id \in ProposalIds |->
                       IF proposals[id].state = "Queued"
                       THEN [proposals[id] EXCEPT !.eta = @ + d - delay]
                       ELSE proposals[id]]
    /\ UNCHANGED <<clock, rolesVars, nextProposal>>

\* set_delay, by the admin: for proposals queued from now on.
SetDelay(d) ==
    /\ admin # Nobody
    /\ ValidDelay(d)
    /\ delay' = d
    /\ UNCHANGED <<clock, rolesVars, queueVars>>

LedgerCloses ==
    /\ clock < MaxTime
    /\ clock' = clock + 1
    /\ UNCHANGED <<rolesVars, delay, queueVars>>

-----------------------------------------------------------------------------
\* Every proposal has its full review window and an end, whatever the delay was set
\* to since; and one that could still be executed was queued by the admin in office.
ProposalsAreTimed ==
    \A id \in ProposalIds :
        LET p == proposals[id]
        IN  IF id >= nextProposal THEN p = NoProposal
            ELSE /\ p \in Proposal
                 /\ p.queued_at <= clock
                 /\ p.queued_at + MIN_DELAY_SECONDS <= p.eta
                 /\ p.eta <= p.queued_at + MAX_DELAY_SECONDS
                 /\ p.expires_at = p.eta + GRACE_PERIOD_SECONDS
                 /\ p.admin_epoch <= epoch
                 /\ p.admin_epoch = epoch => p.proposer = admin

\* A proposal is never overwritten, amended or revived: only its state changes, and
\* only from queued to executed or cancelled.
ProposalsAreOneWay ==
    [][\A id \in ProposalIds :
         LET p == proposals[id]
         IN  \/ proposals'[id] = p
             \/ p = NoProposal
             \/ /\ p.state = "Queued"
                /\ \E s \in {"Executed", "Cancelled"} :
                     proposals'[id] = [p EXCEPT !.state = s]]_timelockVars
=============================================================================
