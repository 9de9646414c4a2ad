----------------------------- MODULE Governance -----------------------------
(***************************************************************************)
(* The timelock together with what it governs: the upgrade authority, the  *)
(* executable and the schema version of the registry                       *)
(* (contracts/registry/src/upgrade.rs).                                    *)
(*                                                                         *)
(* A new executable is taken to keep the upgrade entry points as they are. *)
(***************************************************************************)
EXTENDS Timelock

CONSTANT Deployed   \* the executable the registry was deployed with

ASSUME DeployedAssumption == Deployed \in Wasms

VARIABLES
    upgradeAdmin,    \* UpgradeKey::UpgradeAdmin, Nobody until installed
    executable,      \* the registry's current Wasm
    schemaVersion    \* UpgradeKey::SchemaVersion

registryVars == <<upgradeAdmin, executable, schemaVersion>>
govVars == <<timelockVars, registryVars>>

SCHEMA_VERSION_V1 == 1
MAX_SUPPORTED_SCHEMA_VERSION == 2

GovernanceTypeOK ==
    /\ TimelockTypeOK
    /\ upgradeAdmin \in Accounts \cup {TimelockId, Nobody}
    /\ executable \in Wasms
    /\ schemaVersion \in SCHEMA_VERSION_V1 .. MAX_SUPPORTED_SCHEMA_VERSION

GovernanceInit ==
    /\ TimelockInit
    /\ upgradeAdmin = Nobody
    /\ executable = Deployed
    /\ schemaVersion = SCHEMA_VERSION_V1

-----------------------------------------------------------------------------
\* init_upgrade_admin, by the admin of the registry: once.
InitUpgradeAdmin(a) ==
    /\ upgradeAdmin = Nobody
    /\ upgradeAdmin' = a
    /\ UNCHANGED <<executable, schemaVersion>>

AcceptsSchema(v) == v >= schemaVersion /\ v <= MAX_SUPPORTED_SCHEMA_VERSION

\* upgrade: executable and schema together, by the upgrade admin.
Upgrade(caller, wasm, v) ==
    /\ caller = upgradeAdmin
    /\ AcceptsSchema(v)
    /\ executable' = wasm
    /\ schemaVersion' = v
    /\ UNCHANGED upgradeAdmin

SetUpgradeAdmin(caller, new) ==
    /\ caller = upgradeAdmin
    /\ upgradeAdmin' = new
    /\ UNCHANGED <<executable, schemaVersion>>

\* The call of the registry entry point that a governance action names.
Call(caller, action) ==
    \/ action.kind = "Upgrade" /\ Upgrade(caller, action.wasm, action.schema)
    \/ action.kind = "SetUpgradeAdmin" /\ SetUpgradeAdmin(caller, action.to)

\* dispatch: the timelock calls as itself, and a panic of the registry reverts the
\* execution of the proposal with it.
Dispatch(action) == Call(TimelockId, action)

-----------------------------------------------------------------------------
Delays == 0 .. (MAX_DELAY_SECONDS + 1)

Govern ==
    \/ \E a, g \in Accounts, d \in Delays : Initialize(a, g, d)
    \/ \E a \in Accounts, action \in Actions : Queue(a, action)
    \/ \E a \in Accounts, id \in ProposalIds : Cancel(a, id)
    \/ \E a \in Accounts : TransferAdmin(a) \/ TransferGuardian(a)
    \/ \E d \in Delays : SetDelay(d)
    \/ LedgerCloses

ExecuteProposal(caller, id) ==
    /\ Execute(caller, id)
    /\ Dispatch(proposals[id].action)

GovernanceNext ==
    \/ Govern /\ UNCHANGED registryVars
    \/ \E a \in Accounts, id \in ProposalIds : ExecuteProposal(a, id)
    \/ \E a \in Accounts \cup {TimelockId} : InitUpgradeAdmin(a) /\ UNCHANGED timelockVars
    \/ \E a \in Accounts, action \in Actions : Call(a, action) /\ UNCHANGED timelockVars

GovernanceSpec == GovernanceInit /\ [][GovernanceNext]_govVars

-----------------------------------------------------------------------------
\* What the registry looks like after action.
Enacted(action) ==
    registryVars' = IF action.kind = "Upgrade"
                    THEN <<upgradeAdmin, action.wasm, action.schema>>
                    ELSE <<action.to, executable, schemaVersion>>

\* Once the timelock holds the upgrade authority, the executable, the schema and the
\* authority itself change only by executing a proposal that named exactly this
\* change, that the present admin queued at least the minimum delay ago and not
\* longer ago than the longest delay and the grace period, and that nobody
\* cancelled.
ReviewedBeforeEffect ==
    [][upgradeAdmin = TimelockId /\ registryVars' # registryVars =>
         \E id \in ProposalIds :
           LET p == proposals[id]
           IN  /\ p.state = "Queued" /\ proposals'[id].state = "Executed"
               /\ Enacted(p.action)
               /\ p.proposer = admin
               /\ p.queued_at + MIN_DELAY_SECONDS <= clock
               /\ clock <= p.queued_at + MAX_DELAY_SECONDS + GRACE_PERIOD_SECONDS]_govVars

\* Proposals may be executed in another order than they were queued in, and some
\* may fail at the registry: one recorded as executed did raise the schema to its
\* version, and nothing executed since took it back.
ExecutedUpgradesHold ==
    \A id \in ProposalIds :
        LET p == proposals[id]
        IN  p.state = "Executed" /\ p.action.kind = "Upgrade" => p.action.schema <= schemaVersion

\* The queue of the timelock and the registry agree: every proposal was open to review, and
\* the executed ones are in force.
ReviewsAreKept == GovernanceTypeOK /\ ProposalsAreTimed /\ ExecutedUpgradesHold
=============================================================================
