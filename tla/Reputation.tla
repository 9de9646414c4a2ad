----------------------------- MODULE Reputation -----------------------------
(***************************************************************************)
(* Per-issuer outcome counters and the V1 -> V2 storage migration          *)
(* (contracts/registry/src/reputation.rs, schema switch in upgrade.rs).    *)
(*                                                                         *)
(* A row of either schema may be absent (None).  Under schema 1 only V1    *)
(* rows are written; under schema 2 a row is moved to V2 by the next write *)
(* or by a batch, and the V1 entry is removed.  Fields that only describe  *)
(* a row (updated_at, version, the always-zero attested_count) are left    *)
(* out, and so are the TTLs.                                               *)
(***************************************************************************)
EXTENDS TrustScore

VARIABLES schemaVersion,   \* UpgradeKey::SchemaVersion, 1 when absent
          repV1,           \* ReputationKey::Reputation(address)
          repV2            \* ReputationKey::ReputationV2(address)

repVars == <<schemaVersion, repV1, repV2>>

SCHEMA_VERSION_V1 == 1
SCHEMA_VERSION_V2 == 2

RowV2 == [counts : Counts, direct : Nat]

ASSUME NoneIsNoRow == None \notin Counts /\ None \notin RowV2

ReputationTypeOK ==
    /\ schemaVersion \in {SCHEMA_VERSION_V1, SCHEMA_VERSION_V2}
    /\ repV1 \in [Addresses -> Counts \cup {None}]
    /\ repV2 \in [Addresses -> RowV2 \cup {None}]

ReputationInit ==
    /\ schemaVersion = SCHEMA_VERSION_V1
    /\ repV1 = [a \in Addresses |-> None]
    /\ repV2 = [a \in Addresses |-> None]

-----------------------------------------------------------------------------
(* Adding saturates at the u32 maximum in the code; the number of           *)
(* commitments is far below it here, so only the floor at zero is modelled. *)

Bump(n, increment) == IF increment THEN n + 1 ELSE IF n > 0 THEN n - 1 ELSE 0

ApplyOutcome(counts, o, increment) ==
    [counts EXCEPT ![o] = Bump(counts[o], increment)]

ProjectV1toV2(v1) ==
    [counts |-> v1, direct |-> v1["Fulfilled"] + v1["Late"] + v1["Breached"]]

ReputationV2View_NoProjection(a) ==
    IF repV2[a] # None THEN repV2[a] ELSE [counts |-> ZeroCounts, direct |-> 0]

\* get_reputation_v2: a V2 row as stored, an un-migrated V1 row projected up,
\* an absent row as zero.
ReputationV2View(a) ==
    IF repV2[a] # None THEN repV2[a]
    ELSE IF repV1[a] # None THEN ProjectV1toV2(repV1[a])
    ELSE [counts |-> ZeroCounts, direct |-> 0]

\* get_reputation: what every integrator reads, whatever the schema.
ReputationView(a) ==
    IF schemaVersion < SCHEMA_VERSION_V2
    THEN IF repV1[a] # None THEN repV1[a] ELSE ZeroCounts
    ELSE ReputationV2View(a).counts

MigrationPending(a) ==
    /\ schemaVersion >= SCHEMA_VERSION_V2
    /\ repV2[a] = None
    /\ repV1[a] # None

-----------------------------------------------------------------------------
\* update_reputation, called by every handler that adds or retracts an outcome.
\* Under schema 2 the row is migrated first, then written.
UpdateReputation(a, o, increment) ==
    IF schemaVersion < SCHEMA_VERSION_V2
    THEN /\ repV1' = [repV1 EXCEPT ![a] =
                        ApplyOutcome(ReputationView(a), o, increment)]
         /\ UNCHANGED <<schemaVersion, repV2>>
    ELSE /\ repV2' = [repV2 EXCEPT ![a] =
                        [counts |-> ApplyOutcome(ReputationV2View(a).counts, o, increment),
                         direct |-> Bump(ReputationV2View(a).direct, increment)]]
         /\ repV1' = [repV1 EXCEPT ![a] = IF MigrationPending(a) THEN None ELSE @]
         /\ UNCHANGED schemaVersion

\* migrate_reputation_batch: rows that are pending move, the others are skipped.
MigrateRows(as) ==
    /\ schemaVersion >= SCHEMA_VERSION_V2
    /\ repV2' = [a \in Addresses |->
                    IF a \in as /\ MigrationPending(a) THEN ReputationV2View(a) ELSE repV2[a]]
    /\ repV1' = [a \in Addresses |->
                    IF a \in as /\ MigrationPending(a) THEN None ELSE repV1[a]]
    /\ UNCHANGED schemaVersion

\* The schema half of upgrade(): no downgrade, and never past what the running
\* executable can read.  Rows are not touched.
SwitchSchema(v) ==
    /\ v >= schemaVersion
    /\ v <= SCHEMA_VERSION_V2
    /\ schemaVersion' = v
    /\ UNCHANGED <<repV1, repV2>>
=============================================================================
