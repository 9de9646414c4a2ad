----------------------------- MODULE StateProofs -----------------------------
(***************************************************************************)
(* Batched state proofs: the backend's generator makes them                *)
(* (relayer/stateProofGenerator.ts), the backend (relayer/verifier.ts) and *)
(* the SDK (sdk/js/src/verifier/stateProofVerifier.ts) verify them against *)
(* a ledger header hash they trust.  An entry claims that an address had a *)
(* score; its state path ends in the state root, which the header carries, *)
(* and its aggregation path in the aggregation root, which only the batch  *)
(* carries.  Between the two a batch may arrive as it was made, with a     *)
(* score changed, or put together from entries of several batches.         *)
(*                                                                         *)
(* Abstractions: addresses are numbers in the order of their 32 bytes; a   *)
(* score stands for the whole of scoreData; contract, network and version  *)
(* are the same everywhere; the header fields besides the state root are   *)
(* the generator's constants.                                              *)
(***************************************************************************)
EXTENDS MerkleTree, SequencesExt

CONSTANTS
    ProvenAddresses,    \* numbers: addressToBytes32 keeps their order
    Scores, DefaultScore,
    TargetLists,        \* the target lists generateBatchProof is called with
    MaxBatches,         \* bound: batches made
    MaxChanges          \* bound: scores that change, on the ledger or by setScoreData

NoBatch == [entries |-> <<>>]
Unknown == 0            \* no score is 0 here: the instances use 50 and 60

\* generateBatchProof refuses an empty list of targets.
ASSUME ProofsAssumption ==
    /\ ProvenAddresses \subseteq Int
    /\ Unknown \notin Scores /\ DefaultScore \in Scores
    /\ \A targets \in TargetLists :
        /\ targets \in Seq([address : ProvenAddresses, score : Scores \cup {Unknown}])
        /\ targets # <<>>
    /\ MaxBatches \in Nat /\ MaxChanges \in Nat

VARIABLES
    onLedger,      \* the contract's TrustHistory rows
    localState,    \* the generator's cache, address -> score or Unknown
    made,          \* the batches made, in order
    arrived,       \* the batch a verifier looks at
    trusted,       \* trustedLedgerHeaderHash
    changes        \* scores that have changed
proofVars == <<onLedger, localState, made, arrived, trusted, changes>>

ProofsInit ==
    /\ onLedger = [a \in ProvenAddresses |-> DefaultScore]
    /\ localState = [a \in ProvenAddresses |-> Unknown]
    /\ made = <<>> /\ arrived = NoBatch /\ trusted = NoBatch /\ changes = 0

-----------------------------------------------------------------------------
(* encoder.ts                                                              *)

computeLeafHash(address, score) == <<"leaf", address, score>>

computeAggregationLeaf(sequenceId, address, leafHash, score) ==
    <<"aggregation", sequenceId, address, leafHash, score>>

computeHeaderHash(ledgerSeq, bucketListHash) == <<"header", ledgerSeq, bucketListHash>>

-----------------------------------------------------------------------------
(* The generator.                                                          *)

\* setScoreData.
SetScoreData(a, score) ==
    /\ changes < MaxChanges /\ changes' = changes + 1
    /\ localState' = [localState EXCEPT ![a] = score]
    /\ UNCHANGED <<onLedger, made, arrived, trusted>>

\* A score moves on the ledger.
ScoreMoves(a, score) ==
    /\ changes < MaxChanges /\ changes' = changes + 1
    /\ onLedger[a] # score
    /\ onLedger' = [onLedger EXCEPT ![a] = score]
    /\ UNCHANGED <<localState, made, arrived, trusted>>

\* fetchScoreData: the cache, then the ledger when the node answers, then the default,
\* which is not cached.
fetchScoreData(a, answered) ==
    IF localState[a] # Unknown THEN localState[a]
    ELSE IF a \in answered THEN onLedger[a] ELSE DefaultScore

\* collectSortedEntries: one record per address, the last one given, in byte order.
collectSortedEntries(records) ==
    LET Given == {records[i].address : i \in 1 .. Len(records)}
        Nth(n) == CHOOSE a \in Given : Cardinality({b \in Given : b <= a}) = n
        LastOf(a) == CHOOSE i \in 1 .. Len(records) :
                        /\ records[i].address = a
                        /\ \A j \in i + 1 .. Len(records) : records[j].address # a
    IN  [n \in 1 .. Cardinality(Given) |-> records[LastOf(Nth(n))]]

\* Leaves, both trees and the audit paths of a list of entries.
Leaf(e) == computeLeafHash(e.address, e.score)

AggregationLeaves(entries) ==
    [i \in 1 .. Len(entries) |->
        computeAggregationLeaf(i - 1, entries[i].address, Leaf(entries[i]), entries[i].score)]

\* The batch over entries that carry their state paths already.
Aggregated(entries, ledgerSeq, stateRootHash) ==
    LET leaves == AggregationLeaves(entries)
    IN  [entries |-> [i \in 1 .. Len(entries) |->
                        [address |-> entries[i].address, score |-> entries[i].score,
                         sequenceId |-> i - 1, leafHash |-> Leaf(entries[i]),
                         merkleProof |-> entries[i].merkleProof,
                         aggregationProof |-> getProof(leaves, i)]],
         aggregationRoot |-> Root(leaves), ledgerSeq |-> ledgerSeq,
         stateRootHash |-> stateRootHash, bucketListHash |-> stateRootHash,
         ledgerHeaderHash |-> computeHeaderHash(ledgerSeq, stateRootHash)]

Batch(records, ledgerSeq) ==
    LET entries == collectSortedEntries(records)
        leaves == [i \in 1 .. Len(entries) |-> Leaf(entries[i])]
    IN  Aggregated([i \in 1 .. Len(entries) |->
                       [address |-> entries[i].address, score |-> entries[i].score,
                        merkleProof |-> getProof(leaves, i)]],
                   ledgerSeq, Root(leaves))

\* generateBatchProof: a target is an address, whose score is fetched, or a record.
GenerateBatchProof(targets, answered) ==
    LET Fetches(a) == \E i \in 1 .. Len(targets) : targets[i] = [address |-> a, score |-> Unknown]
        records == [i \in 1 .. Len(targets) |->
                       IF targets[i].score # Unknown THEN targets[i]
                       ELSE [targets[i] EXCEPT !.score = fetchScoreData(targets[i].address, answered)]]
    IN  /\ Len(made) < MaxBatches
        /\ localState' = [a \in ProvenAddresses |->
                IF Fetches(a) /\ localState[a] = Unknown /\ a \in answered THEN onLedger[a]
                ELSE localState[a]]
        /\ made' = Append(made, Batch(records, Len(made) + 1))
        /\ UNCHANGED <<onLedger, arrived, trusted, changes>>

-----------------------------------------------------------------------------
(* The way to the verifier.                                                *)

\* One batch is looked at in a behaviour.
Arrives(batch) ==
    /\ arrived = NoBatch
    /\ \E n \in 1 .. Len(made) : trusted' = made[n].ledgerHeaderHash
    /\ arrived' = batch
    /\ UNCHANGED <<onLedger, localState, made, changes>>

ArrivesWhole == \E n \in 1 .. Len(made) : Arrives(made[n])

\* One score is not the one that was proved.
ArrivesChanged ==
    \E n \in 1 .. Len(made), score \in Scores :
        \E i \in 1 .. Len(made[n].entries) :
            Arrives([made[n] EXCEPT !.entries[i].score = score])

\* The lists that are es but for one entry, left out, put in or put in the place of another.
OneEntryApart(es, Entries) ==
    {RemoveAt(es, i) : i \in {j \in 1 .. Len(es) : Len(es) > 1}}
        \cup {InsertAt(es, i, e) : i \in 1 .. Len(es) + 1, e \in Entries}
        \cup {ReplaceAt(es, i, e) : i \in 1 .. Len(es), e \in Entries}

\* One entry is not the batch's own, or missing, and the aggregation tree is made anew:
\* the header does not carry it.
ArrivesPutTogether ==
    LET Entries == UNION {Range(made[n].entries) : n \in 1 .. Len(made)}
    IN  \E n \in 1 .. Len(made) :
            \E entries \in OneEntryApart(made[n].entries, Entries) :
                Arrives(Aggregated(entries, made[n].ledgerSeq, made[n].stateRootHash))

ProofsNext ==
    \/ /\ arrived = NoBatch
       /\ \/ \E a \in ProvenAddresses, score \in Scores : SetScoreData(a, score) \/ ScoreMoves(a, score)
          \/ \E targets \in TargetLists, answered \in SUBSET ProvenAddresses :
                GenerateBatchProof(targets, answered)
    \/ ArrivesWhole \/ ArrivesChanged \/ ArrivesPutTogether

ProofsSpec == ProofsInit /\ [][ProofsNext]_proofVars

-----------------------------------------------------------------------------
(* The verifiers.                                                          *)

\* The aggregation path alone, which binds address, score and leaf as well.
EntryChecks_AggregationOnly(batch, i) ==
    LET e == batch.entries[i]
    IN  /\ e.sequenceId = i - 1
        /\ e.leafHash = computeLeafHash(e.address, e.score)
        /\ computeMerkleRoot(computeAggregationLeaf(e.sequenceId, e.address, e.leafHash, e.score),
                             e.aggregationProof) = batch.aggregationRoot

\* What both check of the entry at position i.
EntryChecks(batch, i) ==
    LET e == batch.entries[i]
        expectedLeaf == computeLeafHash(e.address, e.score)
    IN  /\ e.sequenceId = i - 1
        /\ e.leafHash = expectedLeaf
        /\ computeMerkleRoot(expectedLeaf, e.merkleProof) = batch.stateRootHash
        /\ computeMerkleRoot(computeAggregationLeaf(e.sequenceId, e.address, expectedLeaf, e.score),
                             e.aggregationProof) = batch.aggregationRoot

HeaderChecks(batch) ==
    /\ batch.bucketListHash = batch.stateRootHash
    /\ batch.ledgerHeaderHash = computeHeaderHash(batch.ledgerSeq, batch.bucketListHash)
    /\ batch.ledgerHeaderHash = trusted

\* sdk/js/src/verifier/stateProofVerifier.ts.
SdkAccepts(batch) ==
    /\ Len(batch.entries) > 0
    /\ \A i \in 1 .. Len(batch.entries) : EntryChecks(batch, i)
    /\ HeaderChecks(batch)

StrictlySorted(entries) == \A i \in 2 .. Len(entries) : entries[i].address > entries[i - 1].address

\* The state root of the batch is the root over its leaves.
Reconstructed(batch) ==
    Root([i \in 1 .. Len(batch.entries) |-> batch.entries[i].leafHash]) = batch.stateRootHash

\* backend/src/relayer/verifier.ts.
BackendAccepts(batch) ==
    /\ SdkAccepts(batch)
    /\ StrictlySorted(batch.entries)
    /\ Reconstructed(batch)

-----------------------------------------------------------------------------

Claims(batch) ==
    {<<e.address, e.score>> : e \in Range(batch.entries)}

\* The batch of the header that is trusted.
Anchor == CHOOSE n \in 1 .. Len(made) : made[n].ledgerHeaderHash = trusted

\* Every batch the generator makes passes both verifiers under its own header: what
\* trees, paths, sequence numbers and order the one builds, the others expect.
MadeBatchesVerify ==
    arrived \in Range(made) /\ arrived.ledgerHeaderHash = trusted
        => SdkAccepts(arrived) /\ BackendAccepts(arrived)

\* Nothing the SDK accepts was not proved: every entry of an accepted batch has the
\* score it had in the state of the header that is trusted, whatever batch it came from.
AcceptedWasProved ==
    arrived # NoBatch /\ SdkAccepts(arrived) => Claims(arrived) \subseteq Claims(made[Anchor])

\* What the backend accepts is the whole state of the header, each address once: no
\* entry is missing, and the node that fills up an odd layer does not pass for one more.
BackendAcceptsWholeBatches ==
    arrived # NoBatch /\ BackendAccepts(arrived)
        => /\ Claims(arrived) = Claims(made[Anchor])
           /\ Len(arrived.entries) = Len(made[Anchor].entries)

\* A batch that is accepted is worth what its header is worth: generator and verifiers
\* expect the same of it, the SDK takes nothing that was not proved, and the backend
\* nothing less than everything.
BatchesAreSound == MadeBatchesVerify /\ AcceptedWasProved /\ BackendAcceptsWholeBatches
=============================================================================
