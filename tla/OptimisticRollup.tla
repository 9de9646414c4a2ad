-------------------------- MODULE OptimisticRollup --------------------------
(***************************************************************************)
(* The micro-commitments of the client: the rollup that batches them, and  *)
(* the Merkle tree that holds a batch.                                     *)
(***************************************************************************)
EXTENDS EventLoop, MerkleTree

-----------------------------------------------------------------------------
(***************************************************************************)
(* The client-side rollup of micro-commitments (frontend                   *)
(* lib/optimisticRollup.ts, lib/merkleAccumulator.ts,                      *)
(* hooks/useOptimisticRollup.ts).  A commitment is its sequence number; a  *)
(* root is kept as the commitments whose leaves it was computed from.      *)
(***************************************************************************)

CONSTANTS
    maxBatchSize,
    batchTtlMs,
    challengeWindowMs,
    MaxCommitments,     \* bound: sequence numbers
    MaxRollupTime       \* bound: the clock

ASSUME RollupAssumption ==
    /\ {maxBatchSize, batchTtlMs, challengeWindowMs} \subseteq Nat \ {0}
    /\ {MaxCommitments, MaxRollupTime} \subseteq Nat

VARIABLES
    rollupTime,
    records,            \* the applied commitments, number 0 first
    outOfOrder,         \* buffered sequence numbers
    accumulator,        \* the commitments whose leaves the open tree has
    openBatchSequence,
    sealedBatches,      \* per sealed batch, its root and the records it lists, as they were
    accepted,           \* batches that markBatchFinalized saw
    sealing,            \* the batch whose submission is awaited, and who awaits it
    forcing             \* per forced-inclusion pass, the records it still has to include, as
                        \* they were when it listed them

rollupVars == <<rollupTime, records, outOfOrder, accumulator, openBatchSequence,
                sealedBatches, accepted, sealing, forcing>>

NotSealing == [batch |-> 0, byTick |-> FALSE]

RollupInit ==
    /\ rollupTime = 0
    /\ records = << >>
    /\ outOfOrder = {}
    /\ accumulator = << >>
    /\ openBatchSequence = 1
    /\ sealedBatches = << >>
    /\ accepted = {}
    /\ sealing = NotSealing
    /\ forcing = << >>

nextSequenceId == Len(records)

\* The buffered commitments that follow on each other from id, in order
Drained(id) ==
    LET run == {last \in outOfOrder : last >= id /\ id..last \subseteq outOfOrder}
    IN  [k \in 1..Cardinality(run) |-> id + k - 1]

\* What enqueue(id) adds: the commitment, and those that waited for it
Applied(id) == <<id>> \o Drained(id + 1)

\* doubleSha256Leaf, of bytes that tell commitments apart
LeafOf(bytes) == <<"leaf", bytes>>
LeafHashes(batch) == [k \in 1..Len(batch) |-> LeafOf(batch[k])]

\* applyMicroCommitment; what proves the record is filled in with that of the others.
NewRecord(id, index) ==
    [commitment |-> id, leafHash |-> LeafOf(id), leafIndex |-> index, proof |-> << >>,
     status |-> "PendingRollup",
     batchSequence |-> openBatchSequence,
     enqueuedAt |-> rollupTime]

\* Mutant: an earlier record keeps the path it was given.
Refreshed_NewOnly(recs, leaves) ==
    [i \in 1..Len(recs) |->
        IF recs[i].leafIndex \in DOMAIN leaves /\ i > Len(records)
        THEN [recs[i] EXCEPT !.leafHash = LeafOf(leaves[recs[i].leafIndex]),
                             !.proof = getProof(LeafHashes(leaves), recs[i].leafIndex)]
        ELSE recs[i]]

\* applyInOrder gives every record the leaf and the path at its index of the open tree,
\* also a record of a batch that was sealed before, whose index was one of another tree.
Refreshed(recs, leaves) ==
    [i \in 1..Len(recs) |->
        IF recs[i].leafIndex \in DOMAIN leaves
        THEN [recs[i] EXCEPT !.leafHash = LeafOf(leaves[recs[i].leafIndex]),
                             !.proof = getProof(LeafHashes(leaves), recs[i].leafIndex)]
        ELSE recs[i]]

OpenPending(recs) ==
    {i \in 1..Len(recs) : recs[i].status = "PendingRollup"
                          /\ recs[i].batchSequence = openBatchSequence}

shouldSeal(recs) ==
    LET pending == OpenPending(recs) IN
    /\ pending # {}
    /\ \/ Cardinality(pending) >= maxBatchSize
       \/ \E i \in pending : rollupTime - recs[i].enqueuedAt >= batchTtlMs

\* maybeSeal up to the await of submitBatchRoot: one submission at a time.
maybeSeal(recs, leaves, byTick) ==
    IF sealing = NotSealing /\ shouldSeal(recs)
    THEN /\ sealedBatches' = Append(sealedBatches,
                [root |-> leaves, commitments |-> {recs[i] : i \in OpenPending(recs)}])
         /\ sealing' = [batch |-> openBatchSequence, byTick |-> byTick]
         /\ openBatchSequence' = openBatchSequence + 1
         /\ accumulator' = << >>
    ELSE /\ accumulator' = leaves
         /\ UNCHANGED <<sealedBatches, sealing, openBatchSequence>>

\* enqueue(): the next number is applied and drains the buffer; the last one that is
\* applied refreshes all that the ones before it did.
EnqueueNext ==
    LET added == Applied(nextSequenceId)
        leaves == accumulator \o added
        fresh == [k \in 1..Len(added) |-> NewRecord(added[k], Len(accumulator) + k)]
        recs == Refreshed(records \o fresh, leaves)
    IN
    /\ nextSequenceId + Len(added) <= MaxCommitments
    /\ records' = recs
    /\ outOfOrder' = {id \in outOfOrder : id >= nextSequenceId + Len(added)}
    /\ maybeSeal(recs, leaves, FALSE)
    /\ UNCHANGED <<rollupTime, accepted, forcing>>

\* A number that is ahead waits; one that is behind is refused.
EnqueueAhead(id) ==
    /\ id > nextSequenceId
    /\ outOfOrder' = outOfOrder \cup {id}
    /\ UNCHANGED <<rollupTime, records, accumulator, openBatchSequence, sealedBatches,
                   accepted, sealing, forcing>>
-----------------------------------------------------------------------------
Expired(recs) ==
    {i \in 1..Len(recs) :
        /\ recs[i].status = "PendingRollup"
        /\ rollupTime >= recs[i].enqueuedAt + challengeWindowMs}

Ascending(S) == [k \in 1..Cardinality(S) |->
                     CHOOSE i \in S : Cardinality({j \in S : j < i}) = k - 1]

\* The listed record takes the place of what its commitment's record has become since.
Marked(recs, listed, status) ==
    [recs EXCEPT ![listed.commitment + 1] = [listed EXCEPT !.status = status]]

\* checkForcedInclusions up to its first await; the list is computed once.
checkForcedInclusions(recs) ==
    LET expired == Ascending(Expired(recs))
        pass == [k \in DOMAIN expired |-> recs[expired[k]]]
    IN
    IF expired = << >>
    THEN UNCHANGED forcing /\ records' = recs
    ELSE /\ forcing' = Append(forcing, pass)
         /\ records' = Marked(recs, pass[1], "ForceIncludePending")

\* tick(): the pass over expired records follows the submission, if there is one.
Tick ==
    /\ maybeSeal(records, accumulator, TRUE)
    /\ IF sealing' = sealing THEN checkForcedInclusions(records)
       ELSE UNCHANGED <<records, forcing>>
    /\ UNCHANGED <<rollupTime, outOfOrder, accepted>>

\* markBatchFinalized: records that are still pending become final.
Finalized(recs, batch) ==
    [i \in 1..Len(recs) |->
        IF recs[i].batchSequence = batch /\ recs[i].status = "PendingRollup"
        THEN [recs[i] EXCEPT !.status = "OnChainFinalized"] ELSE recs[i]]

\* The tick that awaited the submission goes on to the expired records.
SubmitAnswers ==
    LET recs == Finalized(records, sealing.batch) IN
    /\ sealing # NotSealing
    /\ accepted' = accepted \cup {sealing.batch}
    /\ sealing' = NotSealing
    /\ IF sealing.byTick THEN checkForcedInclusions(recs)
       ELSE records' = recs /\ UNCHANGED forcing
    /\ UNCHANGED <<rollupTime, outOfOrder, accumulator, openBatchSequence, sealedBatches>>

\* submitBatchRoot throws: the batch stays sealed and is not submitted again.
SubmitFails ==
    /\ sealing # NotSealing
    /\ sealing' = NotSealing
    /\ UNCHANGED <<rollupTime, records, outOfOrder, accumulator, openBatchSequence,
                   sealedBatches, accepted, forcing>>

WithoutPass(p) == [k \in 1..(Len(forcing) - 1) |-> IF k < p THEN forcing[k] ELSE forcing[k + 1]]

\* The record is included, and the pass goes on with the list it computed.
ForceIncludeAnswers(p) ==
    LET included == Marked(records, Head(forcing[p]), "ForceIncluded")
        rest == Tail(forcing[p])
    IN
    /\ IF rest = << >>
       THEN forcing' = WithoutPass(p) /\ records' = included
       ELSE /\ forcing' = [forcing EXCEPT ![p] = rest]
            /\ records' = Marked(included, Head(rest), "ForceIncludePending")
    /\ UNCHANGED <<rollupTime, outOfOrder, accumulator, openBatchSequence, sealedBatches,
                   accepted, sealing>>

\* forceInclude throws: the pass ends and its record keeps waiting.
ForceIncludeFails(p) ==
    /\ forcing' = WithoutPass(p)
    /\ UNCHANGED <<rollupTime, records, outOfOrder, accumulator, openBatchSequence,
                   sealedBatches, accepted, sealing>>

RollupClock ==
    /\ rollupTime < MaxRollupTime
    /\ rollupTime' = rollupTime + 1
    /\ UNCHANGED <<records, outOfOrder, accumulator, openBatchSequence, sealedBatches,
                   accepted, sealing, forcing>>

RollupNext ==
    \/ EnqueueNext \/ Tick \/ SubmitAnswers \/ SubmitFails \/ RollupClock
    \/ \E id \in 1..(MaxCommitments - 1) : EnqueueAhead(id)
    \/ \E p \in 1..Len(forcing) : ForceIncludeAnswers(p) \/ ForceIncludeFails(p)

RollupSpec == RollupInit /\ [][RollupNext]_rollupVars
-----------------------------------------------------------------------------
leavesOf(b) == IF b < openBatchSequence THEN sealedBatches[b].root ELSE accumulator

\* Whatever order commitments arrive in and whenever batches are sealed, the root of
\* a sealed batch covers exactly the records of that batch, each at the index its proof
\* is about, and the open accumulator the records of the open batch (drainBuffer,
\* sealOpenBatch during a slow submission).
RootCoversItsBatch ==
    /\ \A i \in 1..Len(records) :
           /\ records[i].leafIndex \in DOMAIN leavesOf(records[i].batchSequence)
           /\ leavesOf(records[i].batchSequence)[records[i].leafIndex] = i - 1
    /\ \A b \in 1..openBatchSequence :
           Len(leavesOf(b)) = Cardinality({i \in 1..Len(records) : records[i].batchSequence = b})

\* The record has its commitment's leaf, and a path from it to the root of these leaves.
Proves(record, leaves) ==
    /\ record.leafHash = LeafOf(record.commitment)
    /\ computeMerkleRoot(record.leafHash, record.proof) = Root(LeafHashes(leaves))

\* A batch after the record's has a leaf at its index.
Overtaken(recs, record) ==
    \E j \in 1..Len(recs) : recs[j].batchSequence > record.batchSequence
                            /\ recs[j].leafIndex = record.leafIndex

\* What a sealed batch lists keeps the leaf and the path that lead to its root, and a record
\* of the engine has those of its batch, until a batch after it has a leaf at its index: from
\* then on it has the leaf and the path of a commitment of that batch.  A record that a pass
\* of forced inclusions listed has the path of its batch as it was then, if leaves have
\* been added since (applyInOrder, checkForcedInclusions).
RecordsProveTheirs ==
    /\ \A b \in 1..Len(sealedBatches) :
           \A record \in sealedBatches[b].commitments : Proves(record, sealedBatches[b].root)
    /\ \A i \in 1..Len(records) :
           LET leaves == leavesOf(records[i].batchSequence) IN
           \/ Overtaken(records, records[i])
           \/ Proves(records[i], leaves)
           \/ /\ records[i].status \in {"ForceIncludePending", "ForceIncluded"}
              /\ \E n \in records[i].leafIndex..Len(leaves) :
                     Proves(records[i], SubSeq(leaves, 1, n))

\* A record is final only if the chain accepted the batch whose root covers it
\* (markBatchFinalized, submissions that fail or end out of order).
FinalOnlyIfAccepted ==
    \A i \in 1..Len(records) :
        records[i].status = "OnChainFinalized" => records[i].batchSequence \in accepted

\* The status of a record that is on the chain does not change any more, unless a pass
\* of forced inclusions still lists the record: the list is computed before the awaits,
\* so of two passes that overlap the slower one marks what the other included as
\* awaiting inclusion and includes it again (checkForcedInclusions).
IncludedIsFinal ==
    [][\A i \in 1..Len(records) :
          \/ records[i].status \notin {"OnChainFinalized", "ForceIncluded"}
          \/ \E p \in 1..Len(forcing) : \E k \in 1..Len(forcing[p]) : forcing[p][k].commitment = i - 1
          \/ records'[i].status = records[i].status]_rollupVars

-----------------------------------------------------------------------------
(***************************************************************************)
(* The client's incremental Merkle tree (src/frontend/src/lib/             *)
(* merkleAccumulator.ts): the optimistic rollup appends the leaf of a      *)
(* commitment the moment it is made and hands out its audit path from a    *)
(* cache, while later leaves go on changing the tree.                      *)
(***************************************************************************)

CONSTANTS Contents,      \* commitment bytes
          MaxLeaves      \* bound: leaves of a batch

VARIABLES treeLeaves, proofCache
treeVars == <<treeLeaves, proofCache>>

TreeInit == treeLeaves = <<>> /\ proofCache = <<>>

\* The paths of all leaves, because the new one changes those of the earlier ones.
Recached(leaves) == [i \in 1 .. Len(leaves) |-> getProof(leaves, i)]

\* appendCommitment.
AppendCommitment(bytes) ==
    /\ Len(treeLeaves) < MaxLeaves
    /\ treeLeaves' = Append(treeLeaves, LeafOf(bytes))
    /\ proofCache' = Recached(treeLeaves')

\* clear: the batch was sealed.
ClearTree == treeLeaves # <<>> /\ treeLeaves' = <<>> /\ proofCache' = <<>>

TreeNext == ClearTree \/ \E bytes \in Contents : AppendCommitment(bytes)

TreeSpec == TreeInit /\ [][TreeNext]_treeVars

\* The path the cache holds for a leaf leads to the root of the tree as it is now, however
\* many leaves came after it, and whatever layers were odd when it was cached.
CachedProofsVerify ==
    \A i \in 1 .. Len(treeLeaves) :
        computeMerkleRoot(treeLeaves[i], proofCache[i]) = Root(treeLeaves)

\* What the client claims of a commitment can be proved: the root of its batch covers it,
\* its path leads there, and it is final when the chain has it, and from then on.
ClaimsCanBeProved ==
    /\ [](RootCoversItsBatch /\ RecordsProveTheirs)
    /\ [](CachedProofsVerify /\ FinalOnlyIfAccepted)
    /\ IncludedIsFinal
=============================================================================
