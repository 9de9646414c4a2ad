---------------------------- MODULE RollupRoots ----------------------------
(***************************************************************************)
(* Batch roots and forced inclusion in the registry contract               *)
(* (src/contracts/registry/src/rollup.rs): a submitter posts the Merkle    *)
(* root of the next batch with a quorum of cosigners; a holder whose leaf  *)
(* a processor leaves out forces it in, with an audit path against a root  *)
(* or, when no root came in time, without one.                             *)
(*                                                                         *)
(* Abstractions: a batch is a sequence of leaves and its root the term     *)
(* over them (MerkleTree); a root that is posted is that of a batch (the   *)
(* contract takes any 32 bytes that the quorum signs); what is forced in,  *)
(* and along which path, is the caller's to choose: the contract does not  *)
(* tell the hash of a leaf from that of two nodes.  The pause flag and the *)
(* arbitrator's panel are Registry's; opened_at and expected_batch_seq are *)
(* the caller's.                                                           *)
(***************************************************************************)
EXTENDS MerkleTree, FiniteSets

CONSTANTS
    Cosigners,
    RollupLeaves,           \* hashes of commitments
    RollupBatches,          \* the sequences of leaves processors batch
    Hashes, AuditPaths,     \* what force_include is called with: any hash, any path
    MAX_BATCH_SIGNERS, MAX_PROOF_DEPTH,
    quorums, challengeSecs, \* the values the arbitrator configures
    MaxSeq, MaxRollupSecs   \* bounds: batches posted, ledger seconds

NoRoot == <<"no root">>

\* A processor hashes commitments into leaves, never two nodes; a batch has leaves.  Nothing
\* is assumed of the hashes and paths that are forced.
ASSUME RollupAssumption ==
    /\ \A leaf \in RollupLeaves : leaf[1] # "pair" /\ leaf # NoRoot
    /\ \A batch \in RollupBatches : batch \in Seq(RollupLeaves) /\ batch # <<>>
    /\ \A path \in AuditPaths : Len(path) \in Nat
    /\ MAX_BATCH_SIGNERS \in Nat /\ MAX_PROOF_DEPTH \in Nat
    /\ quorums \subseteq Nat /\ challengeSecs \subseteq Nat
    /\ MaxSeq \in Nat /\ MaxRollupSecs \in Nat

VARIABLES
    batchRoots,     \* RollupKey::BatchRoot(1 ..), contiguous; LastBatchSeq is its length
    quorum,         \* RollupKey::QuorumThreshold
    challengeWindow,
    forced,         \* RollupKey::ForcedInclusion: leaf -> record, as a set of pairs
    rollupSecs,
    signedBy        \* history: who signed the n-th root, and how many had to
rollupVars == <<batchRoots, quorum, challengeWindow, forced, rollupSecs, signedBy>>

RollupRootsInit ==
    /\ batchRoots = <<>> /\ forced = {} /\ rollupSecs = 0 /\ signedBy = <<>>
    /\ quorum = 1 /\ challengeWindow \in challengeSecs

SecondsPass ==
    /\ rollupSecs < MaxRollupSecs
    /\ rollupSecs' = rollupSecs + 1
    /\ UNCHANGED <<batchRoots, quorum, challengeWindow, forced, signedBy>>

\* configure_rollup, by an arbitrator.
ConfigureRollup(q, secs) ==
    /\ q > 0 /\ q <= MAX_BATCH_SIGNERS /\ secs > 0
    /\ quorum' = q /\ challengeWindow' = secs
    /\ UNCHANGED <<batchRoots, forced, rollupSecs, signedBy>>

\* Every signature counts, a second one of the same signer too.
auth_count_Repeats(submitter, signers) == 1 + Len(signers)

\* The submitter and the signers, each once.
auth_count(submitter, signers) ==
    Cardinality({submitter} \cup {signers[i] : i \in 1 .. Len(signers)})

\* submit_batch_root.
SubmitBatchRoot(submitter, batch, batch_seq, signers) ==
    /\ batch_seq = Len(batchRoots) + 1
    /\ auth_count(submitter, signers) >= quorum
    /\ batchRoots' = Append(batchRoots, [root |-> Root(batch), leaves |-> batch])
    /\ signedBy' = Append(signedBy, [who |-> {submitter} \cup {signers[i] : i \in 1 .. Len(signers)},
                                     needed |-> quorum])
    /\ UNCHANGED <<quorum, challengeWindow, forced, rollupSecs>>

Posted(seq) == seq \in 1 .. Len(batchRoots)

\* get_batch_root and compute_merkle_root: the path leads from the leaf to the root.
ProvenAgainst(leaf, path, seq) ==
    Posted(seq) /\ computeMerkleRoot(leaf, path) = batchRoots[seq].root

\* The window is over and the batch the caller waits for was not posted.
Censored(opened_at, expected) ==
    rollupSecs >= opened_at + challengeWindow /\ ~Posted(expected)

\* The record is written.
Included(leaf, against) ==
    /\ forced' = forced \cup {[leaf |-> leaf, against |-> against, at |-> rollupSecs]}
    /\ UNCHANGED <<batchRoots, quorum, challengeWindow, rollupSecs, signedBy>>

AlreadyForced(leaf, against) == \E f \in forced : f.leaf = leaf

\* force_include with against_batch_seq.
ForceIncludeProven(leaf, path, seq) ==
    /\ Len(path) <= MAX_PROOF_DEPTH
    /\ ProvenAgainst(leaf, path, seq)
    /\ ~AlreadyForced(leaf, batchRoots[seq].root)
    /\ Included(leaf, batchRoots[seq].root)

\* force_include without.
ForceIncludeLate(leaf, opened_at, expected) ==
    /\ ~AlreadyForced(leaf, NoRoot)
    /\ Censored(opened_at, expected)
    /\ Included(leaf, NoRoot)

RollupRootsNext ==
    \/ SecondsPass
    \/ \E q \in quorums, secs \in challengeSecs : ConfigureRollup(q, secs)
    \/ \E s \in Cosigners, batch \in RollupBatches, n \in 1 .. MaxSeq, k \in 0 .. MAX_BATCH_SIGNERS :
            \E signers \in [1 .. k -> Cosigners] : SubmitBatchRoot(s, batch, n, signers)
    \/ \E leaf \in Hashes :
        \/ \E path \in AuditPaths, n \in 1 .. MaxSeq : ForceIncludeProven(leaf, path, n)
        \/ \E opened_at \in 0 .. MaxRollupSecs, n \in 1 .. MaxSeq : ForceIncludeLate(leaf, opened_at, n)

RollupRootsSpec == RollupRootsInit /\ [][RollupRootsNext]_rollupVars

-----------------------------------------------------------------------------

\* Every root that stands was signed by as many different addresses as the quorum asked
\* for when it was posted, the submitter among them or repeated in the list or not.
RootsHaveQuorum ==
    \A n \in 1 .. Len(batchRoots) : Cardinality(signedBy[n].who) >= signedBy[n].needed

\* The hash is in the tree over the leaves, below or above.
InTree(hash, leaves) ==
    LET ls == Layers(leaves)
    IN  \E k \in 1 .. Len(ls) : \E i \in 1 .. Len(ls[k]) : ls[k][i] = hash

\* And unless it is the hash of two nodes, which no commitment has, it is a leaf.
Covers(leaves, hash) ==
    /\ InTree(hash, leaves)
    /\ hash[1] # "pair" => \E i \in 1 .. Len(leaves) : leaves[i] = hash

\* A hash is forced in once, with or without a root; one that is forced in against a root is
\* covered by a batch that was posted under it.
ForcedOnceAndCovered ==
    /\ \A f, g \in forced : f.leaf = g.leaf => f = g
    /\ \A f \in forced : f.against # NoRoot =>
            \E n \in 1 .. Len(batchRoots) :
                batchRoots[n].root = f.against /\ Covers(batchRoots[n].leaves, f.leaf)

\* Neither the operator nor a user cheats: roots carry their quorum, and a commitment is
\* forced in once, and against a root only if it was posted.
RollupIsSound == RootsHaveQuorum /\ ForcedOnceAndCovered
=============================================================================
