----------------------------- MODULE MerkleTree -----------------------------
(***************************************************************************)
(* The binary Merkle tree of the relayer, the SDK and the client           *)
(* (relayer/merkleTree.ts, stateProofVerifier.ts, lib/merkleAccumulator.ts *)
(* and contracts/registry/src/rollup.rs hold one copy each).  A hash is    *)
(* the term that was hashed: equal terms have equal hashes, and a hash of  *)
(* one shape never equals a hash of another.                               *)
(***************************************************************************)
EXTENDS Integers, Sequences

hashPair(left, right) == <<"pair", left, right>>

\* The layer above: an odd last node is paired with itself.
Above(layer) ==
    [i \in 1 .. (Len(layer) + 1) \div 2 |->
        hashPair(layer[2 * i - 1], layer[IF 2 * i <= Len(layer) THEN 2 * i ELSE 2 * i - 1])]

\* buildTree: layers[1] are the leaves, the last layer has the root alone.
Layers(leaves) ==
    LET layer[k \in 1 .. Len(leaves)] == IF k = 1 THEN leaves ELSE Above(layer[k - 1])
        height == CHOOSE k \in 1 .. Len(leaves) : Len(layer[k]) = 1
    IN  [k \in 1 .. height |-> layer[k]]

Root(leaves) == LET ls == Layers(leaves) IN ls[Len(ls)][1]

\* getProof: the audit path of the leaf at position i (from 1), from the leaf up.
getProof(leaves, i) ==
    LET ls == Layers(leaves)
        at[k \in 1 .. Len(ls)] == IF k = 1 THEN i ELSE (at[k - 1] + 1) \div 2
    IN  [k \in 1 .. Len(ls) - 1 |->
            LET n == at[k]
            IN  IF n % 2 = 1
                THEN [isRight |-> TRUE, sibling |-> ls[k][IF n < Len(ls[k]) THEN n + 1 ELSE n]]
                ELSE [isRight |-> FALSE, sibling |-> ls[k][n - 1]]]

\* computeMerkleRoot: hash the leaf along the path.
computeMerkleRoot(leaf, path) ==
    LET up[k \in 0 .. Len(path)] ==
            IF k = 0 THEN leaf
            ELSE IF path[k].isRight THEN hashPair(up[k - 1], path[k].sibling)
                 ELSE hashPair(path[k].sibling, up[k - 1])
    IN  up[Len(path)]
=============================================================================
