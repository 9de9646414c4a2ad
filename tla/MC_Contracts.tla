----------------------------- MODULE MC_Contracts -----------------------------
(***************************************************************************)
(* Small instances for TLC of what the model of the registry does not      *)
(* compose: the decay of trust, state channels and batch roots.  They      *)
(* share no state and each has properties of its own, so one of them runs  *)
(* in a behaviour, chosen at the start.                                    *)
(***************************************************************************)
EXTENDS TrustDecay, StateChannel, RollupRoots

VARIABLE contract    \* the contract that runs in this behaviour

CONSTANTS alice, bob, issuer

\* With debts, and balances that a debt makes larger than what is locked.
MC_Stakes == {-1, 1}
MC_Balances == {-1, 1, 3}

MC_RollupLeaves == {<<"leaf", n>> : n \in 1 .. 3}

\* A batch whose last leaf is paired with itself, and one of a single leaf.
MC_RollupBatches == {[n \in 1 .. 3 |-> <<"leaf", n>>], << <<"leaf", 2>> >>}

\* A leaf of both batches, one that is paired with itself, and a node that is no leaf.
MC_Hashes == {<<"leaf", 2>>, <<"leaf", 3>>, hashPair(<<"leaf", 1>>, <<"leaf", 2>>)}

\* The paths getProof gives, of the right batch or of another, and the upper ends of them.
MC_AuditPaths ==
    UNION {LET path == getProof(batch, i) IN {SubSeq(path, k, Len(path)) : k \in 1 .. Len(path) + 1} :
              <<batch, i>> \in {x \in MC_RollupBatches \X (1 .. 3) : x[2] <= Len(x[1])}}

contractsVars == <<contract, decayVars, channelVars, rollupVars>>

ContractsInit ==
    /\ contract \in {"decay", "channels", "roots"}
    /\ DecayInit /\ ChannelInit /\ RollupRootsInit

ContractsNext ==
    /\ UNCHANGED contract
    /\ \/ /\ contract = "decay" /\ DecayNext
          /\ UNCHANGED <<channelVars, rollupVars>>
       \/ /\ contract = "channels" /\ ChannelNext
          /\ UNCHANGED <<decayVars, rollupVars>>
       \/ /\ contract = "roots" /\ RollupRootsNext
          /\ UNCHANGED <<decayVars, channelVars>>

ContractsSpec == ContractsInit /\ [][ContractsNext]_contractsVars
=============================================================================
