----------------------------- MODULE TrustDecay -----------------------------
(***************************************************************************)
(* The trust history of one issuer over a long run of attestations,        *)
(* disputes and settlements, with time passing in between: what the folded *)
(* and decayed numbers of trust_score.rs are worth.                        *)
(*                                                                         *)
(* The contract keeps two numbers per outcome; the outcomes they stand for *)
(* are remembered here, to say what the numbers must be.                   *)
(***************************************************************************)
EXTENDS TrustScore, FiniteSets

CONSTANTS DisputeWindow,   \* ledgers in which an outcome may be disputed
          MaxOutcomes,     \* bound: commitments attested
          MaxLedger        \* bound: the last ledger

\* An outcome cannot grow a half-life old while it may still be disputed: in the
\* code the window spans about 12 buckets and the half-life 64.
ASSUME DecayAssumption ==
    /\ {DisputeWindow, MaxOutcomes, MaxLedger} \subseteq Nat
    /\ DisputeWindow \div BUCKET_SIZE_LEDGERS + 1 < HALF_LIFE_BUCKETS

VARIABLES ledger,     \* the ledger sequence
          history,    \* TrustHistory of the issuer, None before the first outcome
          scored      \* the commitments attested so far

decayVars == <<ledger, history, scored>>

Scored == [outcome : Outcomes, at : Nat, state : {"standing", "disputed", "settled"}]

ASSUME NoneIsNoHistory == None \notin TrustHistory /\ None \notin Scored

DecayTypeOK ==
    /\ ledger \in Nat
    /\ history \in TrustHistory \cup {None}
    /\ scored \in [1 .. MaxOutcomes -> Scored \cup {None}]

DecayInit ==
    /\ ledger = 0
    /\ history = None
    /\ scored = [i \in 1 .. MaxOutcomes |-> None]

Unused == {i \in 1 .. MaxOutcomes : scored[i] = None}

Write(o, increment) == history' = UpdatedHistory(history, o, increment, ledger)

\* A commitment resolves by its last attestation.
Attests(o) ==
    /\ Unused # {}
    /\ LET i == CHOOSE i \in Unused : \A j \in Unused : i <= j
       IN  scored' = [scored EXCEPT ![i] = [outcome |-> o, at |-> ledger, state |-> "standing"]]
    /\ Write(o, TRUE)
    /\ UNCHANGED ledger

Disputable(i) ==
    /\ scored[i] # None
    /\ scored[i].state = "standing"
    /\ ledger <= scored[i].at + DisputeWindow

\* A dispute retracts the outcome it disputes.
Disputes(i) ==
    /\ Disputable(i)
    /\ scored' = [scored EXCEPT ![i].state = "disputed"]
    /\ Write(scored[i].outcome, FALSE)
    /\ UNCHANGED ledger

\* A dispute is settled and its outcome scored anew.
Settles(i, o) ==
    /\ scored[i] # None
    /\ scored[i].state = "disputed"
    /\ scored' = [scored EXCEPT ![i] = [outcome |-> o, at |-> ledger, state |-> "settled"]]
    /\ Write(o, TRUE)
    /\ UNCHANGED ledger

DecayLedgerCloses ==
    /\ ledger < MaxLedger
    /\ ledger' = ledger + 1
    /\ UNCHANGED <<history, scored>>

DecayNext ==
    \/ \E o \in Outcomes : Attests(o)
    \/ \E i \in 1 .. MaxOutcomes : Disputes(i)
    \/ \E i \in 1 .. MaxOutcomes, o \in Outcomes : Settles(i, o)
    \/ DecayLedgerCloses

DecaySpec == DecayInit /\ [][DecayNext]_decayVars

-----------------------------------------------------------------------------
Weight(o) == IF history = None THEN 0 ELSE EffectiveValue(history, o, ledger)

\* The commitments that count for outcome o.
Live(o) ==
    {i \in 1 .. MaxOutcomes : /\ scored[i] # None
                              /\ scored[i].outcome = o
                              /\ scored[i].state # "disputed"}

\* However outcomes were folded, retracted and decayed, none counts for more than
\* one whole outcome, and an outcome that may still be disputed has not decayed at
\* all: its retraction, which takes one whole unit from wherever it finds one,
\* finds at least that much.
WeightsAreBounded ==
    \A o \in Outcomes :
        /\ Weight(o) <= SCALE * Cardinality(Live(o))
        /\ Weight(o) >= SCALE * Cardinality({i \in Live(o) : Disputable(i)})

\* Disputing an outcome undoes what attesting it did to its own weight, exactly
\* one unit, and leaves the weights of the other outcomes alone, although the
\* counters do not remember which bucket the outcome came from.
RetractionIsExact ==
    [][\A i \in 1 .. MaxOutcomes :
         Disputes(i) => \A o \in Outcomes :
             Weight(o)' = Weight(o) - (IF o = scored[i].outcome THEN SCALE ELSE 0)]_decayVars

\* A write also folds and decays what is older, but moves the score only the way
\* of the outcome it writes: no attestation of a fulfilled commitment lowers it and
\* no other one raises it, wherever buckets and half-lives end.
ScoreFollowsOutcomes ==
    [][\A o \in Outcomes : Attests(o) =>
         LET before == Score(history, ledger)
             after == Score(history', ledger)
         IN  IF o = "Fulfilled" THEN after >= before ELSE after <= before]_decayVars

\* Decay never gets in the way of a single outcome: its writing moves the score its own way,
\* its retraction takes back exactly what it gave, and no weight leaves its bounds.
OutcomesWeighRight == []WeightsAreBounded /\ RetractionIsExact /\ ScoreFollowsOutcomes
=============================================================================
