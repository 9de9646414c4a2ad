----------------------------- MODULE TrustScore -----------------------------
(***************************************************************************)
(* The integer, ledger-bucketed trust score                                *)
(* (contracts/registry/src/trust_score.rs), and the outcomes a commitment  *)
(* can be scored with.                                                     *)
(*                                                                         *)
(* In all modules of the project a definition X_Bug is X with a plausible  *)
(* bug in it: the runs that check a property of X must fail when X is      *)
(* replaced by it.                                                         *)
(*                                                                         *)
(* A history holds the raw counts of the bucket of its last write (epoch,  *)
(* current) and a fixed-point aggregate of every older bucket (aged).  A   *)
(* write in a later bucket folds the raw counts into the aggregate,        *)
(* decaying both by one halving per HALF_LIFE_BUCKETS elapsed buckets.     *)
(* The code's numbers are parameters, so that TLC can use small ones; in   *)
(* the code BUCKET_SIZE_LEDGERS = 10000, HALF_LIFE_BUCKETS = 2^6,          *)
(* MAX_DECAY_STEPS = 32 and SCALE = 2^32.                                  *)
(***************************************************************************)
EXTENDS Integers

CONSTANTS Addresses,   \* every account and contract that can act
          None         \* an absent storage entry or an unset Option

Outcomes == {"Fulfilled", "Late", "Breached"}

ASSUME NoneAssumption == None \notin Addresses /\ None \notin Int /\ None \notin Outcomes

Counts == [Outcomes -> Nat]
ZeroCounts == [o \in Outcomes |-> 0]

-----------------------------------------------------------------------------

CONSTANTS BUCKET_SIZE_LEDGERS, HALF_LIFE_BUCKETS, MAX_DECAY_STEPS, SCALE

ASSUME TrustScoreAssumption ==
    {BUCKET_SIZE_LEDGERS, HALF_LIFE_BUCKETS, MAX_DECAY_STEPS, SCALE} \subseteq Nat \ {0}

BASE_SCORE == 50
FULFILLED_WEIGHT == 10
LATE_WEIGHT == 10
BREACH_WEIGHT == 50

TrustHistory == [epoch : Nat, current : Counts, aged : Counts]

Bucket(ledger) == ledger \div BUCKET_SIZE_LEDGERS

-----------------------------------------------------------------------------
decay_steps(delta) ==
    LET steps == delta \div HALF_LIFE_BUCKETS
    IN  IF steps > MAX_DECAY_STEPS THEN MAX_DECAY_STEPS ELSE steps

\* SCALE >> steps: every half-life halves the weight.
Halved[steps \in 0 .. MAX_DECAY_STEPS] ==
    IF steps = 0 THEN SCALE ELSE Halved[steps - 1] \div 2

decay_weight(steps) == IF steps >= MAX_DECAY_STEPS THEN 0 ELSE Halved[steps]

\* fold_value and effective_value: the same decay, one stored, one only read.
Decayed(aged, current, steps) ==
    ((aged * decay_weight(steps)) \div SCALE) + current * decay_weight(steps)

\* The history as the write in bucket b finds it, after folding.
FoldedHistory(h, b) ==
    IF h = None THEN [epoch |-> b, current |-> ZeroCounts, aged |-> ZeroCounts]
    ELSE IF b > h.epoch
         THEN [epoch   |-> b,
               current |-> ZeroCounts,
               aged    |-> [o \in Outcomes |->
                              Decayed(h.aged[o], h.current[o], decay_steps(b - h.epoch))]]
         ELSE h

\* adjust_count: a retraction takes from the current bucket if it can, and one
\* whole scaled unit, floored at zero, from the aggregate otherwise.
Adjusted(h, o, increment) ==
    CASE increment -> [h EXCEPT !.current[o] = @ + 1]
      [] ~increment /\ h.current[o] > 0 -> [h EXCEPT !.current[o] = @ - 1]
      [] OTHER -> [h EXCEPT !.aged[o] = IF @ > SCALE THEN @ - SCALE ELSE 0]

\* update_trust_history: the history it leaves.
UpdatedHistory(h, o, increment, ledger) ==
    Adjusted(FoldedHistory(h, Bucket(ledger)), o, increment)

-----------------------------------------------------------------------------
\* The decayed weight of outcome o at a ledger, at scale SCALE.
EffectiveValue(h, o, ledger) ==
    Decayed(h.aged[o], h.current[o], decay_steps(Bucket(ledger) - h.epoch))

Clamp(x, low, high) == IF x <= low THEN low ELSE IF x >= high THEN high ELSE x

\* The score reads the raw counts of the last bucket and forgets the aggregate.
Score_ForgetsAged(h, ledger) ==
    IF h = None THEN BASE_SCORE
    ELSE Clamp(BASE_SCORE + FULFILLED_WEIGHT * h.current["Fulfilled"]
                 - LATE_WEIGHT * h.current["Late"] - BREACH_WEIGHT * h.current["Breached"],
               0, 100)

\* get_trust_score of a live or never-written entry.
Score(h, ledger) ==
    IF h = None THEN BASE_SCORE
    ELSE Clamp((BASE_SCORE * SCALE
                  + FULFILLED_WEIGHT * EffectiveValue(h, "Fulfilled", ledger)
                  - LATE_WEIGHT * EffectiveValue(h, "Late", ledger)
                  - BREACH_WEIGHT * EffectiveValue(h, "Breached", ledger)) \div SCALE,
               0, 100)
=============================================================================
