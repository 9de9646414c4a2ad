--------------------------- MODULE OutcomeLedger ---------------------------
(***************************************************************************)
(* What the registry promises to whoever reads it: every commitment goes   *)
(* through a fixed life, and its issuer's reputation moves together with   *)
(* it, in one step, and with nothing else.                                 *)
(*                                                                         *)
(* No storage schema, milestone, committee, panel, stake, escrow or clock  *)
(* appears here: they only decide when a transition may happen.            *)
(***************************************************************************)
EXTENDS Integers

CONSTANTS Ids, Issuers, Outcomes

VARIABLES
    life,          \* what has become of each commitment
    reputation     \* issuer -> outcome -> commitments scored with it

ledgerVars == <<life, reputation>>

Absent == [phase |-> "absent"]
Pending(a) == [phase |-> "pending", issuer |-> a]
Standing(a, o) == [phase |-> "standing", issuer |-> a, outcome |-> o]
Contested(a) == [phase |-> "contested", issuer |-> a]
Final(a, o) == [phase |-> "final", issuer |-> a, outcome |-> o]

Become(id, next) == life' = [life EXCEPT ![id] = next]
Score(a, o, n) == reputation' = [reputation EXCEPT ![a][o] = @ + n]

Init ==
    /\ life = [id \in Ids |-> Absent]
    /\ reputation = [a \in Issuers |-> [o \in Outcomes |-> 0]]

\* Any number of commitments is registered at once; nobody's reputation moves.
Register(ids) ==
    /\ \A id \in ids : life[id] = Absent
    /\ \E issuer \in [ids -> Issuers] :
         life' = [id \in Ids |-> IF id \in ids THEN Pending(issuer[id]) ELSE life[id]]
    /\ UNCHANGED reputation

\* A first outcome is reached and scored.
Resolve(id, a, o) ==
    /\ life[id] = Pending(a)
    /\ Become(id, Standing(a, o))
    /\ Score(a, o, 1)

\* A standing outcome is disputed: exactly that outcome is taken back.
Contest(id, a, o) ==
    /\ life[id] = Standing(a, o)
    /\ Become(id, Contested(a))
    /\ Score(a, o, -1)

\* The dispute is settled, once and for all.
Settle(id, a, o) ==
    /\ life[id] = Contested(a)
    /\ Become(id, Final(a, o))
    /\ Score(a, o, 1)

\* Outcomes nobody disputed become final as time passes.
Expire(ids) ==
    /\ \A id \in ids : life[id].phase = "standing"
    /\ life' = [id \in Ids |-> IF id \in ids THEN Final(life[id].issuer, life[id].outcome)
                                             ELSE life[id]]
    /\ UNCHANGED reputation

Next ==
    \/ \E ids \in SUBSET Ids : Register(ids) \/ Expire(ids)
    \/ \E id \in Ids, a \in Issuers, o \in Outcomes :
          Resolve(id, a, o) \/ Contest(id, a, o) \/ Settle(id, a, o)

Spec == Init /\ [][Next]_ledgerVars
=============================================================================
