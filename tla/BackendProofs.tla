---------------------------- MODULE BackendProofs ----------------------------
(***************************************************************************)
(* Proofs about the backend: the relayer that proposes batches to another  *)
(* chain, the proofs of state that it batches, the queue of scores, and    *)
(* the workers and services beside them.                                   *)
(***************************************************************************)
EXTENDS Relayer, StateProofs, BackendWorkers, ApiServices, DataTheorems, SequenceTheorems,
        FiniteSetTheorems, TLAPS

-----------------------------------------------------------------------------
(* The cross-chain relayer.                                                *)

Submission == [awaits : {"nothing", "nonce", "broadcast", "receipt"},
               nonce : 0 .. MaxNonce, entries : 0 .. MaxLedgerState]
Defence == [awaits : {"nothing", "source", "recovery", "override"}, nonce : 0 .. MaxNonce]

RelayerTypeOK ==
    /\ currentNonce \in Int
    /\ batchStore \in [Nonce -> 0 .. MaxLedgerState]
    /\ submission \in [OracleSubmissions -> Submission]
    /\ proposed \in [Nonce -> SUBSET (0 .. MaxLedgerState)]
    /\ resolved \subseteq Nonce
    /\ defence \in Defence
    /\ restarts \in Nat

\* A submission that holds a nonce.
Holds(x) == x.awaits \in {"broadcast", "receipt"}

\* As long as no two submissions clash there is one at most; the nonce it holds is the
\* current one, which the oracle has never seen, and its batch is stored; and the oracle
\* has seen no nonce above the current one.
Undisturbed ==
    /\ \A s, t \in OracleSubmissions : Active(s) /\ Active(t) => s = t
    /\ \A s \in OracleSubmissions : Holds(submission[s]) =>
            /\ submission[s].nonce \in Nonce
            /\ submission[s].nonce = currentNonce
            /\ batchStore[currentNonce] = submission[s].entries
            /\ proposed[currentNonce] = {}
    /\ currentNonce # 0 => \A m \in Nonce : m > currentNonce => proposed[m] = {}
    /\ \A n \in Nonce \ resolved : proposed[n] \subseteq {batchStore[n]}

RelayerInv ==
    /\ RelayerTypeOK
    /\ defence # NoDefence => defence.nonce \in Nonce /\ proposed[defence.nonce] # {}
    /\ \A s \in OracleSubmissions : Holds(submission[s]) => submission[s].nonce \in Nonce
    /\ clashes = {} => Undisturbed

\* The last nonce the oracle has seen is the greatest.
LEMMA LastProposedIsLast ==
    ASSUME RelayerTypeOK
    PROVE  /\ LastProposed \in 0 .. MaxNonce
           /\ \A m \in Nonce : m > LastProposed => proposed[m] = {}
<1> DEFINE Unseen(n) == \A m \in Nonce : m > n => proposed[m] = {}
           T == {n \in 0 .. MaxNonce : Unseen(n)}
<1> USE RelayerAssumption
<1>1. PICK n \in T : \A m \in T : n <= m
  <2>1. MaxNonce \in T
    BY DEF Nonce
  <2>2. T \in SUBSET Nat
    OBVIOUS
  <2> HIDE DEF T
  <2> QED BY <2>1, <2>2, LeastExists
<1>2. n = 0 \/ proposed[n] # {}
  <2> SUFFICES ASSUME n # 0, proposed[n] = {} PROVE FALSE
    OBVIOUS
  <2>1. n - 1 \in 0 .. MaxNonce /\ ~(n <= n - 1)
    BY <1>1
  <2>2. Unseen(n - 1)
    <3> SUFFICES ASSUME NEW m \in Nonce, m > n - 1 PROVE proposed[m] = {}
      OBVIOUS
    <3>1. m = n \/ m > n
      BY <1>1 DEF Nonce
    <3> QED BY <1>1, <3>1
  <2> QED BY <1>1, <2>1, <2>2
<1>3. n \in 0 .. MaxNonce /\ Unseen(n)
  BY <1>1
<1> QED BY <1>2, <1>3 DEF LastProposed

\* The relayer starts with nothing submitted.
LEMMA RelayerStart == RelayerInit => RelayerInv
<1> SUFFICES ASSUME RelayerInit PROVE RelayerInv
  OBVIOUS
<1> USE RelayerAssumption
<1>1. RelayerTypeOK
  BY DEF RelayerInit, RelayerTypeOK, Submission, Defence, NoSubmission, NoDefence, Nonce
<1> QED BY <1>1 DEF RelayerInit, RelayerInv, Undisturbed, Holds, Active, NoSubmission, NoDefence, Nonce

\* A nonce is taken above all the oracle has seen, by the only submission there is.
LEMMA TakesFreshNonce ==
    ASSUME RelayerInv, NEW s \in OracleSubmissions, NEW base \in Int,
           NEW entries \in 0 .. MaxLedgerState,
           TakeNonce(s, base, entries),
           UNCHANGED <<proposed, resolved, defence, restarts>>,
           clashes' = {} =>
              /\ clashes = {}
              /\ \A t \in OracleSubmissions : Active(t) => t = s
              /\ \A m \in Nonce : m > base => proposed[m] = {}
    PROVE  RelayerInv'
<1> USE RelayerAssumption
<1> DEFINE x == [awaits |-> "broadcast", nonce |-> base + 1, entries |-> entries]
<1>1. /\ base + 1 \in Nonce /\ currentNonce' = base + 1
      /\ submission' = [submission EXCEPT ![s] = x]
      /\ batchStore' = [batchStore EXCEPT ![base + 1] = entries]
      /\ proposed' = proposed /\ resolved' = resolved /\ defence' = defence /\ restarts' = restarts
  BY DEF TakeNonce
<1>2. x \in Submission
  BY <1>1 DEF Submission, Nonce
<1>3. RelayerTypeOK'
  BY <1>1, <1>2 DEF RelayerInv, RelayerTypeOK, Nonce
<1>4. \A t \in OracleSubmissions : submission'[t] = IF t = s THEN x ELSE submission[t]
  BY <1>1 DEF RelayerInv, RelayerTypeOK
<1>5. \A n \in Nonce : batchStore'[n] = IF n = base + 1 THEN entries ELSE batchStore[n]
  BY <1>1 DEF RelayerInv, RelayerTypeOK
<1>6. ASSUME clashes' = {} PROVE Undisturbed'
  <2>1. proposed[base + 1] = {}
    BY <1>1, <1>6 DEF Nonce
  <2>2. \A t \in OracleSubmissions : Active(t)' => t = s
    BY <1>1, <1>4, <1>6 DEF Active
  <2>3. \A t \in OracleSubmissions : Holds(submission'[t]) => t = s
    BY <2>2 DEF Active, Holds, NoSubmission
  <2>4. \A m \in Nonce : m > base + 1 => proposed[m] = {}
    BY <1>1, <1>6 DEF Nonce
  <2>5. \A n \in Nonce \ resolved : proposed[n] \subseteq {batchStore'[n]}
    BY <1>5, <1>6, <2>1 DEF RelayerInv, Undisturbed
  <2>6. batchStore'[base + 1] = entries
    BY <1>1, <1>5
  <2> QED BY <1>1, <1>4, <2>1, <2>2, <2>3, <2>4, <2>5, <2>6 DEF Undisturbed
<1> QED BY <1>1, <1>3, <1>4, <1>6 DEF RelayerInv

\* A submission that holds a nonce lets go of it: the oracle has its batch, or not.
LEMMA LetsGo ==
    ASSUME RelayerInv, NEW s \in OracleSubmissions, Holds(submission[s]),
           submission' = [submission EXCEPT ![s] = NoSubmission],
           UNCHANGED <<currentNonce, batchStore, resolved, defence, restarts, clashes>>,
           Mined(s) \/ UNCHANGED proposed
    PROVE  RelayerInv'
<1> USE RelayerAssumption
<1>1. /\ submission[s].nonce \in Nonce /\ submission[s].entries \in 0 .. MaxLedgerState
      /\ submission \in [OracleSubmissions -> Submission]
      /\ proposed \in [Nonce -> SUBSET (0 .. MaxLedgerState)]
  BY DEF RelayerInv, RelayerTypeOK, Submission
<1>2. NoSubmission \in Submission
  BY DEF NoSubmission, Submission
<1>3. /\ proposed' \in [Nonce -> SUBSET (0 .. MaxLedgerState)]
      /\ \A n \in Nonce : n # submission[s].nonce => proposed'[n] = proposed[n]
      /\ \A n \in Nonce : proposed[n] \subseteq proposed'[n]
      /\ proposed'[submission[s].nonce] \subseteq proposed[submission[s].nonce] \cup {submission[s].entries}
  BY <1>1 DEF Mined
<1>4. RelayerTypeOK'
  BY <1>1, <1>2, <1>3 DEF RelayerInv, RelayerTypeOK
<1>5. \A t \in OracleSubmissions : submission'[t] = IF t = s THEN NoSubmission ELSE submission[t]
  BY <1>1
<1>6. ASSUME clashes = {} PROVE Undisturbed'
  <2>1. \A t \in OracleSubmissions : ~Active(t)' /\ ~Holds(submission'[t])
    BY <1>5, <1>6 DEF RelayerInv, Undisturbed, Active, Holds, NoSubmission
  <2>2. submission[s].nonce = currentNonce /\ batchStore[currentNonce] = submission[s].entries
        /\ proposed[currentNonce] = {}
    BY <1>6 DEF RelayerInv, Undisturbed
  <2>3. \A m \in Nonce : m > currentNonce => proposed'[m] = {}
    <3> SUFFICES ASSUME NEW m \in Nonce, m > currentNonce PROVE proposed'[m] = {}
      OBVIOUS
    <3>1. m # currentNonce /\ currentNonce # 0
      BY <1>1, <2>2 DEF Nonce
    <3> QED BY <1>3, <1>6, <2>2, <3>1 DEF RelayerInv, Undisturbed
  <2>4. \A n \in Nonce \ resolved : proposed'[n] \subseteq {batchStore[n]}
    BY <1>1, <1>3, <1>6, <2>2 DEF RelayerInv, Undisturbed
  <2> QED BY <2>1, <2>3, <2>4 DEF Undisturbed
<1>7. defence # NoDefence => defence.nonce \in Nonce /\ proposed'[defence.nonce] # {}
  BY <1>3 DEF RelayerInv
<1>8. \A t \in OracleSubmissions : Holds(submission'[t]) => submission'[t].nonce \in Nonce
  BY <1>5 DEF RelayerInv, Holds, NoSubmission
<1> QED BY <1>4, <1>6, <1>7, <1>8 DEF RelayerInv

\* No handler of the relayer, no restart and no challenge breaks the invariant.
LEMMA RelayerStep == RelayerInv /\ [RelayerNext]_relayerVars => RelayerInv'
<1> SUFFICES ASSUME RelayerInv, [RelayerNext]_relayerVars PROVE RelayerInv'
  OBVIOUS
<1> USE RelayerAssumption
<1>0. RelayerTypeOK
  BY DEF RelayerInv
<1>1. ASSUME NEW s \in OracleSubmissions, NEW v \in Version, SubmitBatch(s, v)
      PROVE  RelayerInv'
  <2>0. v \in 0 .. MaxLedgerState
    BY DEF Version
  <2>1. clashes' = {} => clashes = {} /\ \A t \in OracleSubmissions : ~Active(t)
    BY <1>1 DEF SubmitBatch, OthersActive
  <2>2. CASE currentNonce = 0
    <3> DEFINE x == [awaits |-> "nonce", nonce |-> 0, entries |-> v]
    <3>1. /\ submission' = [submission EXCEPT ![s] = x]
          /\ UNCHANGED <<currentNonce, batchStore, proposed, resolved, defence, restarts>>
      BY <1>1, <2>2 DEF SubmitBatch
    <3>2. x \in Submission /\ ~Holds(x)
      BY <2>0 DEF Submission, Holds
    <3> HIDE DEF x
    <3>3. RelayerTypeOK'
      BY <1>0, <3>1, <3>2 DEF RelayerTypeOK
    <3>4. \A t \in OracleSubmissions : submission'[t] = IF t = s THEN x ELSE submission[t]
      BY <1>0, <3>1 DEF RelayerTypeOK
    <3>5. ASSUME clashes' = {} PROVE Undisturbed'
      <4>1. \A t \in OracleSubmissions : Active(t)' => t = s
        BY <2>1, <3>4, <3>5 DEF Active
      <4>2. \A t \in OracleSubmissions : ~Holds(submission'[t])
        BY <2>1, <3>2, <3>4, <3>5 DEF Active, Holds, NoSubmission
      <4> QED BY <2>1, <3>1, <3>5, <4>1, <4>2 DEF RelayerInv, Undisturbed
    <3> QED BY <3>1, <3>2, <3>3, <3>4, <3>5 DEF RelayerInv
  <2>3. CASE currentNonce # 0
    <3>1. /\ TakeNonce(s, currentNonce, v) /\ UNCHANGED <<proposed, resolved, defence, restarts>>
          /\ currentNonce \in Int
      BY <1>0, <1>1, <2>3 DEF SubmitBatch, RelayerTypeOK
    <3>2. clashes' = {} => /\ clashes = {} /\ \A t \in OracleSubmissions : Active(t) => t = s
                           /\ \A m \in Nonce : m > currentNonce => proposed[m] = {}
      BY <2>1, <2>3 DEF RelayerInv, Undisturbed
    <3> QED BY <2>0, <3>1, <3>2, TakesFreshNonce
  <2> QED BY <2>2, <2>3
<1>2. ASSUME NEW s \in OracleSubmissions, NonceKnown(s) PROVE RelayerInv'
  <2>1. /\ submission[s].entries \in 0 .. MaxLedgerState /\ Active(s)
        /\ UNCHANGED <<proposed, resolved, defence, restarts>>
        /\ currentNonce \in Int /\ LastProposed \in Int
    <3>1. submission[s].awaits = "nonce" /\ UNCHANGED <<proposed, resolved, defence, restarts>>
      BY <1>2 DEF NonceKnown
    <3>2. submission[s] \in Submission /\ currentNonce \in Int
      BY <1>0 DEF RelayerTypeOK
    <3>3. LastProposed \in 0 .. MaxNonce
      BY <1>0, LastProposedIsLast
    <3>4. submission[s] # NoSubmission
      BY <3>1 DEF NoSubmission
    <3> QED BY <3>1, <3>2, <3>3, <3>4 DEF Submission, Active
  <2>2. clashes = {} => \A t \in OracleSubmissions : Active(t) => t = s
    BY <2>1 DEF RelayerInv, Undisturbed
  <2>3. \A m \in Nonce : m > LastProposed => proposed[m] = {}
    BY <1>0, LastProposedIsLast
  <2>4. CASE TakeNonce(s, LastProposed, submission[s].entries) /\ UNCHANGED clashes
    BY <2>1, <2>2, <2>3, <2>4, TakesFreshNonce
  <2>5. CASE /\ TakeNonce(s, currentNonce, submission[s].entries)
             /\ clashes' = clashes \cup (IF LastProposed # currentNonce THEN {"blind start"} ELSE {})
    <3>1. clashes' = {} => clashes = {} /\ LastProposed = currentNonce
      BY <2>5
    <3> QED BY <2>1, <2>2, <2>3, <2>5, <3>1, TakesFreshNonce
  <2> QED BY <1>2, <2>4, <2>5 DEF NonceKnown
<1>3. ASSUME NEW s \in OracleSubmissions, Broadcast(s) PROVE RelayerInv'
  <2> DEFINE x == [submission[s] EXCEPT !.awaits = "receipt"]
  <2>1. /\ submission' = [submission EXCEPT ![s] = x] /\ submission[s].awaits = "broadcast"
        /\ UNCHANGED <<currentNonce, batchStore, proposed, resolved, defence, restarts, clashes>>
    BY <1>3 DEF Broadcast
  <2>2. /\ submission[s] \in Submission /\ x \in Submission /\ x.nonce = submission[s].nonce
        /\ x.entries = submission[s].entries
    BY <1>0 DEF RelayerTypeOK, Submission
  <2> HIDE DEF x
  <2>3. RelayerTypeOK'
    BY <1>0, <2>1, <2>2 DEF RelayerTypeOK
  <2>4. \A t \in OracleSubmissions : submission'[t] = IF t = s THEN x ELSE submission[t]
    BY <1>0, <2>1 DEF RelayerTypeOK
  <2>5. Holds(submission[s]) /\ Active(s)
    BY <2>1 DEF Holds, Active, NoSubmission
  <2>6. clashes = {} => Undisturbed'
    BY <2>1, <2>2, <2>4, <2>5 DEF RelayerInv, Undisturbed, Active
  <2> QED BY <2>1, <2>2, <2>3, <2>4, <2>5, <2>6 DEF RelayerInv
<1>4. ASSUME NEW s \in OracleSubmissions, SubmissionRejected(s) PROVE RelayerInv'
  <2> DEFINE n == submission[s].nonce
  <2>1. /\ Holds(submission[s])
        /\ submission' = [submission EXCEPT ![s] = NoSubmission]
        /\ batchStore' = [batchStore EXCEPT ![n] = 0]
        /\ currentNonce' = currentNonce - 1
        /\ UNCHANGED <<proposed, resolved, defence, restarts, clashes>>
    BY <1>4 DEF SubmissionRejected, Undo, Holds
  <2>2. n \in Nonce
    BY <2>1 DEF RelayerInv
  <2>3. NoSubmission \in Submission
    BY DEF NoSubmission, Submission
  <2> HIDE DEF n
  <2>4. RelayerTypeOK'
    BY <1>0, <2>1, <2>2, <2>3 DEF RelayerTypeOK
  <2>5. \A t \in OracleSubmissions : submission'[t] = IF t = s THEN NoSubmission ELSE submission[t]
    BY <1>0, <2>1 DEF RelayerTypeOK
  <2>6. \A m \in Nonce : m # n => batchStore'[m] = batchStore[m]
    BY <1>0, <2>1 DEF RelayerTypeOK
  <2>7. ASSUME clashes = {} PROVE Undisturbed'
    <3>1. \A t \in OracleSubmissions : ~Active(t)' /\ ~Holds(submission'[t])
      BY <2>1, <2>5, <2>7 DEF RelayerInv, Undisturbed, Active, Holds, NoSubmission
    <3>2. n = currentNonce /\ proposed[n] = {}
      BY <2>1, <2>7 DEF RelayerInv, Undisturbed, n
    <3>3. \A m \in Nonce : m > currentNonce - 1 => proposed[m] = {}
      <4> SUFFICES ASSUME NEW m \in Nonce, m > currentNonce - 1 PROVE proposed[m] = {}
        OBVIOUS
      <4>1. currentNonce # 0 /\ (m = currentNonce \/ m > currentNonce)
        BY <2>2, <3>2 DEF Nonce
      <4> QED BY <2>7, <3>2, <4>1 DEF RelayerInv, Undisturbed
    <3>4. \A m \in Nonce \ resolved : proposed[m] \subseteq {batchStore'[m]}
      BY <2>6, <2>7, <3>2 DEF RelayerInv, Undisturbed
    <3> QED BY <2>1, <3>1, <3>3, <3>4 DEF Undisturbed
  <2>8. \A t \in OracleSubmissions : Holds(submission'[t]) => submission'[t].nonce \in Nonce
    BY <2>5 DEF RelayerInv, Holds, NoSubmission
  <2> QED BY <2>1, <2>4, <2>7, <2>8 DEF RelayerInv
<1>5. ASSUME NEW s \in OracleSubmissions, Confirmed(s) \/ ConfirmationLost(s) PROVE RelayerInv'
  BY <1>5, LetsGo DEF Confirmed, ConfirmationLost, Holds
<1>6. CASE RestartRelayer
  <2>1. /\ currentNonce' = 0 /\ restarts' = restarts + 1
        /\ submission' = [s \in OracleSubmissions |-> NoSubmission]
        /\ defence' = NoDefence
        /\ UNCHANGED <<batchStore, resolved, clashes>>
    BY <1>6 DEF RestartRelayer
  <2>2. NoSubmission \in Submission /\ NoDefence \in Defence
    BY DEF NoSubmission, Submission, NoDefence, Defence
  <2>3. \A s \in OracleSubmissions : submission'[s] = NoSubmission /\ ~Active(s)'
                                     /\ ~Holds(submission'[s])
    BY <2>1 DEF Active, Holds, NoSubmission
  <2>4. ASSUME NEW s \in OracleSubmissions, submission[s].awaits = "receipt", Mined(s)
        PROVE  /\ proposed' \in [Nonce -> SUBSET (0 .. MaxLedgerState)]
               /\ clashes = {} => \A n \in Nonce \ resolved : proposed'[n] \subseteq {batchStore[n]}
    <3>1. Holds(submission[s]) /\ submission[s] \in Submission
      BY <1>0, <2>4 DEF Holds, RelayerTypeOK
    <3>2. submission[s].nonce \in Nonce /\ submission[s].entries \in 0 .. MaxLedgerState
      BY <3>1 DEF RelayerInv, Submission
    <3>3. clashes = {} => /\ submission[s].nonce = currentNonce
                          /\ batchStore[currentNonce] = submission[s].entries
                          /\ proposed[currentNonce] = {}
      BY <3>1 DEF RelayerInv, Undisturbed
    <3>4. /\ \A n \in Nonce : n # submission[s].nonce => proposed'[n] = proposed[n]
          /\ proposed'[submission[s].nonce]
               = proposed[submission[s].nonce] \cup {submission[s].entries}
          /\ proposed' \in [Nonce -> SUBSET (0 .. MaxLedgerState)]
      BY <1>0, <2>4, <3>2 DEF Mined, RelayerTypeOK
    <3> QED BY <3>3, <3>4 DEF RelayerInv, Undisturbed
  <2>5. /\ proposed' \in [Nonce -> SUBSET (0 .. MaxLedgerState)]
        /\ clashes = {} => \A n \in Nonce \ resolved : proposed'[n] \subseteq {batchStore[n]}
    BY <1>0, <1>6, <2>4 DEF RestartRelayer, RelayerInv, Undisturbed, RelayerTypeOK
  <2>6. RelayerTypeOK'
    BY <1>0, <2>1, <2>2, <2>5 DEF RelayerTypeOK
  <2> QED BY <2>1, <2>3, <2>5, <2>6 DEF RelayerInv, Undisturbed
<1>7. ASSUME NEW n \in Nonce, Challenge(n) PROVE RelayerInv'
  BY <1>0, <1>7 DEF Challenge, RelayerInv, RelayerTypeOK, Defence, NoDefence, Undisturbed, Active, Nonce
<1>8. CASE CheckSource \/ Recover
  <2>1. /\ UNCHANGED <<currentNonce, batchStore, submission, proposed, resolved, restarts, clashes>>
        /\ defence # NoDefence
        /\ defence' = NoDefence \/ (defence' \in Defence /\ defence'.nonce = defence.nonce)
    BY <1>0, <1>8 DEF CheckSource, Recover, RelayerTypeOK, Defence, NoDefence
  <2>2. NoDefence \in Defence
    BY DEF NoDefence, Defence
  <2> QED BY <1>0, <2>1, <2>2 DEF RelayerInv, RelayerTypeOK, Undisturbed, Active
<1>9. CASE Override
  <2>1. /\ defence.awaits = "override" /\ defence' = NoDefence /\ defence # NoDefence
        /\ UNCHANGED <<currentNonce, submission, proposed, restarts, clashes>>
        /\ \/ /\ resolved' = resolved \cup {defence.nonce}
              /\ batchStore' = [batchStore EXCEPT ![defence.nonce] = 0]
           \/ resolved' \in {resolved, resolved \cup {defence.nonce}} /\ batchStore' = batchStore
    BY <1>9 DEF Override, NoDefence
  <2>2. defence.nonce \in Nonce /\ proposed[defence.nonce] # {} /\ NoDefence \in Defence
    BY <2>1 DEF RelayerInv, NoDefence, Defence
  <2>3. RelayerTypeOK'
    BY <1>0, <2>1, <2>2 DEF RelayerTypeOK
  <2>4. /\ \A m \in Nonce : m # defence.nonce => batchStore'[m] = batchStore[m]
        /\ resolved \subseteq resolved'
        /\ defence.nonce \in resolved' \/ batchStore' = batchStore
    BY <1>0, <2>1 DEF RelayerTypeOK
  <2>5. ASSUME clashes = {} PROVE Undisturbed'
    <3>1. ASSUME NEW s \in OracleSubmissions, Holds(submission[s])
          PROVE  batchStore'[currentNonce] = submission[s].entries
      BY <2>2, <2>4, <2>5, <3>1 DEF RelayerInv, Undisturbed
    <3>2. \A m \in Nonce \ resolved' : proposed[m] \subseteq {batchStore'[m]}
      BY <2>4, <2>5 DEF RelayerInv, Undisturbed
    <3> QED BY <2>1, <2>5, <3>1, <3>2 DEF RelayerInv, Undisturbed, Active
  <2> QED BY <2>1, <2>3, <2>5 DEF RelayerInv
<1>10. CASE UNCHANGED relayerVars
  BY <1>0, <1>10 DEF relayerVars, RelayerInv, RelayerTypeOK, Undisturbed, Active
<1> QED
  BY <1>1, <1>2, <1>3, <1>4, <1>5, <1>6, <1>7, <1>8, <1>9, <1>10 DEF RelayerNext

\* Whatever is lost on the way, whenever the relayer restarts and however its defences
\* end, the batch that was mined under a nonce is the one the store has for it until its
\* challenge is over, unless two submissions ran at once (submitBatch,
\* handleChallengedBatch).
THEOREM ProposalsStayDefensible == RelayerSpec => []ProposalsAreDefensible
<1>1. RelayerInv => ProposalsAreDefensible
  BY DEF RelayerInv, Undisturbed, ProposalsAreDefensible
<1> QED BY <1>1, RelayerStart, RelayerStep, PTL DEF RelayerSpec
-----------------------------------------------------------------------------
(* State proofs: numbers in order.                                         *)

\* In a list that increases from one place to the next, every later number is greater.
LEMMA IncreasingIsStrict ==
    ASSUME NEW n \in Nat, NEW f, \A i \in 1 .. n : f[i] \in Int,
           \A i \in 2 .. n : f[i] > f[i - 1]
    PROVE  \A i, j \in 1 .. n : i < j => f[i] < f[j]
<1> SUFFICES ASSUME NEW i \in 1 .. n PROVE \A j \in 1 .. n : i < j => f[i] < f[j]
  OBVIOUS
<1> DEFINE Bad == {j \in 1 .. n : i < j /\ ~(f[i] < f[j])}
<1> SUFFICES ASSUME Bad # {} PROVE FALSE
  OBVIOUS
<1>1. PICK j \in Bad : \A m \in Bad : j <= m
  <2>1. Bad \in SUBSET Nat
    OBVIOUS
  <2> HIDE DEF Bad
  <2> QED BY <2>1, LeastExists
<1>2. j \in 1 .. n /\ i < j /\ ~(f[i] < f[j]) /\ j \in 2 .. n /\ j - 1 \in 1 .. n
  BY <1>1
<1>3. f[j - 1] < f[j] /\ f[i] \in Int /\ f[j - 1] \in Int /\ f[j] \in Int
  BY <1>2
<1>4. j - 1 \notin Bad
  <2>1. ~(j <= j - 1)
    BY <1>2
  <2> HIDE DEF Bad
  <2> QED BY <1>1, <2>1
<1>5. i = j - 1 \/ f[i] < f[j - 1]
  BY <1>2, <1>4
<1> QED BY <1>2, <1>3, <1>5

\* So the numbers in it are as many as its places.
LEMMA IncreasingIsDistinct ==
    ASSUME NEW n \in Nat, NEW f, \A i \in 1 .. n : f[i] \in Int,
           \A i \in 2 .. n : f[i] > f[i - 1]
    PROVE  IsFiniteSet({f[i] : i \in 1 .. n}) /\ Cardinality({f[i] : i \in 1 .. n}) = n
<1> DEFINE T == {f[i] : i \in 1 .. n}
           g == [i \in 1 .. n |-> f[i]]
<1>1. \A i, j \in 1 .. n : i < j => f[i] < f[j]
  BY IncreasingIsStrict
<1>2. \A i, j \in 1 .. n : g[i] = g[j] => i = j
  <2> SUFFICES ASSUME NEW i \in 1 .. n, NEW j \in 1 .. n, i # j PROVE f[i] # f[j]
    OBVIOUS
  <2>1. i < j \/ j < i
    OBVIOUS
  <2>2. f[i] \in Int /\ f[j] \in Int
    OBVIOUS
  <2> QED BY <1>1, <2>1, <2>2
<1>3. g \in Surjection(1 .. n, T)
  BY DEF Surjection
<1>4. g \in Injection(1 .. n, T)
  BY <1>2, <1>3 DEF Surjection, Injection, IsInjective
<1>5. IsFiniteSet(1 .. n) /\ Cardinality(1 .. n) = n
  BY FS_Interval
<1> HIDE DEF T, g
<1>6. IsFiniteSet(T) /\ Cardinality(T) = Cardinality(1 .. n)
  BY <1>3, <1>4, <1>5, FS_Surjection
<1> QED BY <1>5, <1>6 DEF T

\* How many numbers of S are not above a.
Rank(S, a) == Cardinality({b \in S : b <= a})

\* Ranks run from one to the number of elements, and grow with them.
LEMMA RanksGrow ==
    ASSUME NEW S \in SUBSET Int, IsFiniteSet(S)
    PROVE  /\ \A a \in S : Rank(S, a) \in 1 .. Cardinality(S)
           /\ \A a, b \in S : a < b => Rank(S, a) < Rank(S, b)
<1>0. \A T \in SUBSET S : IsFiniteSet(T) /\ Cardinality(T) \in Nat /\ Cardinality(T) <= Cardinality(S)
  BY FS_Subset, FS_CardinalityType
<1>1. ASSUME NEW a \in S PROVE Rank(S, a) \in 1 .. Cardinality(S)
  <2> DEFINE T == {b \in S : b <= a}
  <2>1. T \in SUBSET S /\ T # {}
    OBVIOUS
  <2>2. Cardinality(T) # 0
    <3> HIDE DEF T
    <3> QED BY <1>0, <2>1, FS_EmptySet
  <2>3. Cardinality(T) \in Nat /\ Cardinality(T) <= Cardinality(S) /\ Cardinality(S) \in Nat
    BY <1>0, <2>1
  <2> HIDE DEF T
  <2>4. Cardinality(T) \in 1 .. Cardinality(S)
    BY <2>2, <2>3
  <2> QED BY <2>4 DEF Rank, T
<1>2. ASSUME NEW a \in S, NEW b \in S, a < b PROVE Rank(S, a) < Rank(S, b)
  <2> DEFINE T == {c \in S : c <= a}
             U == {c \in S : c <= b}
  <2>1. T \subseteq U /\ T # U /\ T \in SUBSET S /\ U \in SUBSET S
    <3>0. a \in Int /\ b \in Int /\ (\A c \in S : c \in Int)
      OBVIOUS
    <3>1. b <= b /\ ~(b <= a)
      BY <1>2, <3>0
    <3>2. b \in U /\ b \notin T
      BY <3>1
    <3>3. \A c \in S : c <= a => c <= b
      BY <1>2, <3>0
    <3>4. T \subseteq U
      BY <3>3
    <3> QED BY <3>2, <3>4
  <2> HIDE DEF T, U
  <2>2. Cardinality(T) <= Cardinality(U) /\ Cardinality(T) # Cardinality(U)
    BY <1>0, <2>1, FS_Subset
  <2>3. Cardinality(T) < Cardinality(U)
    BY <1>0, <2>1, <2>2
  <2> QED BY <2>3 DEF Rank, T, U
<1> QED BY <1>1, <1>2

\* Every rank up to their number is the rank of one of them.
LEMMA RanksAreTaken ==
    ASSUME NEW S \in SUBSET Int, IsFiniteSet(S), NEW n \in 1 .. Cardinality(S)
    PROVE  \E a \in S : Rank(S, a) = n
<1> SUFFICES ASSUME \A a \in S : Rank(S, a) # n PROVE FALSE
  OBVIOUS
<1> DEFINE N == Cardinality(S)
           T == (1 .. N) \ {n}
           f == [a \in S |-> Rank(S, a)]
<1>1. N \in Nat /\ IsFiniteSet(1 .. N) /\ Cardinality(1 .. N) = N
  BY FS_CardinalityType, FS_Interval
<1>2. IsFiniteSet(T) /\ Cardinality(T) < N
  <2>1. IsFiniteSet(T) /\ Cardinality(T) = Cardinality(1 .. N) - 1
    BY <1>1, FS_RemoveElement
  <2> HIDE DEF T
  <2> QED BY <1>1, <2>1
<1>3. f \in [S -> T]
  BY RanksGrow
<1>4. \E x, y \in S : x # y /\ f[x] = f[y]
  <2> HIDE DEF f, T
  <2> QED BY <1>2, <1>3, FS_PigeonHole
<1>5. PICK x \in S, y \in S : x # y /\ Rank(S, x) = Rank(S, y)
  BY <1>4
<1>6. x < y \/ y < x
  BY <1>5
<1>7. Rank(S, x) \in Int
  BY RanksGrow
<1> QED BY <1>5, <1>6, <1>7, RanksGrow

-----------------------------------------------------------------------------
(* What the generator makes.                                               *)

Record == [address : ProvenAddresses, score : Scores]

\* collectSortedEntries gives some of the records it is given, in the order of their
\* addresses, and one at least.
LEMMA EntriesAreSorted ==
    ASSUME NEW records \in Seq(Record), records # <<>>
    PROVE  /\ collectSortedEntries(records) \in Seq(Record)
           /\ Len(collectSortedEntries(records)) \in Nat \ {0}
           /\ StrictlySorted(collectSortedEntries(records))
<1> DEFINE Given == {records[i].address : i \in 1 .. Len(records)}
           Nth(n) == CHOOSE a \in Given : Cardinality({b \in Given : b <= a}) = n
           IsLast(a, i) == /\ records[i].address = a
                           /\ \A j \in i + 1 .. Len(records) : records[j].address # a
           LastOf(a) == CHOOSE i \in 1 .. Len(records) : IsLast(a, i)
           N == Cardinality(Given)
           entries == [n \in 1 .. N |-> records[LastOf(Nth(n))]]
<1>0. collectSortedEntries(records) = entries
  BY DEF collectSortedEntries
<1>1. Len(records) \in Nat \ {0} /\ \A i \in 1 .. Len(records) : records[i] \in Record
  BY EmptySeq, ElementOfSeq
<1>2. \A i \in 1 .. Len(records) : records[i].address \in Int
  BY <1>1, ProofsAssumption DEF Record
<1>3. IsFiniteSet(Given) /\ Given # {} /\ Given \in SUBSET Int
  <2> DEFINE f == [i \in 1 .. Len(records) |-> records[i].address]
  <2>1. f \in Surjection(1 .. Len(records), Given)
    BY DEF Surjection
  <2>2. IsFiniteSet(1 .. Len(records))
    BY <1>1, FS_Interval
  <2>3. IsFiniteSet(Given)
    <3> HIDE DEF f, Given
    <3> QED BY <2>1, <2>2, FS_Surjection
  <2>4. records[1].address \in Given
    BY <1>1
  <2> QED BY <1>2, <2>3, <2>4
<1> HIDE DEF Given
<1>4. N \in Nat \ {0}
  BY <1>3, FS_CardinalityType, FS_EmptySet
<1>5. ASSUME NEW n \in 1 .. N PROVE Nth(n) \in Given /\ Rank(Given, Nth(n)) = n
  <2>1. \E a \in Given : Cardinality({b \in Given : b <= a}) = n
    BY <1>3, RanksAreTaken DEF Rank
  <2> QED BY <2>1 DEF Rank
<1>6. ASSUME NEW n \in 2 .. N PROVE Nth(n) > Nth(n - 1)
  <2>1. n \in 1 .. N /\ n - 1 \in 1 .. N
    BY <1>4
  <2>2. /\ Nth(n) \in Given /\ Rank(Given, Nth(n)) = n
        /\ Nth(n - 1) \in Given /\ Rank(Given, Nth(n - 1)) = n - 1
    BY <1>5, <2>1
  <2> DEFINE a == Nth(n)
             b == Nth(n - 1)
  <2> HIDE DEF Nth, a, b
  <2>3. /\ a \in Given /\ Rank(Given, a) = n
        /\ b \in Given /\ Rank(Given, b) = n - 1
    BY <2>2 DEF a, b
  <2>4. a \in Int /\ b \in Int
    BY <1>3, <2>3
  <2>5. a < b => Rank(Given, a) < Rank(Given, b)
    BY <1>3, <2>3, RanksGrow
  <2>6. n # n - 1 /\ ~(n < n - 1)
    BY <1>4
  <2>7. a # b /\ ~(a < b)
    BY <2>3, <2>5, <2>6
  <2>8. a > b
    BY <2>4, <2>7
  <2> QED BY <2>8 DEF a, b
<1> HIDE DEF Nth
<1>7. ASSUME NEW a \in Given PROVE LastOf(a) \in 1 .. Len(records) /\ records[LastOf(a)].address = a
  <2> DEFINE T == {k \in Nat : k < Len(records) /\ records[Len(records) - k].address = a}
  <2>1. T # {}
    <3>1. PICK i \in 1 .. Len(records) : records[i].address = a
      BY DEF Given
    <3>2. Len(records) - i \in Nat /\ Len(records) - i < Len(records)
          /\ Len(records) - (Len(records) - i) = i
      BY <1>1
    <3>3. Len(records) - i \in T
      BY <3>1, <3>2
    <3> QED BY <3>3
  <2>2. PICK k \in T : \A m \in T : k <= m
    <3>1. T \in SUBSET Nat
      OBVIOUS
    <3> HIDE DEF T
    <3> QED BY <2>1, <3>1, LeastExists
  <2> DEFINE i == Len(records) - k
  <2>3. i \in 1 .. Len(records) /\ records[i].address = a
    BY <1>1, <2>2
  <2>4. ASSUME NEW j \in i + 1 .. Len(records), records[j].address = a PROVE FALSE
    <3>1. Len(records) - j \in Nat /\ Len(records) - j < k /\ Len(records) - j < Len(records)
          /\ Len(records) - (Len(records) - j) = j
      BY <1>1, <2>2, <2>3
    <3>2. Len(records) - j \in T
      BY <2>4, <3>1
    <3>3. ~(k <= Len(records) - j)
      BY <1>1, <2>2, <3>1
    <3> HIDE DEF T
    <3> QED BY <2>2, <3>2, <3>3
  <2>5. IsLast(a, i)
    BY <2>3, <2>4
  <2> HIDE DEF i
  <2>6. \E x \in 1 .. Len(records) : IsLast(a, x)
    BY <2>3, <2>5
  <2>7. LastOf(a) \in 1 .. Len(records) /\ IsLast(a, LastOf(a))
    <3> HIDE DEF IsLast
    <3> QED BY <2>6
  <2> QED BY <2>7
<1> HIDE DEF LastOf
<1>8. \A n \in 1 .. N : entries[n] \in Record /\ entries[n].address = Nth(n)
  BY <1>1, <1>5, <1>7
<1>9. entries \in Seq(Record) /\ Len(entries) = N
  BY <1>4, <1>8
<1>10. StrictlySorted(entries)
  <2> SUFFICES ASSUME NEW n \in 2 .. N PROVE entries[n].address > entries[n - 1].address
    BY <1>9 DEF StrictlySorted
  <2>1. n \in 1 .. N /\ n - 1 \in 1 .. N
    BY <1>4
  <2> HIDE DEF entries
  <2> QED BY <1>6, <1>8, <2>1
<1> HIDE DEF entries
<1> QED BY <1>0, <1>4, <1>9, <1>10

\* The leaves of the state tree over a list of entries.
StateLeaves(entries) == [i \in 1 .. Len(entries) |-> Leaf(entries[i])]

\* A leaf hash is no node, and neither is an aggregation leaf.
LEMMA LeavesAreNoNodes ==
    ASSUME NEW a, NEW score, NEW n, NEW h
    PROVE  /\ NoNode(computeLeafHash(a, score))
           /\ NoNode(computeAggregationLeaf(n, a, h, score))
BY DEF NoNode, computeLeafHash, computeAggregationLeaf

\* An audit path has one step less than the tree has layers.
LEMMA PathsAreFinite ==
    ASSUME NEW leaves, Len(leaves) \in Nat \ {0}, NEW i \in 1 .. Len(leaves)
    PROVE  Len(getProof(leaves, i)) \in Nat
<1>1. PICK at : GoesUp(getProof(leaves, i), at, Layers(leaves), i)
  BY PathShape
<1>2. Len(Layers(leaves)) \in Nat \ {0}
  BY TreeShape DEF IsTree
<1> QED BY <1>1, <1>2 DEF GoesUp

\* What the generator puts together over entries with state paths.
IsAggregated(b, e, k, r) ==
    /\ Len(b.entries) = Len(e) /\ b.entries = [i \in 1 .. Len(e) |-> b.entries[i]]
    /\ \A i \in 1 .. Len(e) :
        /\ b.entries[i].address = e[i].address /\ b.entries[i].score = e[i].score
        /\ b.entries[i].sequenceId = i - 1 /\ b.entries[i].leafHash = Leaf(e[i])
        /\ b.entries[i].merkleProof = e[i].merkleProof
        /\ b.entries[i].aggregationProof = getProof(AggregationLeaves(e), i)
    /\ b.aggregationRoot = Root(AggregationLeaves(e))
    /\ b.ledgerSeq = k /\ b.stateRootHash = r /\ b.bucketListHash = r
    /\ b.ledgerHeaderHash = computeHeaderHash(k, r)

\* Field by field, what Aggregated puts into a batch.
LEMMA AggregatedShape ==
    ASSUME NEW e, Len(e) \in Nat, NEW k, NEW r
    PROVE  IsAggregated(Aggregated(e, k, r), e, k, r)
BY DEF Aggregated, IsAggregated

\* e are the sorted entries, with their paths in the tree over them, that the generator
\* made b from.
Makes(e, k, b) ==
    /\ Len(e) \in Nat \ {0}
    /\ \A i \in 1 .. Len(e) : e[i].address \in Int
    /\ StrictlySorted(e)
    /\ \A i \in 1 .. Len(e) : e[i].merkleProof = getProof(StateLeaves(e), i)
    /\ IsAggregated(b, e, k, Root(StateLeaves(e)))

MadeBatches == {Batch(records, k) : records \in Seq(Record) \ {<<>>}, k \in Nat}

\* Every batch that generateBatchProof makes is put together over the tree of its own
\* entries, sorted and each address once.
LEMMA BatchShape ==
    ASSUME NEW b \in MadeBatches
    PROVE  \E e, k : Makes(e, k, b)
<1>1. PICK records \in Seq(Record) \ {<<>>}, k \in Nat : b = Batch(records, k)
  BY DEF MadeBatches
<1> DEFINE c == collectSortedEntries(records)
           leaves == [i \in 1 .. Len(c) |-> Leaf(c[i])]
           e == [i \in 1 .. Len(c) |->
                    [address |-> c[i].address, score |-> c[i].score,
                     merkleProof |-> getProof(leaves, i)]]
<1>2. b = Aggregated(e, k, Root(leaves))
  BY <1>1 DEF Batch
<1>3. c \in Seq(Record) /\ Len(c) \in Nat \ {0} /\ StrictlySorted(c)
  BY EntriesAreSorted
<1> HIDE DEF c
<1>4. \A i \in 1 .. Len(c) : c[i].address \in Int
  <2> SUFFICES ASSUME NEW i \in 1 .. Len(c) PROVE c[i].address \in Int
    OBVIOUS
  <2>1. c[i] \in Record
    BY <1>3, ElementOfSeq
  <2> QED BY <2>1, ProofsAssumption DEF Record
<1>5. Len(e) = Len(c)
  BY <1>3
<1>6. \A i \in 1 .. Len(c) :
        /\ e[i].address = c[i].address /\ e[i].score = c[i].score
        /\ e[i].merkleProof = getProof(leaves, i)
  OBVIOUS
<1> HIDE DEF e
<1>7. StateLeaves(e) = leaves
  BY <1>5, <1>6 DEF StateLeaves, Leaf
<1> HIDE DEF leaves
<1>8. StrictlySorted(e)
  <2> SUFFICES ASSUME NEW i \in 2 .. Len(e) PROVE e[i].address > e[i - 1].address
    BY DEF StrictlySorted
  <2>1. i \in 1 .. Len(c) /\ i - 1 \in 1 .. Len(c) /\ i \in 2 .. Len(c)
    BY <1>3, <1>5
  <2>2. c[i].address > c[i - 1].address
    BY <1>3, <2>1 DEF StrictlySorted
  <2> QED BY <1>6, <2>1, <2>2
<1>9. IsAggregated(b, e, k, Root(StateLeaves(e)))
  BY <1>2, <1>3, <1>5, <1>7, AggregatedShape
<1>10. Makes(e, k, b)
  BY <1>3, <1>4, <1>5, <1>6, <1>7, <1>8, <1>9 DEF Makes
<1> QED BY <1>10

\* What the verifiers reckon with in an entry.
Readable(x) == x.address \in Int /\ Len(x.merkleProof) \in Nat

\* A batch that was made can be read by a verifier.
LEMMA MadeIsReadable ==
    ASSUME NEW b \in MadeBatches
    PROVE  /\ Len(b.entries) \in Nat \ {0}
           /\ b.entries = [i \in 1 .. Len(b.entries) |-> b.entries[i]]
           /\ DOMAIN b.entries = 1 .. Len(b.entries)
           /\ \A i \in 1 .. Len(b.entries) : Readable(b.entries[i])
<1>1. PICK e, k : Makes(e, k, b)
  BY BatchShape
<1>2. /\ Len(b.entries) = Len(e) /\ b.entries = [i \in 1 .. Len(e) |-> b.entries[i]]
      /\ \A i \in 1 .. Len(e) : /\ b.entries[i].address = e[i].address
                                /\ b.entries[i].merkleProof = e[i].merkleProof
  BY <1>1 DEF Makes, IsAggregated
<1>3. Len(e) \in Nat \ {0} /\ \A i \in 1 .. Len(e) : e[i].address \in Int
  BY <1>1 DEF Makes
<1>4. Len(StateLeaves(e)) = Len(e)
  BY <1>3 DEF StateLeaves
<1>5. \A i \in 1 .. Len(e) : Len(e[i].merkleProof) \in Nat
  BY <1>1, <1>3, <1>4, PathsAreFinite DEF Makes
<1> QED BY <1>2, <1>3, <1>5 DEF Readable

\* The fields of a batch and of its entries.
LEMMA BatchIsRecord ==
    ASSUME NEW b \in MadeBatches
    PROVE  /\ DOMAIN b = {"entries", "aggregationRoot", "ledgerSeq", "stateRootHash",
                          "bucketListHash", "ledgerHeaderHash"}
           /\ \A i \in 1 .. Len(b.entries) :
                DOMAIN b.entries[i] = {"address", "score", "sequenceId", "leafHash",
                                       "merkleProof", "aggregationProof"}
<1>1. PICK records \in Seq(Record) \ {<<>>}, k \in Nat : b = Batch(records, k)
  BY DEF MadeBatches
<1>2. PICK e, r : b = Aggregated(e, k, r) /\ Len(e) \in Nat
  <2> DEFINE c == collectSortedEntries(records)
             leaves == [i \in 1 .. Len(c) |-> Leaf(c[i])]
             paths == [i \in 1 .. Len(c) |->
                        [address |-> c[i].address, score |-> c[i].score,
                         merkleProof |-> getProof(leaves, i)]]
  <2>1. b = Aggregated(paths, k, Root(leaves))
    BY <1>1 DEF Batch
  <2>2. Len(c) \in Nat
    BY EntriesAreSorted
  <2> HIDE DEF c
  <2>3. Len(paths) \in Nat
    BY <2>2
  <2> HIDE DEF paths, leaves
  <2> QED BY <2>1, <2>3, Zenon
<1>3. Len(b.entries) = Len(e)
  <2>1. IsAggregated(b, e, k, r)
    BY <1>2, AggregatedShape
  <2> QED BY <2>1 DEF IsAggregated
<1>4. DOMAIN b = {"entries", "aggregationRoot", "ledgerSeq", "stateRootHash",
                  "bucketListHash", "ledgerHeaderHash"}
  BY <1>2 DEF Aggregated
<1>5. \A i \in 1 .. Len(e) :
        DOMAIN b.entries[i] = {"address", "score", "sequenceId", "leafHash",
                               "merkleProof", "aggregationProof"}
  BY <1>2 DEF Aggregated
<1> QED BY <1>3, <1>4, <1>5

\* Parts of a list are lists.
LEMMA SubSequences ==
    ASSUME NEW S, NEW s \in Seq(S), NEW i \in 1 .. Len(s) + 1
    PROVE  /\ SubSeq(s, 1, i - 1) \in Seq(S)
           /\ SubSeq(s, i, Len(s)) \in Seq(S)
           /\ SubSeq(s, i + 1, Len(s)) \in Seq(S)
<1>1. Len(s) \in Nat /\ i \in Int
  BY LenProperties
<1>2. \A m \in 1 .. Len(s) : s[m] \in S
  BY ElementOfSeq
<1> QED BY <1>1, <1>2, SubSeqProperties

\* What is one entry apart from a list is a list.
LEMMA OneEntryApartIsAList ==
    ASSUME NEW S, NEW es \in Seq(S), NEW entries \in OneEntryApart(es, S)
    PROVE  entries \in Seq(S)
<1>1. CASE \E i \in 1 .. Len(es) : entries = RemoveAt(es, i)
  <2>1. PICK i \in 1 .. Len(es) : entries = RemoveAt(es, i)
    BY <1>1
  <2>2. i \in 1 .. Len(es) + 1
    BY LenProperties
  <2>3. SubSeq(es, 1, i - 1) \in Seq(S) /\ SubSeq(es, i + 1, Len(es)) \in Seq(S)
    BY <2>2, SubSequences
  <2> QED BY <2>1, <2>3, ConcatProperties DEF RemoveAt
<1>2. CASE \E i \in 1 .. Len(es) + 1, e \in S : entries = InsertAt(es, i, e)
  <2>1. PICK i \in 1 .. Len(es) + 1, e \in S : entries = InsertAt(es, i, e)
    BY <1>2
  <2>2. SubSeq(es, 1, i - 1) \in Seq(S) /\ SubSeq(es, i, Len(es)) \in Seq(S)
    BY SubSequences
  <2>3. <<e>> \in Seq(S)
    OBVIOUS
  <2> QED BY <2>1, <2>2, <2>3, ConcatProperties DEF InsertAt
<1>3. CASE \E i \in 1 .. Len(es), e \in S : entries = ReplaceAt(es, i, e)
  BY <1>3, ExceptSeq DEF ReplaceAt
<1> QED BY <1>1, <1>2, <1>3 DEF OneEntryApart

-----------------------------------------------------------------------------
(* What may arrive.                                                        *)

ReadableBatch(b) ==
    /\ Len(b.entries) \in Nat /\ DOMAIN b.entries = 1 .. Len(b.entries)
    /\ \A i \in 1 .. Len(b.entries) : Readable(b.entries[i])

ProofsInv ==
    /\ onLedger \in [ProvenAddresses -> Scores]
    /\ localState \in [ProvenAddresses -> Scores \cup {Unknown}]
    /\ made \in Seq(MadeBatches)
    /\ arrived # NoBatch =>
        /\ ReadableBatch(arrived)
        /\ \E n \in 1 .. Len(made) : made[n].ledgerHeaderHash = trusted

\* At first nothing is made and nothing arrives.
LEMMA ProofsStart == ProofsInit => ProofsInv
BY ProofsAssumption, EmptySeq DEF ProofsInit, ProofsInv

\* A batch that is made joins the others.
LEMMA MakesABatch ==
    ASSUME ProofsInv, NEW targets \in TargetLists, NEW answered \in SUBSET ProvenAddresses,
           GenerateBatchProof(targets, answered), arrived = NoBatch
    PROVE  ProofsInv'
<1> DEFINE records == [i \in 1 .. Len(targets) |->
                IF targets[i].score # Unknown THEN targets[i]
                ELSE [targets[i] EXCEPT !.score = fetchScoreData(targets[i].address, answered)]]
<1>0. made' = Append(made, Batch(records, Len(made) + 1)) /\ UNCHANGED <<onLedger, arrived, trusted>>
  BY DEF GenerateBatchProof
<1>1. /\ Len(targets) \in Nat \ {0}
      /\ \A i \in 1 .. Len(targets) :
            targets[i] \in [address : ProvenAddresses, score : Scores \cup {Unknown}]
  BY ProofsAssumption, EmptySeq, ElementOfSeq
<1>2. \A a \in ProvenAddresses : fetchScoreData(a, answered) \in Scores
  BY ProofsAssumption DEF fetchScoreData, ProofsInv
<1>3. \A i \in 1 .. Len(targets) : records[i] \in Record
  BY <1>1, <1>2 DEF Record
<1>4. records \in Seq(Record) /\ records # <<>>
  <2>1. Len(records) = Len(targets)
    BY <1>1
  <2>2. records = [i \in 1 .. Len(targets) |-> records[i]]
    OBVIOUS
  <2> HIDE DEF records
  <2>3. records \in Seq(Record)
    BY <1>1, <1>3, <2>2
  <2> QED BY <1>1, <2>1, <2>3, EmptySeq
<1> HIDE DEF records
<1>5. Len(made) + 1 \in Nat
  BY LenProperties DEF ProofsInv
<1>6. Batch(records, Len(made) + 1) \in MadeBatches
  BY <1>4, <1>5 DEF MadeBatches
<1>7. made' \in Seq(MadeBatches)
  BY <1>0, <1>6, AppendProperties DEF ProofsInv
<1>8. localState' \in [ProvenAddresses -> Scores \cup {Unknown}]
  BY DEF GenerateBatchProof, ProofsInv
<1> QED BY <1>0, <1>7, <1>8 DEF ProofsInv, NoBatch

\* What arrives is readable, whole, changed or put together.
LEMMA ArrivalsAreReadable ==
    ASSUME ProofsInv, ArrivesWhole \/ ArrivesChanged \/ ArrivesPutTogether
    PROVE  /\ ReadableBatch(arrived')
           /\ \E n \in 1 .. Len(made) : made[n].ledgerHeaderHash = trusted'
           /\ UNCHANGED <<onLedger, localState, made>>
<1>1. ASSUME NEW b, Arrives(b)
      PROVE  /\ arrived' = b /\ UNCHANGED <<onLedger, localState, made>>
             /\ \E n \in 1 .. Len(made) : made[n].ledgerHeaderHash = trusted'
  BY <1>1 DEF Arrives
<1>2. \A n \in 1 .. Len(made) : made[n] \in MadeBatches
  BY ElementOfSeq DEF ProofsInv
<1>3. \A n \in 1 .. Len(made) :
        /\ Len(made[n].entries) \in Nat
        /\ made[n].entries = [i \in 1 .. Len(made[n].entries) |-> made[n].entries[i]]
        /\ DOMAIN made[n].entries = 1 .. Len(made[n].entries)
        /\ \A i \in 1 .. Len(made[n].entries) : Readable(made[n].entries[i])
  BY <1>2, MadeIsReadable
<1>4. CASE ArrivesWhole
  <2>1. PICK n \in 1 .. Len(made) : Arrives(made[n])
    BY <1>4 DEF ArrivesWhole
  <2>2. ReadableBatch(made[n])
    BY <1>3 DEF ReadableBatch
  <2> QED BY <1>1, <2>1, <2>2
<1>5. CASE ArrivesChanged
  <2>1. PICK n \in 1 .. Len(made), score \in Scores :
            \E i \in 1 .. Len(made[n].entries) :
                Arrives([made[n] EXCEPT !.entries[i].score = score])
    BY <1>5 DEF ArrivesChanged
  <2>2. PICK i \in 1 .. Len(made[n].entries) :
            Arrives([made[n] EXCEPT !.entries[i].score = score])
    BY <2>1
  <2> DEFINE b == [made[n] EXCEPT !.entries[i].score = score]
             es == made[n].entries
  <2>3. made[n] \in MadeBatches /\ DOMAIN es = 1 .. Len(es) /\ Len(es) \in Nat
    BY <1>2, <1>3
  <2>4. b.entries = [es EXCEPT ![i].score = score]
    BY <2>3, BatchIsRecord
  <2>5. DOMAIN b.entries = 1 .. Len(es) /\ Len(b.entries) = Len(es)
    BY <2>3, <2>4
  <2>6. \A j \in 1 .. Len(es) : DOMAIN es[j] = {"address", "score", "sequenceId", "leafHash", "merkleProof", "aggregationProof"}
    BY <2>3, BatchIsRecord
  <2>7. \A j \in 1 .. Len(es) : b.entries[j].address = es[j].address /\ b.entries[j].merkleProof = es[j].merkleProof
    BY <2>3, <2>4, <2>6
  <2>8. ReadableBatch(b)
    BY <1>3, <2>3, <2>5, <2>7 DEF ReadableBatch, Readable
  <2> HIDE DEF b
  <2> QED BY <1>1, <2>2, <2>8 DEF b
<1>6. CASE ArrivesPutTogether
  <2> DEFINE AllEntries == UNION {Range(made[n].entries) : n \in 1 .. Len(made)}
  <2>1. PICK n \in 1 .. Len(made) :
            \E entries \in OneEntryApart(made[n].entries, AllEntries) :
                Arrives(Aggregated(entries, made[n].ledgerSeq, made[n].stateRootHash))
    BY <1>6 DEF ArrivesPutTogether
  <2>2. PICK entries \in OneEntryApart(made[n].entries, AllEntries) :
            Arrives(Aggregated(entries, made[n].ledgerSeq, made[n].stateRootHash))
    BY <2>1
  <2> DEFINE es == made[n].entries
  <2>3. \A e \in AllEntries : Readable(e)
    <3> SUFFICES ASSUME NEW m \in 1 .. Len(made), NEW e \in Range(made[m].entries)
                 PROVE  Readable(e)
      OBVIOUS
    <3> QED BY <1>3 DEF Range
  <2>4. \A i \in 1 .. Len(es) : es[i] \in AllEntries
    <3>1. \A i \in 1 .. Len(es) : es[i] \in Range(made[n].entries)
      BY <1>3 DEF Range
    <3> QED BY <3>1
  <2>5. es = [i \in 1 .. Len(es) |-> es[i]] /\ Len(es) \in Nat
    BY <1>3
  <2> HIDE DEF AllEntries, es
  <2>6. es \in Seq(AllEntries)
    BY <2>4, <2>5
  <2>7. entries \in Seq(AllEntries)
    BY <2>2, <2>6, OneEntryApartIsAList DEF es
  <2>8. Len(entries) \in Nat /\ \A i \in 1 .. Len(entries) : Readable(entries[i])
    BY <2>3, <2>7, LenProperties, ElementOfSeq
  <2> DEFINE b == Aggregated(entries, made[n].ledgerSeq, made[n].stateRootHash)
  <2>9. IsAggregated(b, entries, made[n].ledgerSeq, made[n].stateRootHash)
    BY <2>8, AggregatedShape
  <2> HIDE DEF b
  <2>10. ReadableBatch(b)
    BY <2>8, <2>9 DEF IsAggregated, ReadableBatch, Readable
  <2> QED BY <1>1, <2>2, <2>10 DEF b
<1> QED BY <1>4, <1>5, <1>6

\* A step of the system keeps to the invariant.
LEMMA ProofsStep == ProofsInv /\ [ProofsNext]_proofVars => ProofsInv'
<1> SUFFICES ASSUME ProofsInv, [ProofsNext]_proofVars PROVE ProofsInv'
  OBVIOUS
<1>1. ASSUME NEW a \in ProvenAddresses, NEW score \in Scores, SetScoreData(a, score) \/ ScoreMoves(a, score)
      PROVE  ProofsInv'
  BY <1>1 DEF SetScoreData, ScoreMoves, ProofsInv, NoBatch
<1>2. ASSUME NEW targets \in TargetLists, NEW answered \in SUBSET ProvenAddresses,
             GenerateBatchProof(targets, answered), arrived = NoBatch
      PROVE  ProofsInv'
  BY <1>2, MakesABatch
<1>3. CASE ArrivesWhole \/ ArrivesChanged \/ ArrivesPutTogether
  BY <1>3, ArrivalsAreReadable DEF ProofsInv
<1>4. CASE UNCHANGED proofVars
  BY <1>4 DEF proofVars, ProofsInv, NoBatch
<1> QED BY <1>1, <1>2, <1>3, <1>4 DEF ProofsNext

-----------------------------------------------------------------------------
(* What the verifiers accept.                                              *)

\* The state root of a batch, as the generator made it, is the root over its leaf hashes.
LEMMA RootOfLeafHashes ==
    ASSUME NEW b, NEW e, NEW k, Makes(e, k, b)
    PROVE  [i \in 1 .. Len(b.entries) |-> b.entries[i].leafHash] = StateLeaves(e)
BY DEF Makes, IsAggregated, StateLeaves

\* The paths that the generator gives an entry lead to both roots.
LEMMA MadeBatchVerifies ==
    ASSUME NEW b \in MadeBatches, b.ledgerHeaderHash = trusted
    PROVE  SdkAccepts(b) /\ BackendAccepts(b)
<1>1. PICK e, k : Makes(e, k, b)
  BY BatchShape
<1> DEFINE state == StateLeaves(e)
           aggregation == AggregationLeaves(e)
           n == Len(e)
<1>2. n \in Nat \ {0} /\ IsAggregated(b, e, k, Root(state))
  BY <1>1 DEF Makes
<1>3. Len(state) = n /\ Len(aggregation) = n
  BY <1>2 DEF StateLeaves, AggregationLeaves
<1>4. \A i \in 1 .. n :
        /\ state[i] = Leaf(e[i])
        /\ aggregation[i] = computeAggregationLeaf(i - 1, e[i].address, Leaf(e[i]), e[i].score)
  BY DEF StateLeaves, AggregationLeaves
<1> HIDE DEF state, aggregation
<1>5. \A i \in 1 .. n : /\ computeMerkleRoot(state[i], getProof(state, i)) = Root(state)
                        /\ computeMerkleRoot(aggregation[i], getProof(aggregation, i)) = Root(aggregation)
  BY <1>2, <1>3, MerkleCompleteness
<1>6. \A i \in 1 .. n : EntryChecks(b, i)
  <2> SUFFICES ASSUME NEW i \in 1 .. n PROVE EntryChecks(b, i)
    OBVIOUS
  <2>1. /\ b.entries[i].address = e[i].address /\ b.entries[i].score = e[i].score
        /\ b.entries[i].sequenceId = i - 1 /\ b.entries[i].leafHash = Leaf(e[i])
        /\ b.entries[i].aggregationProof = getProof(aggregation, i)
        /\ b.aggregationRoot = Root(aggregation) /\ b.stateRootHash = Root(state)
    BY <1>2 DEF IsAggregated, aggregation
  <2>2. b.entries[i].merkleProof = getProof(state, i)
    BY <1>1, <1>2 DEF Makes, IsAggregated, state
  <2> QED BY <1>4, <1>5, <2>1, <2>2 DEF EntryChecks, Leaf
<1>7. HeaderChecks(b) /\ Len(b.entries) = n
  BY <1>2 DEF HeaderChecks, IsAggregated
<1>8. StrictlySorted(b.entries)
  <2> SUFFICES ASSUME NEW i \in 2 .. n PROVE b.entries[i].address > b.entries[i - 1].address
    BY <1>7 DEF StrictlySorted
  <2>1. i \in 1 .. n /\ i - 1 \in 1 .. n
    BY <1>2
  <2>2. e[i].address > e[i - 1].address
    BY <1>1 DEF Makes, StrictlySorted
  <2> QED BY <1>2, <2>1, <2>2 DEF IsAggregated
<1>9. Reconstructed(b)
  BY <1>1, <1>2, RootOfLeafHashes DEF Reconstructed, IsAggregated, state
<1> QED BY <1>2, <1>6, <1>7, <1>8, <1>9 DEF SdkAccepts, BackendAccepts

\* An accepted batch has the state root of the batch that the trusted header is of.
LEMMA AnchoredRoot ==
    ASSUME ProofsInv, arrived # NoBatch, HeaderChecks(arrived)
    PROVE  /\ made[Anchor] \in MadeBatches
           /\ made[Anchor].stateRootHash = arrived.stateRootHash
<1>1. Anchor \in 1 .. Len(made) /\ made[Anchor].ledgerHeaderHash = trusted
  BY DEF ProofsInv, Anchor
<1> HIDE DEF Anchor
<1>2. made[Anchor] \in MadeBatches
  BY <1>1, ElementOfSeq DEF ProofsInv
<1>3. PICK e, k : Makes(e, k, made[Anchor])
  BY <1>2, BatchShape
<1>4. /\ made[Anchor].ledgerHeaderHash = computeHeaderHash(k, Root(StateLeaves(e)))
      /\ made[Anchor].stateRootHash = Root(StateLeaves(e))
  BY <1>3 DEF Makes, IsAggregated
<1> QED BY <1>1, <1>2, <1>4 DEF HeaderChecks, computeHeaderHash

\* Every entry of a batch the SDK accepts is an entry of the trusted batch, since its
\* path leads to that batch's state root and ends there at a leaf.
LEMMA AcceptedEntriesWereProved ==
    ASSUME ProofsInv, arrived # NoBatch, SdkAccepts(arrived),
           NEW i \in 1 .. Len(arrived.entries)
    PROVE  \E j \in 1 .. Len(made[Anchor].entries) :
              /\ made[Anchor].entries[j].address = arrived.entries[i].address
              /\ made[Anchor].entries[j].score = arrived.entries[i].score
<1> DEFINE a == arrived.entries[i].address
           score == arrived.entries[i].score
           path == arrived.entries[i].merkleProof
<1>1. made[Anchor] \in MadeBatches /\ made[Anchor].stateRootHash = arrived.stateRootHash
  BY AnchoredRoot DEF SdkAccepts
<1>2. PICK e, k : Makes(e, k, made[Anchor])
  BY <1>1, BatchShape
<1>3. /\ Len(e) \in Nat \ {0} /\ Len(made[Anchor].entries) = Len(e)
      /\ made[Anchor].stateRootHash = Root(StateLeaves(e))
      /\ \A j \in 1 .. Len(e) : /\ made[Anchor].entries[j].address = e[j].address
                                /\ made[Anchor].entries[j].score = e[j].score
  BY <1>2 DEF Makes, IsAggregated
<1>4. computeMerkleRoot(computeLeafHash(a, score), path) = Root(StateLeaves(e))
  BY <1>1, <1>3 DEF SdkAccepts, EntryChecks
<1>5. Len(path) \in Nat
  BY DEF ProofsInv, ReadableBatch, Readable
<1>6. Len(StateLeaves(e)) = Len(e)
      /\ \A j \in 1 .. Len(e) : StateLeaves(e)[j] = computeLeafHash(e[j].address, e[j].score)
  BY <1>3 DEF StateLeaves, Leaf
<1> HIDE DEF a, score, path
<1> DEFINE state == StateLeaves(e)
           leaf == computeLeafHash(a, score)
<1>7. Len(state) \in Nat \ {0} /\ computeMerkleRoot(leaf, path) = Root(state)
  BY <1>3, <1>4, <1>6
<1>8. NoNode(leaf) /\ \A j \in 1 .. Len(state) : NoNode(state[j])
  BY <1>6 DEF NoNode, computeLeafHash
<1> HIDE DEF state, leaf
<1>9. PICK j \in 1 .. Len(state) : state[j] = leaf
  BY <1>5, <1>7, <1>8, MerkleSoundness
<1>10. j \in 1 .. Len(e) /\ computeLeafHash(e[j].address, e[j].score) = computeLeafHash(a, score)
  BY <1>6, <1>9 DEF state, leaf
<1>11. e[j].address = a /\ e[j].score = score
  BY <1>10 DEF computeLeafHash
<1> QED BY <1>3, <1>10, <1>11 DEF a, score

\* No entry of the trusted batch is missing from a batch that the backend accepts: its
\* path, as it was made, leads to the root that is reconstructed from the batch.
LEMMA TrustedEntriesArrive ==
    ASSUME ProofsInv, arrived # NoBatch, BackendAccepts(arrived),
           NEW j \in 1 .. Len(made[Anchor].entries)
    PROVE  \E i \in 1 .. Len(arrived.entries) :
              /\ made[Anchor].entries[j].address = arrived.entries[i].address
              /\ made[Anchor].entries[j].score = arrived.entries[i].score
<1> DEFINE n == Len(arrived.entries)
           leaves == [i \in 1 .. n |-> arrived.entries[i].leafHash]
<1>1. made[Anchor] \in MadeBatches /\ made[Anchor].stateRootHash = arrived.stateRootHash
  BY AnchoredRoot DEF BackendAccepts, SdkAccepts
<1>2. PICK e, k : Makes(e, k, made[Anchor])
  BY <1>1, BatchShape
<1> DEFINE state == StateLeaves(e)
<1>3. /\ Len(e) \in Nat \ {0} /\ Len(made[Anchor].entries) = Len(e)
      /\ made[Anchor].stateRootHash = Root(state)
      /\ made[Anchor].entries[j].address = e[j].address
      /\ made[Anchor].entries[j].score = e[j].score
  BY <1>2 DEF Makes, IsAggregated
<1>4. n \in Nat \ {0} /\ Root(leaves) = arrived.stateRootHash
  BY DEF BackendAccepts, SdkAccepts, Reconstructed, ProofsInv, ReadableBatch
<1>5. \A i \in 1 .. n :
        leaves[i] = computeLeafHash(arrived.entries[i].address, arrived.entries[i].score)
  BY DEF BackendAccepts, SdkAccepts, EntryChecks
<1>6. Len(leaves) = n
  BY <1>4
<1>7. Len(state) = Len(e) /\ state[j] = computeLeafHash(e[j].address, e[j].score)
  BY <1>3 DEF StateLeaves, Leaf
<1> HIDE DEF state, leaves, n
<1>8. computeMerkleRoot(state[j], getProof(state, j)) = Root(leaves)
  BY <1>1, <1>3, <1>4, <1>7, MerkleCompleteness
<1>9. Len(getProof(state, j)) \in Nat
  BY <1>3, <1>7, PathsAreFinite
<1>10. \A i \in 1 .. Len(leaves) : NoNode(leaves[i])
  BY <1>5, <1>6, LeavesAreNoNodes
<1>11. NoNode(state[j])
  BY <1>7, LeavesAreNoNodes
<1>12. PICK i \in 1 .. n : leaves[i] = state[j]
  BY <1>4, <1>6, <1>8, <1>9, <1>10, <1>11, MerkleSoundness
<1>13. e[j].address = arrived.entries[i].address /\ e[j].score = arrived.entries[i].score
  BY <1>5, <1>7, <1>12 DEF computeLeafHash
<1> QED BY <1>3, <1>13 DEF n

\* The claims of a batch, entry by entry.
LEMMA ClaimsOf ==
    ASSUME NEW b, DOMAIN b.entries = 1 .. Len(b.entries)
    PROVE  Claims(b) = {<<b.entries[i].address, b.entries[i].score>> : i \in 1 .. Len(b.entries)}
BY DEF Claims, Range

\* A state of the invariant is one in which batches are sound.
LEMMA InvIsSound == ProofsInv => BatchesAreSound
<1> SUFFICES ASSUME ProofsInv PROVE BatchesAreSound
  OBVIOUS
<1>1. MadeBatchesVerify
  <2> SUFFICES ASSUME arrived \in Range(made), arrived.ledgerHeaderHash = trusted
               PROVE  SdkAccepts(arrived) /\ BackendAccepts(arrived)
    BY DEF MadeBatchesVerify
  <2>1. arrived \in MadeBatches
    BY LenProperties, ElementOfSeq DEF ProofsInv, Range
  <2> QED BY <2>1, MadeBatchVerifies
<1>2. ASSUME arrived # NoBatch, SdkAccepts(arrived)
      PROVE  /\ made[Anchor] \in MadeBatches
             /\ DOMAIN made[Anchor].entries = 1 .. Len(made[Anchor].entries)
             /\ DOMAIN arrived.entries = 1 .. Len(arrived.entries)
  <2>1. made[Anchor] \in MadeBatches
    BY <1>2, AnchoredRoot DEF SdkAccepts
  <2>2. DOMAIN made[Anchor].entries = 1 .. Len(made[Anchor].entries)
    BY <2>1, MadeIsReadable
  <2>3. DOMAIN arrived.entries = 1 .. Len(arrived.entries)
    BY <1>2 DEF ProofsInv, ReadableBatch
  <2> QED BY <2>1, <2>2, <2>3
<1>3. ASSUME arrived # NoBatch, SdkAccepts(arrived) PROVE Claims(arrived) \subseteq Claims(made[Anchor])
  <2> DEFINE b == made[Anchor]
  <2>1. \A i \in 1 .. Len(arrived.entries) : \E j \in 1 .. Len(b.entries) :
            b.entries[j].address = arrived.entries[i].address /\ b.entries[j].score = arrived.entries[i].score
    BY <1>3, AcceptedEntriesWereProved
  <2> HIDE DEF b
  <2>2. /\ Claims(arrived) = {<<arrived.entries[i].address, arrived.entries[i].score>> : i \in 1 .. Len(arrived.entries)}
        /\ Claims(b) = {<<b.entries[i].address, b.entries[i].score>> : i \in 1 .. Len(b.entries)}
    BY <1>2, <1>3, ClaimsOf DEF b
  <2>3. Claims(arrived) \subseteq Claims(b)
    BY <2>1, <2>2
  <2> QED BY <2>3 DEF b
<1>4. ASSUME arrived # NoBatch, BackendAccepts(arrived)
      PROVE  /\ Claims(arrived) = Claims(made[Anchor])
             /\ Len(arrived.entries) = Len(made[Anchor].entries)
  <2> DEFINE b == made[Anchor]
  <2>0. SdkAccepts(arrived)
    BY <1>4 DEF BackendAccepts
  <2>1. \A j \in 1 .. Len(b.entries) : \E i \in 1 .. Len(arrived.entries) :
            b.entries[j].address = arrived.entries[i].address /\ b.entries[j].score = arrived.entries[i].score
    BY <1>4, TrustedEntriesArrive
  <2>2. \A i \in 1 .. Len(arrived.entries) : \E j \in 1 .. Len(b.entries) :
            b.entries[j].address = arrived.entries[i].address /\ b.entries[j].score = arrived.entries[i].score
    BY <1>4, <2>0, AcceptedEntriesWereProved
  <2>3. b \in MadeBatches
    BY <1>2, <1>4, <2>0
  <2> HIDE DEF b
  <2>4. /\ Claims(arrived) = {<<arrived.entries[i].address, arrived.entries[i].score>> : i \in 1 .. Len(arrived.entries)}
        /\ Claims(b) = {<<b.entries[i].address, b.entries[i].score>> : i \in 1 .. Len(b.entries)}
    BY <1>2, <1>4, <2>0, ClaimsOf DEF b
  <2>5. Claims(arrived) = Claims(b)
    <3>1. Claims(arrived) \subseteq Claims(b)
      BY <2>2, <2>4
    <3>2. Claims(b) \subseteq Claims(arrived)
      BY <2>1, <2>4
    <3> QED BY <3>1, <3>2
  <2>6. /\ Len(b.entries) \in Nat /\ Len(arrived.entries) \in Nat
        /\ \A j \in 1 .. Len(b.entries) : b.entries[j].address \in Int
        /\ \A i \in 1 .. Len(arrived.entries) : arrived.entries[i].address \in Int
    BY <1>4, <2>3, MadeIsReadable DEF ProofsInv, ReadableBatch, Readable
  <2>7. StrictlySorted(arrived.entries) /\ StrictlySorted(b.entries)
    <3>1. PICK e, k : Makes(e, k, b)
      BY <2>3, BatchShape
    <3>2. /\ Len(e) \in Nat /\ Len(b.entries) = Len(e) /\ StrictlySorted(e)
          /\ \A j \in 1 .. Len(e) : b.entries[j].address = e[j].address
      BY <3>1 DEF Makes, IsAggregated
    <3>3. ASSUME NEW j \in 2 .. Len(b.entries)
          PROVE  b.entries[j].address > b.entries[j - 1].address
      <4>1. j \in 2 .. Len(e) /\ j \in 1 .. Len(e) /\ j - 1 \in 1 .. Len(e)
        BY <3>2
      <4>2. e[j].address > e[j - 1].address
        BY <3>2, <4>1 DEF StrictlySorted
      <4>3. b.entries[j].address = e[j].address /\ b.entries[j - 1].address = e[j - 1].address
        BY <3>2, <4>1
      <4> QED BY <4>2, <4>3
    <3>4. StrictlySorted(b.entries)
      BY <3>3 DEF StrictlySorted
    <3> QED BY <1>4, <3>4 DEF BackendAccepts
  <2> DEFINE theirs == [i \in 1 .. Len(arrived.entries) |-> arrived.entries[i].address]
             ours == [j \in 1 .. Len(b.entries) |-> b.entries[j].address]
  <2>8. Cardinality({theirs[i] : i \in 1 .. Len(arrived.entries)}) = Len(arrived.entries)
    <3>1. /\ \A i \in 1 .. Len(arrived.entries) : theirs[i] \in Int
          /\ \A i \in 2 .. Len(arrived.entries) : theirs[i] > theirs[i - 1]
      BY <2>6, <2>7 DEF StrictlySorted
    <3> HIDE DEF theirs
    <3> QED BY <2>6, <3>1, IncreasingIsDistinct
  <2>9. Cardinality({ours[j] : j \in 1 .. Len(b.entries)}) = Len(b.entries)
    <3>1. /\ \A j \in 1 .. Len(b.entries) : ours[j] \in Int
          /\ \A j \in 2 .. Len(b.entries) : ours[j] > ours[j - 1]
      BY <2>6, <2>7 DEF StrictlySorted
    <3> HIDE DEF ours
    <3> QED BY <2>6, <3>1, IncreasingIsDistinct
  <2>10. {theirs[i] : i \in 1 .. Len(arrived.entries)} = {ours[j] : j \in 1 .. Len(b.entries)}
    <3>1. {theirs[i] : i \in 1 .. Len(arrived.entries)} \subseteq {ours[j] : j \in 1 .. Len(b.entries)}
      BY <2>2
    <3>2. {ours[j] : j \in 1 .. Len(b.entries)} \subseteq {theirs[i] : i \in 1 .. Len(arrived.entries)}
      <4>1. \A j \in 1 .. Len(b.entries) : \E i \in 1 .. Len(arrived.entries) : theirs[i] = ours[j]
        BY <2>1
      <4> HIDE DEF theirs, ours
      <4> QED BY <4>1
    <3> QED BY <3>1, <3>2
  <2>11. Len(arrived.entries) = Len(b.entries)
    BY <2>8, <2>9, <2>10
  <2> QED BY <2>5, <2>11 DEF b
<1> QED BY <1>1, <1>3, <1>4 DEF BatchesAreSound, AcceptedWasProved, BackendAcceptsWholeBatches

\* Whatever is changed or put together on the way, the SDK takes no entry that the
\* trusted header does not prove, and the backend takes nothing but the whole batch.
THEOREM BatchesStaySound == ProofsSpec => []BatchesAreSound
BY ProofsStart, ProofsStep, InvIsSound, PTL DEF ProofsSpec
-----------------------------------------------------------------------------
(***************************************************************************)
(* The batching engine, for any accounts and any number of calls at once:  *)
(* what holds of the queue in memory, its file and the calls before the    *)
(* first mishap.                                                           *)
(***************************************************************************)

EngineCall ==
    [awaits : {"nothing", "read", "turn", "write", "rename", "rename again", "delivery"},
     op : {"none", "start", "enqueue", "flush", "drain", "replace"},
     account : ScoredAccounts \cup {None}, score : 0 .. MaxScores,
     batch : Queues, payload : Queues]

BatchTypeOK ==
    /\ items \in Queues /\ newest \in Queues
    /\ file \in Queues \cup {None} /\ tmp \in Queues \cup {None}
    /\ batchCall \in [BatchCalls -> EngineCall]
    /\ restored \in BOOLEAN
    /\ updates \in 0 .. MaxScores

\* The queue in memory is the one on disk.
InStep == file = items \/ (file = None /\ items = EmptyQueue)

\* A call holds a batch from the drain to the delivery, and what it persists is the queue.
CallIsSound(call) ==
    /\ call.batch # EmptyQueue => call.awaits \in {"write", "rename", "delivery"}
    /\ call.awaits \notin {"nothing", "read"} => restored
    /\ call.awaits \in {"write", "rename"} => call.payload = items
    /\ call.awaits \in {"write", "rename"} /\ call.op = "replace" => call.batch = items
    /\ call.awaits \in {"write", "rename"} /\ call.op \notin {"drain", "replace"}
           => call.batch = EmptyQueue
    /\ call.awaits = "rename" => tmp = call.payload
    /\ call.awaits # "rename again"

Orderly ==
    /\ \A c \in BatchCalls : CallIsSound(batchCall[c])
    /\ \A c, d \in BatchCalls : Persisting(c) /\ Persisting(d) => c = d
    /\ restored /\ (\A c \in BatchCalls : ~Persisting(c)) => InStep
    /\ ~restored => items = EmptyQueue

BatchInv == BatchTypeOK /\ NothingIsDropped /\ (mishaps = {} => Orderly)

\* The scores that are somewhere: the conclusion of NothingIsDropped.
ScoresAreSomewhere ==
    \A a \in Buffered(newest) : newest[a] \in {items[a]} \cup InFlight(a) \cup sent \cup OnDisk(a)

\* A step of the engine before the first mishap, from a state as BatchInv says.
QuietStep == BatchTypeOK /\ Orderly /\ ScoresAreSomewhere /\ mishaps' = {}

LEMMA NoneIsNoQueue == None \notin Queues /\ None \notin ScoredAccounts
BY ProofBatchingAssumption DEF Queues

LEMMA EmptyIsQueue == EmptyQueue \in Queues /\ BatchIdle \in EngineCall
BY ProofBatchingAssumption DEF EmptyQueue, Queues, BatchIdle, EngineCall

LEMMA FirstQueue == BatchInit => BatchInv
<1>1. ASSUME BatchInit PROVE BatchTypeOK
      <2>1. batchCall \in [BatchCalls -> EngineCall] BY <1>1, EmptyIsQueue DEF BatchInit
      <2>2. updates \in 0 .. MaxScores BY <1>1, ProofBatchingAssumption DEF BatchInit
      <2> QED BY <1>1, <2>1, <2>2, EmptyIsQueue DEF BatchInit, BatchTypeOK
<1>2. ASSUME BatchInit PROVE NothingIsDropped
      BY <1>2 DEF BatchInit, NothingIsDropped, Buffered, EmptyQueue
<1>3. ASSUME BatchInit PROVE Orderly
      BY <1>3 DEF BatchInit, Orderly, CallIsSound, Persisting, BatchIdle, EmptyQueue
<1> QED BY <1>1, <1>2, <1>3 DEF BatchInv

\* What the calls are after a step of one of them.
LEMMA OneCallMoves ==
    ASSUME BatchTypeOK, NEW c \in BatchCalls, NEW call, Suspend(c, call)
    PROVE  /\ batchCall'[c] = call
           /\ \A d \in BatchCalls \ {c} : batchCall'[d] = batchCall[d]
           /\ call \in EngineCall => batchCall' \in [BatchCalls -> EngineCall]
BY DEF BatchTypeOK, Suspend

LEMMA BatchTypeHolds == BatchTypeOK /\ [BatchNext]_batchVars => BatchTypeOK'
<1> SUFFICES ASSUME BatchTypeOK, [BatchNext]_batchVars PROVE BatchTypeOK' OBVIOUS
<1> USE ProofBatchingAssumption, NoneIsNoQueue, EmptyIsQueue
<1>q. EmptyQueue \in Queues /\ BatchIdle \in EngineCall OBVIOUS
<1>i. BatchIdle.awaits = "nothing" /\ BatchIdle.op = "none" /\ BatchIdle.account = None
      /\ BatchIdle.score = 0 /\ BatchIdle.batch = EmptyQueue /\ BatchIdle.payload = EmptyQueue
      BY DEF BatchIdle
<1>c. \A c \in BatchCalls : batchCall[c] \in EngineCall BY DEF BatchTypeOK
<1>1. ASSUME NEW c \in BatchCalls, StartService(c) PROVE BatchTypeOK'
      <2>1. [[BatchIdle EXCEPT !.op = "start"] EXCEPT !.awaits = IF restored THEN "turn" ELSE "read"]
              \in EngineCall BY <1>q DEF EngineCall
      <2> QED BY <1>1, <2>1, OneCallMoves DEF StartService, AwaitRestore, BatchTypeOK
<1>2. ASSUME NEW c \in BatchCalls, NEW a \in ScoredAccounts, Enqueue(c, a) PROVE BatchTypeOK'
      <2>0. updates + 1 \in 0 .. MaxScores BY <1>2 DEF Enqueue, BatchTypeOK
      <2>1. [[BatchIdle EXCEPT !.op = "enqueue", !.account = a, !.score = updates + 1]
                EXCEPT !.awaits = IF restored THEN "turn" ELSE "read"] \in EngineCall
            BY <1>q, <2>0 DEF EngineCall
      <2> QED BY <1>2, <2>0, <2>1, OneCallMoves DEF Enqueue, AwaitRestore, BatchTypeOK
<1>3. ASSUME NEW c \in BatchCalls, Flush(c) PROVE BatchTypeOK'
      <2>1. [[BatchIdle EXCEPT !.op = "flush"] EXCEPT !.awaits = IF restored THEN "turn" ELSE "read"]
              \in EngineCall BY <1>q DEF EngineCall
      <2> QED BY <1>3, <2>1, OneCallMoves DEF Flush, AwaitRestore, BatchTypeOK
<1>4. ASSUME NEW c \in BatchCalls, Restored(c) PROVE BatchTypeOK'
      <2>1. [batchCall[c] EXCEPT !.awaits = "turn"] \in EngineCall BY <1>c DEF EngineCall
      <2>2. batchCall' \in [BatchCalls -> EngineCall]
            BY <1>4, <1>q, <2>1, OneCallMoves DEF Restored, Return
      <2> QED BY <1>4, <2>2 DEF Restored, BatchTypeOK
<1>5. ASSUME NEW c \in BatchCalls, Buffer(c) PROVE BatchTypeOK'
      <2> DEFINE filled == [items EXCEPT ![batchCall[c].account] = batchCall[c].score]
                 new == [newest EXCEPT ![batchCall[c].account] = batchCall[c].score]
      <2>0. batchCall[c].score \in 0 .. MaxScores BY <1>c DEF EngineCall
      <2>1. filled \in Queues /\ new \in Queues BY <2>0 DEF BatchTypeOK, Queues
      <2> HIDE DEF filled
      <2>2. [batchCall[c] EXCEPT !.awaits = "write", !.op = "enqueue", !.payload = filled] \in EngineCall
            BY <1>c, <2>1 DEF EngineCall
      <2>3. batchCall' \in [BatchCalls -> EngineCall]
            BY <1>5, <2>2, OneCallMoves DEF Buffer, Persist, filled
      <2> QED BY <1>5, <2>1, <2>3 DEF Buffer, BatchTypeOK, filled
<1>6. ASSUME NEW c \in BatchCalls, Drain(c) PROVE BatchTypeOK'
      <2>2. [[batchCall[c] EXCEPT !.batch = items]
                EXCEPT !.awaits = "write", !.op = "drain", !.payload = EmptyQueue] \in EngineCall
            BY <1>c, <1>q DEF EngineCall, BatchTypeOK
      <2>3. batchCall' \in [BatchCalls -> EngineCall] BY <1>6, <2>2, OneCallMoves DEF Drain, Persist
      <2> QED BY <1>6, <1>q, <2>3 DEF Drain, BatchTypeOK
<1>7. ASSUME NEW c \in BatchCalls, NothingToDrain(c) PROVE BatchTypeOK'
      BY <1>7, <1>q, OneCallMoves DEF NothingToDrain, Return, BatchTypeOK
<1>8. ASSUME NEW c \in BatchCalls, WriteFile(c) PROVE BatchTypeOK'
      <2>1. [batchCall[c] EXCEPT !.awaits = "rename"] \in EngineCall /\ batchCall[c].payload \in Queues
            BY <1>c DEF EngineCall
      <2> QED BY <1>8, <2>1, OneCallMoves DEF WriteFile, BatchTypeOK
<1>9. ASSUME NEW c \in BatchCalls, Rename(c) PROVE BatchTypeOK'
      <2>1. [batchCall[c] EXCEPT !.awaits = "delivery"] \in EngineCall
            /\ [BatchIdle EXCEPT !.awaits = "turn", !.op = "flush"] \in EngineCall
            BY <1>c, <1>q DEF EngineCall
      <2>2. PICK call \in EngineCall : Suspend(c, call)
            BY <1>9, <1>q, <2>1 DEF Rename, Persisted, Return
      <2>3. batchCall' \in [BatchCalls -> EngineCall] BY <2>2, OneCallMoves
      <2> QED BY <1>9, <2>3 DEF Rename, BatchTypeOK
<1>10. ASSUME NEW c \in BatchCalls, RenameFails(c) PROVE BatchTypeOK'
      <2>1. [batchCall[c] EXCEPT !.awaits = "rename again"] \in EngineCall BY <1>c DEF EngineCall
      <2>2. batchCall' \in [BatchCalls -> EngineCall]
            BY <1>10, <1>q, <2>1, OneCallMoves DEF RenameFails, PersistFails, Return
      <2> QED BY <1>10, <2>2 DEF RenameFails, BatchTypeOK
<1>11. ASSUME NEW c \in BatchCalls, DeliverBatch(c) PROVE BatchTypeOK'
      BY <1>11, <1>q, OneCallMoves DEF DeliverBatch, Return, BatchTypeOK
<1>12. ASSUME NEW c \in BatchCalls, WriteFails(c) PROVE BatchTypeOK'
      BY <1>12, <1>q, OneCallMoves DEF WriteFails, PersistFails, Return, BatchTypeOK
<1>13. ASSUME NEW c \in BatchCalls, DeliveryFails(c) PROVE BatchTypeOK'
      <2>1. batchCall[c].batch \in Queues
            /\ [batchCall[c] EXCEPT !.awaits = "write", !.op = "replace", !.payload = batchCall[c].batch]
                 \in EngineCall BY <1>c DEF EngineCall
      <2>2. batchCall' \in [BatchCalls -> EngineCall] BY <1>13, <2>1, OneCallMoves DEF DeliveryFails
      <2> QED BY <1>13, <2>1, <2>2 DEF DeliveryFails, BatchTypeOK
<1>14. ASSUME CrashRelayer PROVE BatchTypeOK'
      BY <1>14, <1>q DEF CrashRelayer, BatchTypeOK
<1>15. ASSUME UNCHANGED batchVars PROVE BatchTypeOK'
      BY <1>15 DEF batchVars, BatchTypeOK
<1> QED BY <1>1, <1>2, <1>3, <1>4, <1>5, <1>6, <1>7, <1>8, <1>9, <1>10, <1>11, <1>12, <1>13, <1>14,
           <1>15 DEF BatchNext, CallStep, TimerTick

\* A step of one call that changes no queue, while nobody else needs to be asked:
\* a call that persists nothing and holds no batch waits for the file or for its turn.
LEMMA WaitingIsQuiet ==
    ASSUME QuietStep, NEW c \in BatchCalls, NEW call \in EngineCall, Suspend(c, call),
           call.batch = batchCall[c].batch, batchCall[c].batch = EmptyQueue,
           call.awaits \in {"nothing", "read", "turn"},
           call.awaits = "turn" => restored', ~Persisting(c),
           UNCHANGED <<items, file, tmp, newest, sent>>, restored' = restored
    PROVE  Orderly' /\ ScoresAreSomewhere'
<1>1. batchCall'[c] = call /\ \A d \in BatchCalls \ {c} : batchCall'[d] = batchCall[d]
      BY OneCallMoves DEF QuietStep
<1>2. \A d \in BatchCalls : Persisting(d)' <=> Persisting(d)
      BY <1>1 DEF Persisting
<1>3. \A d \in BatchCalls : CallIsSound(batchCall[d])' BY <1>1 DEF QuietStep, Orderly, CallIsSound
<1>4. Orderly' BY <1>2, <1>3 DEF QuietStep, Orderly, InStep
<1>5. \A a \in Buffered(newest) : InFlight(a) \subseteq InFlight(a)'
      <2> SUFFICES ASSUME NEW a \in Buffered(newest), NEW d \in BatchCalls
                   PROVE  batchCall[d].batch[a] \in InFlight(a)' BY DEF InFlight
      <2>1. batchCall'[d].batch = batchCall[d].batch BY <1>1
      <2> QED BY <2>1 DEF InFlight
<1> QED BY <1>4, <1>5 DEF QuietStep, ScoresAreSomewhere, Buffered, OnDisk

\* What a call holds before a step, when no mishap has happened yet.
LEMMA QuietCall ==
    ASSUME QuietStep, NEW c \in BatchCalls
    PROVE  /\ CallIsSound(batchCall[c]) /\ batchCall[c] \in EngineCall
           /\ \A d \in BatchCalls : Persisting(c) /\ Persisting(d) => c = d
           /\ batchCall[c] = BatchIdle => batchCall[c].batch = EmptyQueue
BY DEF QuietStep, Orderly, BatchTypeOK, BatchIdle

LEMMA BeginningIsQuiet ==
    ASSUME QuietStep, NEW c \in BatchCalls,
           StartService(c) \/ (\E a \in ScoredAccounts : Enqueue(c, a)) \/ Flush(c)
    PROVE  Orderly' /\ ScoresAreSomewhere'
<1> DEFINE Waiting(call) == [call EXCEPT !.awaits = IF restored THEN "turn" ELSE "read"]
<1>i. BatchIdle \in EngineCall /\ BatchIdle.batch = EmptyQueue /\ BatchIdle.awaits = "nothing"
      BY EmptyIsQueue DEF BatchIdle
<1>1. PICK call \in EngineCall : Suspend(c, Waiting(call)) /\ call.batch = EmptyQueue
                                 /\ Waiting(call) \in EngineCall
      <2>1. CASE StartService(c)
            <3>1. [BatchIdle EXCEPT !.op = "start"] \in EngineCall
                  /\ [BatchIdle EXCEPT !.op = "start"].batch = EmptyQueue
                  /\ Waiting([BatchIdle EXCEPT !.op = "start"]) \in EngineCall BY <1>i DEF EngineCall
            <3> QED BY <2>1, <3>1 DEF StartService, AwaitRestore
      <2>2. ASSUME NEW a \in ScoredAccounts, Enqueue(c, a)
            PROVE  \E call \in EngineCall : Suspend(c, Waiting(call)) /\ call.batch = EmptyQueue
                                 /\ Waiting(call) \in EngineCall
            <3>u. updates \in 0 .. MaxScores BY DEF QuietStep, BatchTypeOK
            <3>l. updates < MaxScores BY <2>2 DEF Enqueue
            <3>0. updates + 1 \in 0 .. MaxScores BY <3>u, <3>l, ProofBatchingAssumption
            <3> DEFINE new == [BatchIdle EXCEPT !.op = "enqueue", !.account = a, !.score = updates + 1]
            <3>1. new \in EngineCall /\ new.batch = EmptyQueue /\ Waiting(new) \in EngineCall
                  BY <1>i, <3>0 DEF EngineCall
            <3> QED BY <2>2, <3>1 DEF Enqueue, AwaitRestore
      <2>3. CASE Flush(c)
            <3>1. [BatchIdle EXCEPT !.op = "flush"] \in EngineCall
                  /\ [BatchIdle EXCEPT !.op = "flush"].batch = EmptyQueue
                  /\ Waiting([BatchIdle EXCEPT !.op = "flush"]) \in EngineCall BY <1>i DEF EngineCall
            <3> QED BY <2>3, <3>1 DEF Flush, AwaitRestore
      <2> QED BY <2>1, <2>2, <2>3
<1>2. Waiting(call).batch = EmptyQueue /\ Waiting(call).awaits = IF restored THEN "turn" ELSE "read"
      BY <1>1 DEF EngineCall
<1>3. batchCall[c] = BatchIdle /\ UNCHANGED <<items, file, tmp, newest, sent, restored>>
      BY DEF StartService, Enqueue, Flush
<1>4. batchCall[c].batch = EmptyQueue /\ ~Persisting(c) BY <1>3, <1>i DEF Persisting
<1>5. Waiting(call).awaits \in {"nothing", "read", "turn"} /\ (Waiting(call).awaits = "turn" => restored)
      BY <1>2
<1> HIDE DEF Waiting
<1> QED BY <1>1, <1>2, <1>3, <1>4, <1>5, WaitingIsQuiet

LEMMA RestoredIsQuiet ==
    ASSUME QuietStep, NEW c \in BatchCalls, Restored(c), mishaps = {}
    PROVE  Orderly' /\ ScoresAreSomewhere'
<1>1. ~restored BY DEF Restored, QuietStep
<1>2. \A d \in BatchCalls : batchCall[d].awaits \in {"nothing", "read"}
                              /\ batchCall[d].batch = EmptyQueue /\ batchCall[d] \in EngineCall
      BY <1>1 DEF QuietStep, Orderly, CallIsSound, BatchTypeOK, EngineCall
<1>3. items = EmptyQueue BY <1>1 DEF QuietStep, Orderly
<1>4. PICK call : Suspend(c, call) /\ call.awaits \in {"nothing", "turn"} /\ call.batch = EmptyQueue
      <2>1. CASE batchCall[c].op = "start"
            <3>1. BatchIdle.awaits = "nothing" /\ BatchIdle.batch = EmptyQueue BY DEF BatchIdle
            <3> QED BY <2>1, <3>1 DEF Restored, Return
      <2>2. CASE batchCall[c].op # "start"
            <3>1. [batchCall[c] EXCEPT !.awaits = "turn"].awaits = "turn"
                  /\ [batchCall[c] EXCEPT !.awaits = "turn"].batch = EmptyQueue
                  BY <1>2 DEF EngineCall
            <3> QED BY <2>2, <3>1 DEF Restored
      <2> QED BY <2>1, <2>2
<1>5. \A d \in BatchCalls : batchCall'[d].awaits \in {"nothing", "read", "turn"}
                              /\ batchCall'[d].batch = EmptyQueue
      BY <1>2, <1>4, OneCallMoves DEF QuietStep
<1>6. Orderly'
      <2>1. \A d \in BatchCalls : CallIsSound(batchCall[d])' BY <1>5 DEF Restored, CallIsSound
      <2>2. \A d \in BatchCalls : ~Persisting(d)' BY <1>5 DEF Persisting
      <2>3. InStep' BY <1>3 DEF Restored, InStep
      <2> QED BY <2>1, <2>2, <2>3 DEF Orderly, Restored
<1>7. ScoresAreSomewhere'
      <2> SUFFICES ASSUME NEW a \in Buffered(newest)
                   PROVE  newest[a] \in {items'[a]} \cup sent
            BY DEF ScoresAreSomewhere, Restored, Buffered
      <2>1. newest[a] # 0 /\ a \in ScoredAccounts BY DEF Buffered
      <2>2. items[a] = 0 /\ InFlight(a) \subseteq {0}
            BY <1>2, <1>3, <2>1 DEF InFlight, EmptyQueue
      <2>3. newest[a] \in sent \cup OnDisk(a) BY <2>1, <2>2 DEF QuietStep, ScoresAreSomewhere
      <2> QED BY <2>3 DEF OnDisk, Restored
<1> QED BY <1>6, <1>7

\* A call that begins to persist the queue, when no other call is persisting.
LEMMA PersistingIsQuiet ==
    ASSUME QuietStep, NEW c \in BatchCalls, NEW call \in EngineCall, Suspend(c, call),
           call.awaits = "write", call.payload = items', restored, restored' = restored,
           call.op = "replace" => call.batch = items',
           call.op \notin {"drain", "replace"} => call.batch = EmptyQueue,
           \A d \in BatchCalls \ {c} : ~Persisting(d)
    PROVE  Orderly'
<1>1. batchCall'[c] = call /\ \A d \in BatchCalls \ {c} : batchCall'[d] = batchCall[d]
      BY OneCallMoves DEF QuietStep
<1>2. Persisting(c)' /\ \A d \in BatchCalls \ {c} : ~Persisting(d)' BY <1>1 DEF Persisting
<1>3. ASSUME NEW d \in BatchCalls PROVE CallIsSound(batchCall[d])'
      <2>1. CASE d = c BY <1>1, <2>1 DEF CallIsSound
      <2>2. CASE d # c
            <3>1. CallIsSound(batchCall[d]) /\ batchCall'[d] = batchCall[d]
                  BY <1>1, <2>2 DEF QuietStep, Orderly
            <3>2. batchCall[d].awaits \notin {"write", "rename", "rename again"}
                  BY <2>2 DEF Persisting
            <3> QED BY <3>1, <3>2 DEF CallIsSound
      <2> QED BY <2>1, <2>2
<1> QED BY <1>2, <1>3 DEF Orderly

LEMMA BufferIsQuiet ==
    ASSUME QuietStep, NEW c \in BatchCalls, Buffer(c)
    PROVE  Orderly' /\ ScoresAreSomewhere'
<1> DEFINE filled == [items EXCEPT ![batchCall[c].account] = batchCall[c].score]
           call == [batchCall[c] EXCEPT !.awaits = "write", !.op = "enqueue", !.payload = filled]
<1>1. /\ batchCall[c].awaits = "turn" /\ items' = filled /\ restored' = restored
      /\ newest' = [newest EXCEPT ![batchCall[c].account] = batchCall[c].score]
      /\ UNCHANGED <<file, sent>> BY DEF Buffer
<1>2. batchCall[c] \in EngineCall /\ CallIsSound(batchCall[c]) BY QuietCall
<1>3. restored /\ batchCall[c].batch = EmptyQueue BY <1>1, <1>2 DEF CallIsSound
<1>4. Suspend(c, call) BY DEF Buffer, Persist
<1>5. \A d \in BatchCalls \ {c} : ~Persisting(d) BY DEF Buffer, Persist, QuietStep
<1>6. filled \in Queues BY <1>2 DEF QuietStep, BatchTypeOK, Queues, EngineCall
<1> HIDE DEF filled
<1>7. call \in EngineCall /\ call.awaits = "write" /\ call.op = "enqueue" /\ call.payload = filled
      /\ call.batch = EmptyQueue BY <1>2, <1>3, <1>6 DEF EngineCall
<1> HIDE DEF call
<1>8. Orderly' BY <1>1, <1>3, <1>4, <1>5, <1>7, PersistingIsQuiet
<1>9. ASSUME NEW a \in Buffered(newest')
      PROVE  newest'[a] \in {items'[a]} \cup InFlight(a)' \cup sent'
      <2>0. a \in ScoredAccounts /\ newest'[a] # 0 BY DEF Buffered
      <2>1. CASE a = batchCall[c].account
            <3>1. newest'[a] = batchCall[c].score BY <1>1, <2>0, <2>1 DEF QuietStep, BatchTypeOK, Queues
            <3>2. items'[a] = batchCall[c].score
                  BY <1>1, <2>0, <2>1 DEF QuietStep, BatchTypeOK, Queues, filled
            <3> QED BY <3>1, <3>2
      <2>2. CASE a # batchCall[c].account
            <3>1. newest'[a] = newest[a] BY <1>1, <2>0, <2>2 DEF QuietStep, BatchTypeOK, Queues
            <3>2. items'[a] = items[a]
                  BY <1>1, <2>0, <2>2 DEF QuietStep, BatchTypeOK, Queues, filled
            <3>3. \A d \in BatchCalls : batchCall'[d].batch = batchCall[d].batch
                  BY <1>3, <1>4, <1>7, OneCallMoves DEF QuietStep
            <3>4. InFlight(a)' = InFlight(a) BY <3>3 DEF InFlight
            <3>5. newest[a] \in {items[a]} \cup InFlight(a) \cup sent
                  BY <1>3, <2>0, <3>1 DEF QuietStep, ScoresAreSomewhere, Buffered, OnDisk
            <3> QED BY <1>1, <3>1, <3>2, <3>4, <3>5
      <2> QED BY <2>1, <2>2
<1> QED BY <1>8, <1>9 DEF ScoresAreSomewhere, Buffered

LEMMA DrainIsQuiet ==
    ASSUME QuietStep, NEW c \in BatchCalls, Drain(c)
    PROVE  Orderly' /\ ScoresAreSomewhere'
<1> DEFINE call == [[batchCall[c] EXCEPT !.batch = items]
                        EXCEPT !.awaits = "write", !.op = "drain", !.payload = EmptyQueue]
<1>1. /\ batchCall[c].awaits = "turn" /\ items' = EmptyQueue /\ restored' = restored
      /\ UNCHANGED <<file, newest, sent>> BY DEF Drain
<1>2. batchCall[c] \in EngineCall /\ CallIsSound(batchCall[c]) BY QuietCall
<1>3. restored /\ batchCall[c].batch = EmptyQueue BY <1>1, <1>2 DEF CallIsSound
<1>4. Suspend(c, call) BY DEF Drain, Persist
<1>5. \A d \in BatchCalls \ {c} : ~Persisting(d) BY DEF Drain, Persist, QuietStep
<1>7. call \in EngineCall /\ call.awaits = "write" /\ call.op = "drain" /\ call.payload = EmptyQueue
      /\ call.batch = items BY <1>2, EmptyIsQueue DEF EngineCall, QuietStep, BatchTypeOK
<1> HIDE DEF call
<1>8. Orderly' BY <1>1, <1>3, <1>4, <1>5, <1>7, PersistingIsQuiet
<1>9. ASSUME NEW a \in Buffered(newest)
      PROVE  newest[a] \in InFlight(a)' \cup sent
      <2>0. a \in ScoredAccounts /\ newest[a] # 0 BY DEF Buffered
      <2>1. newest[a] \in {items[a]} \cup InFlight(a) \cup sent
            BY <1>3 DEF QuietStep, ScoresAreSomewhere, OnDisk
      <2>2. batchCall'[c].batch = items /\ \A d \in BatchCalls \ {c} : batchCall'[d] = batchCall[d]
            BY <1>4, <1>7, OneCallMoves DEF QuietStep
      <2>3. items[a] \in InFlight(a)' BY <2>2 DEF InFlight
      <2>4. ASSUME NEW d \in BatchCalls, newest[a] = batchCall[d].batch[a] PROVE newest[a] \in InFlight(a)'
            <3>1. d # c BY <1>3, <2>0, <2>4 DEF EmptyQueue
            <3> QED BY <2>2, <2>4, <3>1 DEF InFlight
      <2> QED BY <2>1, <2>3, <2>4 DEF InFlight
<1> QED BY <1>1, <1>8, <1>9 DEF ScoresAreSomewhere, Buffered

LEMMA WriteIsQuiet ==
    ASSUME QuietStep, NEW c \in BatchCalls, WriteFile(c)
    PROVE  Orderly' /\ ScoresAreSomewhere'
<1> DEFINE call == [batchCall[c] EXCEPT !.awaits = "rename"]
<1>1. /\ batchCall[c].awaits = "write" /\ tmp' = batchCall[c].payload /\ Suspend(c, call)
      /\ UNCHANGED <<items, file, restored, newest, sent>> BY DEF WriteFile
<1>2. batchCall[c] \in EngineCall /\ CallIsSound(batchCall[c])
      /\ \A d \in BatchCalls : Persisting(c) /\ Persisting(d) => c = d BY QuietCall
<1>3. call.awaits = "rename" /\ call.op = batchCall[c].op /\ call.batch = batchCall[c].batch
      /\ call.payload = batchCall[c].payload BY <1>2 DEF EngineCall
<1> HIDE DEF call
<1>4. batchCall'[c] = call /\ \A d \in BatchCalls \ {c} : batchCall'[d] = batchCall[d]
      BY <1>1, OneCallMoves DEF QuietStep
<1>5. \A d \in BatchCalls : Persisting(d)' <=> Persisting(d) BY <1>1, <1>3, <1>4 DEF Persisting
<1>6. ASSUME NEW d \in BatchCalls PROVE CallIsSound(batchCall[d])'
      <2>1. CASE d = c BY <1>1, <1>2, <1>3, <1>4, <2>1 DEF CallIsSound
      <2>2. CASE d # c
            <3>1. CallIsSound(batchCall[d]) /\ batchCall'[d] = batchCall[d]
                  BY <1>4, <2>2 DEF QuietStep, Orderly
            <3>2. batchCall[d].awaits \notin {"write", "rename", "rename again"}
                  BY <1>1, <1>2, <2>2 DEF Persisting
            <3> QED BY <1>1, <3>1, <3>2 DEF CallIsSound
      <2> QED BY <2>1, <2>2
<1>7. Orderly' BY <1>1, <1>5, <1>6 DEF QuietStep, Orderly, InStep
<1>8. \A d \in BatchCalls : batchCall'[d].batch = batchCall[d].batch BY <1>3, <1>4
<1>9. \A a \in Buffered(newest) : InFlight(a)' = InFlight(a) BY <1>8 DEF InFlight
<1> QED BY <1>1, <1>7, <1>9 DEF QuietStep, ScoresAreSomewhere, Buffered, OnDisk

\* The rename that ends a persist: what the call holds afterwards is the batch it is to
\* deliver, or nothing; a batch it gives up is the queue again.
LEMMA RenameIsQuiet ==
    ASSUME QuietStep, NEW c \in BatchCalls, Rename(c)
    PROVE  Orderly' /\ ScoresAreSomewhere'
<1>1. /\ batchCall[c].awaits \in {"rename", "rename again"} /\ tmp # None /\ file' = tmp
      /\ UNCHANGED <<items, restored, newest, sent>> BY DEF Rename
<1>2. batchCall[c] \in EngineCall /\ CallIsSound(batchCall[c])
      /\ \A d \in BatchCalls : Persisting(c) /\ Persisting(d) => c = d BY QuietCall
<1>3. batchCall[c].awaits = "rename" /\ restored /\ file' = items
      BY <1>1, <1>2 DEF CallIsSound
<1>4. PICK call : /\ Suspend(c, call) /\ call.awaits \in {"nothing", "turn", "delivery"}
                  /\ call.batch \in {EmptyQueue, batchCall[c].batch}
                  /\ call.awaits # "delivery" => call.batch = EmptyQueue
                  /\ call.batch = EmptyQueue => batchCall[c].batch \in {EmptyQueue, items}
      <2>i. BatchIdle.awaits = "nothing" /\ BatchIdle.batch = EmptyQueue BY DEF BatchIdle
      <2>1. CASE batchCall[c].op = "drain"
            <3> DEFINE next == [batchCall[c] EXCEPT !.awaits = "delivery"]
            <3>1. next.awaits = "delivery" /\ next.batch = batchCall[c].batch BY <1>2 DEF EngineCall
            <3>2. Suspend(c, next) BY <2>1 DEF Rename, Persisted
            <3> HIDE DEF next
            <3> QED BY <3>1, <3>2
      <2>2. CASE batchCall[c].op # "drain"
            <3> DEFINE next == [BatchIdle EXCEPT !.awaits = "turn", !.op = "flush"]
            <3>1. batchCall[c].batch \in {EmptyQueue, items} BY <1>2, <1>3, <2>2 DEF CallIsSound
            <3>2. next.awaits = "turn" /\ next.batch = EmptyQueue BY DEF BatchIdle
            <3>3. Suspend(c, next) \/ Suspend(c, BatchIdle) BY <2>2 DEF Rename, Persisted, Return
            <3> HIDE DEF next
            <3> QED BY <2>i, <3>1, <3>2, <3>3
      <2> QED BY <2>1, <2>2
<1>5. batchCall'[c] = call /\ \A d \in BatchCalls \ {c} : batchCall'[d] = batchCall[d]
      BY <1>4, OneCallMoves DEF QuietStep
<1>6. \A d \in BatchCalls : ~Persisting(d)'
      BY <1>2, <1>3, <1>4, <1>5 DEF Persisting
<1>7. ASSUME NEW d \in BatchCalls PROVE CallIsSound(batchCall[d])'
      <2>1. CASE d = c BY <1>1, <1>3, <1>4, <1>5, <2>1 DEF CallIsSound
      <2>2. CASE d # c
            <3>1. CallIsSound(batchCall[d]) /\ batchCall'[d] = batchCall[d]
                  BY <1>5, <2>2 DEF QuietStep, Orderly
            <3>2. batchCall[d].awaits \notin {"write", "rename", "rename again"}
                  BY <1>2, <1>3, <2>2 DEF Persisting
            <3> QED BY <1>1, <3>1, <3>2 DEF CallIsSound
      <2> QED BY <2>1, <2>2
<1>8. Orderly' BY <1>1, <1>3, <1>6, <1>7 DEF Orderly, InStep
<1>9. ASSUME NEW a \in Buffered(newest)
      PROVE  newest[a] \in {items[a]} \cup InFlight(a)' \cup sent
      <2>0. a \in ScoredAccounts /\ newest[a] # 0 BY DEF Buffered
      <2>1. newest[a] \in {items[a]} \cup InFlight(a) \cup sent
            BY <1>3 DEF QuietStep, ScoresAreSomewhere, OnDisk
      <2>2. ASSUME NEW d \in BatchCalls, newest[a] = batchCall[d].batch[a]
            PROVE  newest[a] \in {items[a]} \cup InFlight(a)'
            <3>1. CASE d # c BY <1>5, <2>2, <3>1 DEF InFlight
            <3>2. CASE d = c /\ call.batch = batchCall[c].batch BY <1>5, <2>2, <3>2 DEF InFlight
            <3>3. CASE d = c /\ call.batch = EmptyQueue
                  <4>1. batchCall[c].batch # EmptyQueue BY <2>0, <2>2, <3>3 DEF EmptyQueue
                  <4> QED BY <1>4, <2>2, <3>3, <4>1
            <3> QED BY <1>4, <3>1, <3>2, <3>3
      <2> QED BY <2>1, <2>2 DEF InFlight
<1> QED BY <1>1, <1>8, <1>9 DEF ScoresAreSomewhere, Buffered

\* As long as no two calls persist at once, a rename finds its file.
LEMMA RenameDoesNotFail == ASSUME QuietStep, NEW c \in BatchCalls, RenameFails(c) PROVE FALSE
<1>1. batchCall[c] \in EngineCall /\ CallIsSound(batchCall[c]) BY QuietCall
<1>2. tmp = batchCall[c].payload /\ tmp \in Queues BY <1>1 DEF RenameFails, CallIsSound, EngineCall
<1> QED BY <1>2, NoneIsNoQueue DEF RenameFails

\* A call that a step leaves alone, with the queue it may be persisting.
LEMMA CallStaysSound ==
    ASSUME NEW d \in BatchCalls, CallIsSound(batchCall[d]), batchCall'[d] = batchCall[d],
           items' = items, tmp' = tmp, restored' = restored
    PROVE  CallIsSound(batchCall[d])'
<1>1. batchCall'[d].batch # EmptyQueue => batchCall'[d].awaits \in {"write", "rename", "delivery"}
      BY DEF CallIsSound
<1>2. batchCall'[d].awaits \notin {"nothing", "read"} => restored' BY DEF CallIsSound
<1>3. batchCall'[d].awaits \in {"write", "rename"} => batchCall'[d].payload = items'
      BY DEF CallIsSound
<1>4. batchCall'[d].awaits \in {"write", "rename"} /\ batchCall'[d].op = "replace"
          => batchCall'[d].batch = items' BY DEF CallIsSound
<1>5. batchCall'[d].awaits \in {"write", "rename"} /\ batchCall'[d].op \notin {"drain", "replace"}
          => batchCall'[d].batch = EmptyQueue BY DEF CallIsSound
<1>6. batchCall'[d].awaits = "rename" => tmp' = batchCall'[d].payload BY DEF CallIsSound
<1>7. batchCall'[d].awaits # "rename again" BY DEF CallIsSound
<1> QED BY <1>1, <1>2, <1>3, <1>4, <1>5, <1>6, <1>7 DEF CallIsSound

LEMMA DeliveryIsQuiet ==
    ASSUME QuietStep, NEW c \in BatchCalls, DeliverBatch(c)
    PROVE  Orderly' /\ ScoresAreSomewhere'
<1>1. /\ batchCall[c].awaits = "delivery" /\ Suspend(c, BatchIdle)
      /\ UNCHANGED <<items, file, newest, tmp>> /\ restored' = restored
      /\ sent' = sent \cup {batchCall[c].batch[a] : a \in Buffered(batchCall[c].batch)}
      BY DEF DeliverBatch, Return
<1>2. batchCall'[c] = BatchIdle /\ \A d \in BatchCalls \ {c} : batchCall'[d] = batchCall[d]
      BY <1>1, OneCallMoves DEF QuietStep
<1>i. BatchIdle.awaits = "nothing" /\ BatchIdle.batch = EmptyQueue BY DEF BatchIdle
<1>3. \A d \in BatchCalls : Persisting(d)' <=> Persisting(d)
      BY <1>1, <1>2, <1>i DEF Persisting
<1>4. \A d \in BatchCalls : CallIsSound(batchCall[d])'
      <2>1. CallIsSound(batchCall[c])' BY <1>2, <1>i DEF CallIsSound
      <2>2. ASSUME NEW d \in BatchCalls \ {c} PROVE CallIsSound(batchCall[d])'
            <3>1. CallIsSound(batchCall[d]) /\ batchCall'[d] = batchCall[d]
                  BY <1>2 DEF QuietStep, Orderly
            <3>2. items' = items /\ tmp' = tmp /\ restored' = restored /\ restored \in BOOLEAN
                  BY <1>1 DEF QuietStep, BatchTypeOK
            <3> QED BY <3>1, <3>2, CallStaysSound
      <2> QED BY <2>1, <2>2
<1>5. Orderly' BY <1>1, <1>3, <1>4 DEF QuietStep, Orderly, InStep
<1>6. ASSUME NEW a \in Buffered(newest)
      PROVE  newest[a] \in {items[a]} \cup InFlight(a)' \cup sent' \cup OnDisk(a)
      <2>0. a \in ScoredAccounts /\ newest[a] # 0 BY DEF Buffered
      <2>1. newest[a] \in {items[a]} \cup InFlight(a) \cup sent \cup OnDisk(a)
            BY DEF QuietStep, ScoresAreSomewhere
      <2>2. ASSUME NEW d \in BatchCalls, newest[a] = batchCall[d].batch[a]
            PROVE  newest[a] \in InFlight(a)' \cup sent'
            <3>1. CASE d # c BY <1>2, <2>2, <3>1 DEF InFlight
            <3>2. CASE d = c
                  <4>1. a \in Buffered(batchCall[c].batch) BY <2>0, <2>2, <3>2 DEF Buffered
                  <4> QED BY <1>1, <2>2, <3>2, <4>1
            <3> QED BY <3>1, <3>2
      <2> QED BY <1>1, <2>1, <2>2 DEF InFlight
<1> QED BY <1>1, <1>5, <1>6 DEF ScoresAreSomewhere, Buffered, OnDisk

LEMMA RefusalIsQuiet ==
    ASSUME QuietStep, NEW c \in BatchCalls, DeliveryFails(c)
    PROVE  Orderly' /\ ScoresAreSomewhere'
<1> DEFINE call == [batchCall[c] EXCEPT !.awaits = "write", !.op = "replace",
                                        !.payload = batchCall[c].batch]
<1>1. /\ batchCall[c].awaits = "delivery" /\ items' = batchCall[c].batch /\ restored' = restored
      /\ UNCHANGED <<file, newest, sent>> BY DEF DeliveryFails
<1>2. batchCall[c] \in EngineCall /\ CallIsSound(batchCall[c]) BY QuietCall
<1>3. restored /\ Buffered(items) = {} BY <1>1, <1>2 DEF CallIsSound, DeliveryFails, QuietStep
<1>4. Suspend(c, call) BY DEF DeliveryFails
<1>5. \A d \in BatchCalls \ {c} : ~Persisting(d) BY DEF DeliveryFails, QuietStep
<1>7. call \in EngineCall /\ call.awaits = "write" /\ call.op = "replace"
      /\ call.payload = batchCall[c].batch /\ call.batch = batchCall[c].batch
      BY <1>2 DEF EngineCall
<1> HIDE DEF call
<1>8. Orderly' BY <1>1, <1>3, <1>4, <1>5, <1>7, PersistingIsQuiet
<1>9. ASSUME NEW a \in Buffered(newest)
      PROVE  newest[a] \in InFlight(a)' \cup sent
      <2>0. a \in ScoredAccounts /\ newest[a] # 0 BY DEF Buffered
      <2>1. newest[a] \in InFlight(a) \cup sent
            BY <1>3, <2>0 DEF QuietStep, ScoresAreSomewhere, OnDisk, Buffered
      <2>2. \A d \in BatchCalls : batchCall'[d].batch = batchCall[d].batch
            BY <1>4, <1>7, OneCallMoves DEF QuietStep
      <2> QED BY <2>1, <2>2 DEF InFlight
<1> QED BY <1>1, <1>8, <1>9 DEF ScoresAreSomewhere, Buffered

LEMMA CrashIsQuiet ==
    ASSUME QuietStep, CrashRelayer
    PROVE  Orderly' /\ ScoresAreSomewhere'
<1>1. /\ items' = EmptyQueue /\ ~restored' /\ batchCall' = [c \in BatchCalls |-> BatchIdle]
      /\ UNCHANGED <<file, newest, sent>> BY DEF CrashRelayer
<1>2. \A c \in BatchCalls : batchCall[c].awaits \in {"nothing", "read", "turn"}
      BY DEF CrashRelayer, QuietStep
<1>3. \A c \in BatchCalls : batchCall[c].batch = EmptyQueue /\ ~Persisting(c)
      BY <1>2 DEF QuietStep, Orderly, CallIsSound, Persisting
<1>i. BatchIdle.awaits = "nothing" /\ BatchIdle.batch = EmptyQueue BY DEF BatchIdle
<1>4. \A c \in BatchCalls : batchCall'[c].awaits = "nothing" /\ batchCall'[c].batch = EmptyQueue
      BY <1>1, <1>i
<1>5. Orderly'
      <2>1. \A c \in BatchCalls : CallIsSound(batchCall[c])' BY <1>4 DEF CallIsSound
      <2>2. \A c \in BatchCalls : ~Persisting(c)' BY <1>4 DEF Persisting
      <2> QED BY <1>1, <2>1, <2>2 DEF Orderly
<1>6. ASSUME NEW a \in Buffered(newest)
      PROVE  newest[a] \in sent \cup OnDisk(a)'
      <2>0. a \in ScoredAccounts /\ newest[a] # 0 BY DEF Buffered
      <2>1. InFlight(a) \subseteq {0} BY <1>3, <2>0 DEF InFlight, EmptyQueue
      <2>2. newest[a] \in {items[a]} \cup sent \cup OnDisk(a)
            BY <2>0, <2>1 DEF QuietStep, ScoresAreSomewhere
      <2>3. CASE restored
            <3>1. InStep BY <1>3, <2>3 DEF QuietStep, Orderly
            <3>2. newest[a] = items[a] \/ newest[a] \in sent BY <2>2, <2>3 DEF OnDisk
            <3>3. CASE file = items
                  <4>1. file # None BY <3>3, NoneIsNoQueue DEF QuietStep, BatchTypeOK
                  <4> QED BY <1>1, <3>2, <3>3, <4>1 DEF OnDisk
            <3>4. CASE file # items
                  <4>1. items[a] = 0 BY <2>0, <3>1, <3>4 DEF InStep, EmptyQueue
                  <4> QED BY <2>0, <3>2, <4>1
            <3> QED BY <3>3, <3>4
      <2>4. CASE ~restored
            <3>1. items[a] = 0 BY <2>0, <2>4 DEF QuietStep, Orderly, EmptyQueue
            <3> QED BY <1>1, <2>0, <2>2, <2>4, <3>1 DEF OnDisk
      <2> QED BY <2>3, <2>4
<1> QED BY <1>1, <1>5, <1>6 DEF ScoresAreSomewhere, Buffered

LEMMA QueueIsKept == BatchInv /\ [BatchNext]_batchVars => BatchInv'
<1> SUFFICES ASSUME BatchInv, [BatchNext]_batchVars PROVE BatchInv' OBVIOUS
<1>t. BatchTypeOK' BY BatchTypeHolds DEF BatchInv
<1> SUFFICES ASSUME mishaps' = {} PROVE Orderly' /\ ScoresAreSomewhere'
    BY <1>t DEF BatchInv, NothingIsDropped, ScoresAreSomewhere
<1>m. mishaps \subseteq mishaps'
      BY DEF BatchNext, CallStep, TimerTick, StartService, Enqueue, Flush, Restored, Buffer, Drain,
             NothingToDrain, WriteFile, WriteFails, Rename, RenameFails, DeliverBatch,
             DeliveryFails, CrashRelayer, Persist, batchVars
<1>q. QuietStep BY <1>m DEF BatchInv, QuietStep, NothingIsDropped, ScoresAreSomewhere
<1>1. ASSUME NEW c \in BatchCalls,
             StartService(c) \/ (\E a \in ScoredAccounts : Enqueue(c, a)) \/ Flush(c)
      PROVE  Orderly' /\ ScoresAreSomewhere'
      BY <1>1, <1>q, BeginningIsQuiet
<1>2. ASSUME NEW c \in BatchCalls, CallStep(c) PROVE Orderly' /\ ScoresAreSomewhere'
      <2>1. CASE Restored(c) BY <1>m, <1>q, <2>1, RestoredIsQuiet
      <2>2. CASE Buffer(c) BY <1>q, <2>2, BufferIsQuiet
      <2>3. CASE Drain(c) BY <1>q, <2>3, DrainIsQuiet
      <2>4. CASE NothingToDrain(c)
            <3>1. BatchIdle \in EngineCall /\ BatchIdle.awaits = "nothing" /\ BatchIdle.batch = EmptyQueue
                  BY EmptyIsQueue DEF BatchIdle
            <3>2. /\ batchCall[c].awaits = "turn" /\ Suspend(c, BatchIdle)
                  /\ UNCHANGED <<items, file, tmp, newest, sent>> /\ restored' = restored
                  BY <2>4 DEF NothingToDrain, Return
            <3>3. batchCall[c].batch = EmptyQueue /\ ~Persisting(c)
                  BY <1>q, <3>2, QuietCall DEF CallIsSound, Persisting
            <3> QED BY <1>q, <3>1, <3>2, <3>3, WaitingIsQuiet
      <2>5. CASE WriteFile(c) BY <1>q, <2>5, WriteIsQuiet
      <2>6. CASE Rename(c) BY <1>q, <2>6, RenameIsQuiet
      <2>7. CASE RenameFails(c) BY <1>q, <2>7, RenameDoesNotFail
      <2>8. CASE DeliverBatch(c) BY <1>q, <2>8, DeliveryIsQuiet
      <2> QED BY <1>2, <2>1, <2>2, <2>3, <2>4, <2>5, <2>6, <2>7, <2>8 DEF CallStep
<1>3. ASSUME NEW c \in BatchCalls, WriteFails(c) PROVE Orderly' /\ ScoresAreSomewhere'
      BY <1>3 DEF WriteFails
<1>4. ASSUME NEW c \in BatchCalls, DeliveryFails(c) PROVE Orderly' /\ ScoresAreSomewhere'
      BY <1>4, <1>q, RefusalIsQuiet
<1>5. CASE CrashRelayer BY <1>5, <1>q, CrashIsQuiet
<1>6. CASE UNCHANGED batchVars
      BY <1>6, <1>q DEF batchVars, QuietStep, Orderly, CallIsSound, Persisting, InStep,
                        ScoresAreSomewhere, Buffered, InFlight, OnDisk
<1> QED BY <1>1, <1>2, <1>3, <1>4, <1>5, <1>6 DEF BatchNext, TimerTick

\* As long as no mishap happens the newest score of every address is in the queue, in a
\* batch under way, delivered or on disk, and between persists the file is the queue:
\* flushes, updates, refused batches and restarts may interleave as they like
\* (proofBatchEngine.ts, durableQueue.ts).
THEOREM ScoresAreKept == BatchSpec => [](NothingIsDropped /\ QueueIsOnDisk)
<1>1. BatchInv => NothingIsDropped /\ QueueIsOnDisk
      BY DEF BatchInv, Orderly, InStep, QueueIsOnDisk
<1> QED BY <1>1, FirstQueue, QueueIsKept, PTL DEF BatchSpec

-----------------------------------------------------------------------------
(***************************************************************************)
(* The webhook queue, for any jobs, attempts and delays and any order of   *)
(* passes, enqueues and answers.                                           *)
(***************************************************************************)

HookPass == [on : BOOLEAN, left : SUBSET Jobs, job : Jobs \cup {None},
             awaits : {"nothing", "receiver", "table"}]

HooksTypeOK ==
    /\ hookClock \in Nat
    /\ queue \subseteq Jobs /\ settled \subseteq Jobs /\ deadLetters \subseteq Jobs
    /\ jobAttempts \in [Jobs -> 0 .. maxAttempts]
    /\ nextRetryAt \in [Jobs -> Int]
    /\ lastTried \in [Jobs -> Nat]
    /\ pass \in [Passes -> HookPass]

\* p is at an attempt at the job j.
Tries(p, j) == pass[p].awaits # "nothing" /\ pass[p].job = j

\* One pass runs at a time, over jobs in the queue; the job it is at is no more among those
\* that are left.
OnePassRuns ==
    /\ \A p \in Passes : pass[p].on => isProcessing
    /\ \A p, q \in Passes : pass[p].on /\ pass[q].on => p = q
    /\ \A p \in Passes :
           /\ ~pass[p].on => pass[p].awaits = "nothing" /\ pass[p].left = {}
           /\ pass[p].left \subseteq queue
           /\ pass[p].awaits # "nothing" => pass[p].job \in queue \ pass[p].left

\* What the table of dead letters and the attempts say of a job.
JobsFollowPasses ==
    /\ queue \cap settled = {}
    /\ NoJobVanishes
    /\ \A j \in Jobs : lastTried[j] <= hookClock
    /\ \A j \in deadLetters \ settled :
           \E p \in Passes : pass[p].awaits = "table" /\ pass[p].job = j
    /\ \A p \in Passes : pass[p].awaits = "table" => pass[p].job \in deadLetters
    /\ \A p \in Passes : pass[p].awaits = "receiver" => jobAttempts[pass[p].job] > 0

\* A job that waits for its next attempt has one left, and is not due before its delay is over.
RetriesWait ==
    \A j \in queue : (\A p \in Passes : ~Tries(p, j)) =>
        /\ jobAttempts[j] < maxAttempts
        /\ jobAttempts[j] > 0 => nextRetryAt[j] >= lastTried[j] + calculateBackoff(jobAttempts[j])

\* A pass only has jobs left that were due when it began.
PassesAreDue == \A p \in Passes : \A j \in pass[p].left : nextRetryAt[j] <= hookClock

HooksInv == HooksTypeOK /\ OnePassRuns /\ JobsFollowPasses /\ RetriesWait /\ PassesAreDue

\* A delay is a number.
LEMMA BackoffIsNumber ==
    ASSUME NEW n \in Nat \ {0} PROVE calculateBackoff(n) \in Int
  BY WebhookAssumption DEF calculateBackoff

\* An empty queue satisfies the invariant.
LEMMA HooksInitially == HooksInit => HooksInv
<1> SUFFICES ASSUME HooksInit PROVE HooksInv
  OBVIOUS
<1>1. HooksTypeOK
  BY WebhookAssumption DEF HooksInit, HooksTypeOK, NoPass, HookPass
<1>2. OnePassRuns /\ PassesAreDue
  BY DEF HooksInit, OnePassRuns, PassesAreDue, NoPass
<1>3. JobsFollowPasses
  BY DEF HooksInit, JobsFollowPasses, NoJobVanishes, NoPass
<1>4. RetriesWait
  BY DEF HooksInit, RetriesWait
<1> QED
  BY <1>1, <1>2, <1>3, <1>4 DEF HooksInv

\* Time and enqueues keep the invariant.
LEMMA QueueKeepsHooks ==
    ASSUME HooksInv, ClockTicks \/ \E j \in Jobs : EnqueueJob(j)
    PROVE  HooksInv'
<1>1. HooksTypeOK /\ OnePassRuns /\ JobsFollowPasses /\ RetriesWait /\ PassesAreDue
  BY DEF HooksInv
<1>2. CASE ClockTicks
  <2> USE <1>1, <1>2 DEF ClockTicks
  <2>1. HooksTypeOK'
    BY DEF HooksTypeOK
  <2>2. OnePassRuns'
    BY DEF OnePassRuns
  <2>3. JobsFollowPasses'
    BY DEF JobsFollowPasses, NoJobVanishes, HooksTypeOK
  <2>4. RetriesWait'
    BY DEF RetriesWait, Tries
  <2>5. PassesAreDue'
    BY DEF PassesAreDue, HooksTypeOK, HookPass
  <2> QED
    BY <2>1, <2>2, <2>3, <2>4, <2>5 DEF HooksInv
<1>3. ASSUME NEW j \in Jobs, EnqueueJob(j) PROVE HooksInv'
  <2> USE <1>1, <1>3 DEF EnqueueJob
  <2>1. HooksTypeOK'
    BY DEF HooksTypeOK
  <2>2. OnePassRuns'
    BY DEF OnePassRuns
  <2>3. JobsFollowPasses'
    BY DEF JobsFollowPasses, NoJobVanishes
  <2>4. jobAttempts[j] = 0
    BY DEF JobsFollowPasses, NoJobVanishes, HooksTypeOK
  <2>5. RetriesWait'
    BY <2>4, WebhookAssumption DEF RetriesWait, Tries
  <2>6. PassesAreDue'
    BY DEF PassesAreDue
  <2> QED
    BY <2>1, <2>2, <2>3, <2>5, <2>6 DEF HooksInv
<1> QED
  BY <1>2, <1>3

\* So does a pass that begins or ends: the others were over.
LEMMA PassesKeepHooks ==
    ASSUME HooksInv, NEW p \in Passes, StartPass(p) \/ EndPass(p)
    PROVE  HooksInv'
<1>1. HooksTypeOK /\ OnePassRuns /\ JobsFollowPasses /\ RetriesWait /\ PassesAreDue
  BY DEF HooksInv
<1>2. CASE StartPass(p)
  <2> DEFINE begun == [NoPass EXCEPT !.on = TRUE,
                                     !.left = {j \in queue : nextRetryAt[j] <= hookClock}]
  <2>1. UNCHANGED <<hookClock, queue, jobAttempts, nextRetryAt, lastTried, acknowledged,
                    deadLetters, settled>>
    BY <1>2 DEF StartPass
  <2>2. CASE isProcessing
    <3>1. UNCHANGED <<pass, isProcessing>>
      BY <1>2, <2>2 DEF StartPass
    <3> QED
      BY <1>1, <2>1, <3>1 DEF HooksInv, HooksTypeOK, OnePassRuns, JobsFollowPasses,
         NoJobVanishes, RetriesWait, PassesAreDue, Tries
  <2>3. CASE ~isProcessing
    <3>1. isProcessing' = TRUE /\ pass' = [pass EXCEPT ![p] = begun]
      BY <1>2, <2>3 DEF StartPass
    <3>2. \A q \in Passes : ~pass[q].on /\ pass[q].awaits = "nothing"
      BY <1>1, <2>3 DEF OnePassRuns
    <3>3. /\ begun \in HookPass /\ begun.on /\ begun.awaits = "nothing"
          /\ begun.left = {j \in queue : nextRetryAt[j] <= hookClock}
      BY <1>1 DEF HooksTypeOK, HookPass, NoPass
    <3>4. pass'[p] = begun /\ \A q \in Passes \ {p} : pass'[q] = pass[q]
      BY <1>1, <3>1 DEF HooksTypeOK
    <3> HIDE DEF begun
    <3>5. HooksTypeOK'
      BY <1>1, <2>1, <3>1, <3>3 DEF HooksTypeOK
    <3>6. OnePassRuns'
      BY <1>1, <2>1, <3>1, <3>2, <3>3, <3>4 DEF OnePassRuns
    <3>7. \A q \in Passes : pass'[q].awaits = "nothing"
      BY <3>2, <3>3, <3>4
    <3>8. JobsFollowPasses'
      BY <1>1, <2>1, <3>2, <3>7 DEF JobsFollowPasses, NoJobVanishes
    <3>9. RetriesWait'
      BY <1>1, <2>1, <3>2, <3>7 DEF RetriesWait, Tries
    <3>10. PassesAreDue'
      BY <1>1, <2>1, <3>3, <3>4 DEF PassesAreDue
    <3> QED
      BY <3>5, <3>6, <3>8, <3>9, <3>10 DEF HooksInv
  <2> QED
    BY <2>2, <2>3
<1>3. CASE EndPass(p)
  <2>1. /\ UNCHANGED <<hookClock, queue, jobAttempts, nextRetryAt, lastTried, acknowledged,
                       deadLetters, settled>>
        /\ pass[p].on /\ pass[p].awaits = "nothing" /\ isProcessing' = FALSE
        /\ pass' = [pass EXCEPT ![p] = NoPass]
    BY <1>3 DEF EndPass
  <2>2. /\ NoPass \in HookPass /\ ~NoPass.on /\ NoPass.awaits = "nothing" /\ NoPass.left = {}
    BY DEF NoPass, HookPass
  <2>3. pass'[p] = NoPass /\ \A q \in Passes \ {p} : pass'[q] = pass[q] /\ ~pass[q].on
    BY <1>1, <2>1 DEF HooksTypeOK, OnePassRuns
  <2>4. HooksTypeOK'
    BY <1>1, <2>1, <2>2 DEF HooksTypeOK
  <2>5. OnePassRuns'
    BY <1>1, <2>1, <2>2, <2>3 DEF OnePassRuns
  <2>6. \A q \in Passes : pass[q].awaits = "nothing" /\ pass'[q].awaits = "nothing"
    BY <1>1, <2>1, <2>2, <2>3 DEF OnePassRuns
  <2>7. JobsFollowPasses'
    BY <1>1, <2>1, <2>6 DEF JobsFollowPasses, NoJobVanishes
  <2>8. RetriesWait'
    BY <1>1, <2>1, <2>6 DEF RetriesWait, Tries
  <2>9. PassesAreDue'
    BY <1>1, <2>1, <2>2, <2>3 DEF PassesAreDue
  <2> QED
    BY <2>4, <2>5, <2>7, <2>8, <2>9 DEF HooksInv
<1> QED
  BY <1>2, <1>3

\* So does an attempt: the job had one left, was due, and is nobody else's.
LEMMA DispatchKeepsHooks ==
    ASSUME HooksInv, NEW p \in Passes, NEW j \in Jobs, Dispatch(p, j)
    PROVE  /\ HooksInv' /\ j \in queue /\ jobAttempts[j] < maxAttempts
           /\ jobAttempts[j] > 0 => hookClock >= lastTried[j] + calculateBackoff(jobAttempts[j])
<1> DEFINE at == [pass[p] EXCEPT !.left = @ \ {j}, !.job = j, !.awaits = "receiver"]
<1>1. HooksTypeOK /\ OnePassRuns /\ JobsFollowPasses /\ RetriesWait /\ PassesAreDue
  BY DEF HooksInv
<1>2. /\ pass[p].on /\ pass[p].awaits = "nothing" /\ j \in pass[p].left
      /\ jobAttempts' = [jobAttempts EXCEPT ![j] = @ + 1]
      /\ lastTried' = [lastTried EXCEPT ![j] = hookClock]
      /\ pass' = [pass EXCEPT ![p] = at]
      /\ acknowledged \subseteq acknowledged'
      /\ UNCHANGED <<hookClock, queue, nextRetryAt, isProcessing, deadLetters, settled>>
  <2>1. acknowledged \subseteq acknowledged'
    BY DEF Dispatch
  <2>2. pass' = [pass EXCEPT ![p] = at]
    <3>1. pass' = [pass EXCEPT ![p].left = @ \ {j}, ![p].job = j, ![p].awaits = "receiver"]
      BY DEF Dispatch
    <3> QED
      BY <1>1, <3>1 DEF HooksTypeOK, HookPass
  <2> QED
    BY <2>1, <2>2 DEF Dispatch
<1>3. /\ at \in HookPass /\ at.on /\ at.left = pass[p].left \ {j} /\ at.job = j
      /\ at.awaits = "receiver"
  BY <1>1, <1>2 DEF HooksTypeOK, HookPass
<1>4. pass'[p] = at /\ \A q \in Passes \ {p} : pass'[q] = pass[q] /\ ~pass[q].on
                           /\ pass[q].awaits = "nothing" /\ pass[q].left = {}
  BY <1>1, <1>2 DEF HooksTypeOK, OnePassRuns
<1>5. j \in queue /\ j \notin settled
  BY <1>1, <1>2 DEF OnePassRuns, JobsFollowPasses
<1> HIDE DEF at
<1>6. /\ jobAttempts[j] < maxAttempts
      /\ jobAttempts[j] > 0 => nextRetryAt[j] >= lastTried[j] + calculateBackoff(jobAttempts[j])
  BY <1>1, <1>2, <1>4, <1>5 DEF RetriesWait, Tries
<1>7. nextRetryAt[j] <= hookClock
  BY <1>1, <1>2 DEF PassesAreDue
<1>8. jobAttempts[j] > 0 => hookClock >= lastTried[j] + calculateBackoff(jobAttempts[j])
  <2>1. /\ hookClock \in Int /\ nextRetryAt[j] \in Int /\ lastTried[j] \in Int
        /\ jobAttempts[j] \in Nat
    BY <1>1 DEF HooksTypeOK
  <2>2. jobAttempts[j] > 0 => calculateBackoff(jobAttempts[j]) \in Int
    BY <2>1, BackoffIsNumber
  <2> QED
    BY <1>6, <1>7, <2>1, <2>2
<1>9. j \notin deadLetters
  BY <1>1, <1>2, <1>4, <1>5 DEF JobsFollowPasses
<1>10. HooksTypeOK'
  <2>1. jobAttempts' \in [Jobs -> 0 .. maxAttempts]
    BY <1>1, <1>2, <1>6, WebhookAssumption DEF HooksTypeOK
  <2> QED
    BY <1>1, <1>2, <1>3, <2>1 DEF HooksTypeOK
<1>11. OnePassRuns'
  BY <1>1, <1>2, <1>3, <1>4, <1>5 DEF OnePassRuns
<1>12. JobsFollowPasses'
  <2>1. \A i \in Jobs : jobAttempts'[i] = IF i = j THEN jobAttempts[j] + 1 ELSE jobAttempts[i]
    BY <1>1, <1>2 DEF HooksTypeOK
  <2>2. NoJobVanishes'
    BY <1>1, <1>2, <1>5, <1>9, <2>1 DEF JobsFollowPasses, NoJobVanishes, HooksTypeOK
  <2>3. \A i \in Jobs : lastTried'[i] <= hookClock'
    BY <1>1, <1>2 DEF JobsFollowPasses, HooksTypeOK
  <2>4. jobAttempts'[j] > 0
    BY <1>1, <2>1 DEF HooksTypeOK
  <2> QED
    BY <1>1, <1>2, <1>3, <1>4, <2>2, <2>3, <2>4 DEF JobsFollowPasses
<1>13. RetriesWait'
  <2>1. ASSUME NEW i \in queue', \A q \in Passes : ~Tries(q, i)'
        PROVE  i # j /\ \A q \in Passes : ~Tries(q, i)
    BY <1>1, <1>2, <1>3, <1>4, <2>1 DEF Tries
  <2>2. \A i \in Jobs \ {j} : jobAttempts'[i] = jobAttempts[i] /\ lastTried'[i] = lastTried[i]
    BY <1>1, <1>2 DEF HooksTypeOK
  <2>3. queue \subseteq Jobs
    BY <1>1 DEF HooksTypeOK
  <2> QED
    BY <1>1, <1>2, <2>1, <2>2, <2>3 DEF RetriesWait
<1>14. PassesAreDue'
  BY <1>1, <1>2, <1>3, <1>4 DEF PassesAreDue
<1> QED
  BY <1>5, <1>6, <1>8, <1>10, <1>11, <1>12, <1>13, <1>14 DEF HooksInv

\* So does the end of an attempt.
LEMMA AnswersKeepHooks ==
    ASSUME HooksInv, NEW p \in Passes,
           Delivered(p) \/ ScheduleRetry(p) \/ SaveToDLQ(p) \/ GiveUp(p)
    PROVE  HooksInv'
<1> DEFINE j == pass[p].job
           done == [pass[p] EXCEPT !.job = None, !.awaits = "nothing"]
<1>1. HooksTypeOK /\ OnePassRuns /\ JobsFollowPasses /\ RetriesWait /\ PassesAreDue
  BY DEF HooksInv
<1>2. /\ pass[p].awaits # "nothing" /\ pass[p].on /\ j \in queue \ pass[p].left
      /\ j \in Jobs /\ j \notin settled
      /\ UNCHANGED <<hookClock, jobAttempts, lastTried, isProcessing, acknowledged>>
  <2>1. pass[p].awaits # "nothing"
    BY DEF Delivered, ScheduleRetry, SaveToDLQ, GiveUp
  <2>2. pass[p].on /\ j \in queue \ pass[p].left
    BY <1>1, <2>1 DEF OnePassRuns
  <2>3. j \in Jobs /\ j \notin settled
    BY <1>1, <2>2 DEF HooksTypeOK, JobsFollowPasses
  <2>4. UNCHANGED <<hookClock, jobAttempts, lastTried, isProcessing, acknowledged>>
    BY DEF Delivered, ScheduleRetry, SaveToDLQ, GiveUp
  <2> QED
    BY <2>1, <2>2, <2>3, <2>4
<1>3. \A q \in Passes \ {p} : ~pass[q].on /\ pass[q].awaits = "nothing" /\ pass[q].left = {}
  BY <1>1, <1>2 DEF OnePassRuns
<1>4. /\ done \in HookPass /\ done.on /\ done.left = pass[p].left /\ done.awaits = "nothing"
  BY <1>1, <1>2 DEF HooksTypeOK, HookPass
<1> HIDE DEF j, done
<1>5. ASSUME deadLetters' = deadLetters, nextRetryAt' = nextRetryAt,
             queue' = queue \ {j}, settled' = settled \cup {j},
             pass' = [pass EXCEPT ![p] = done], j \in acknowledged \cup deadLetters
      PROVE  HooksInv'
  <2>1. pass'[p] = done /\ \A q \in Passes \ {p} : pass'[q] = pass[q]
    BY <1>1, <1>5 DEF HooksTypeOK
  <2>2. HooksTypeOK'
    BY <1>1, <1>2, <1>4, <1>5 DEF HooksTypeOK
  <2>3. OnePassRuns'
    BY <1>1, <1>2, <1>3, <1>4, <1>5, <2>1 DEF OnePassRuns
  <2>4. \A q \in Passes : pass'[q].awaits = "nothing"
    BY <1>3, <1>4, <2>1
  <2>5. JobsFollowPasses'
    <3>1. \A i \in deadLetters \ settled : i = j
      BY <1>1, <1>3 DEF JobsFollowPasses, j
    <3> QED
      BY <1>1, <1>2, <1>5, <2>4, <3>1 DEF JobsFollowPasses, NoJobVanishes
  <2>6. \A i \in queue' : \A q \in Passes : ~Tries(q, i)
    BY <1>3, <1>5 DEF Tries, j
  <2>7. RetriesWait'
    BY <1>1, <1>2, <1>5, <2>6 DEF RetriesWait
  <2>8. PassesAreDue'
    BY <1>1, <1>2, <1>3, <1>4, <1>5, <2>1 DEF PassesAreDue
  <2> QED
    BY <2>2, <2>3, <2>5, <2>7, <2>8 DEF HooksInv
<1>6. CASE Delivered(p)
  BY <1>5, <1>6 DEF Delivered, Proceed, j, done
<1>7. CASE GiveUp(p)
  <2>1. j \in deadLetters
    BY <1>1, <1>7 DEF GiveUp, JobsFollowPasses, j
  <2> QED
    BY <1>5, <1>7, <2>1 DEF GiveUp, Proceed, j, done
<1>8. CASE ScheduleRetry(p)
  <2>1. /\ pass[p].awaits = "receiver" /\ jobAttempts[j] < maxAttempts
        /\ nextRetryAt' = [nextRetryAt EXCEPT ![j] = hookClock + calculateBackoff(jobAttempts[j])]
        /\ pass' = [pass EXCEPT ![p] = done]
        /\ UNCHANGED <<queue, deadLetters, settled>>
    BY <1>8 DEF ScheduleRetry, Proceed, j, done
  <2>2. pass'[p] = done /\ \A q \in Passes \ {p} : pass'[q] = pass[q]
    BY <1>1, <2>1 DEF HooksTypeOK
  <2>3. jobAttempts[j] \in Nat \ {0} /\ hookClock \in Nat /\ lastTried[j] \in Nat
        /\ lastTried[j] <= hookClock
    BY <1>1, <1>2, <2>1 DEF HooksTypeOK, JobsFollowPasses, j
  <2>4. calculateBackoff(jobAttempts[j]) \in Int
    BY <2>3, BackoffIsNumber
  <2>5. /\ nextRetryAt' \in [Jobs -> Int]
        /\ \A i \in Jobs \ {j} : nextRetryAt'[i] = nextRetryAt[i]
        /\ nextRetryAt'[j] >= lastTried[j] + calculateBackoff(jobAttempts[j])
    BY <1>1, <1>2, <2>1, <2>3, <2>4 DEF HooksTypeOK
  <2>6. HooksTypeOK'
    BY <1>1, <1>2, <1>4, <2>1, <2>5 DEF HooksTypeOK
  <2>7. OnePassRuns'
    BY <1>1, <1>2, <1>3, <1>4, <2>1, <2>2 DEF OnePassRuns
  <2>8. j \notin deadLetters
    BY <1>1, <1>2, <2>1, <2>3, WebhookAssumption DEF JobsFollowPasses, NoJobVanishes
  <2>9. \A q \in Passes : pass[q].awaits # "table" /\ pass'[q].awaits = "nothing"
    BY <1>3, <1>4, <2>1, <2>2
  <2>10. JobsFollowPasses'
    BY <1>1, <1>2, <2>1, <2>9 DEF JobsFollowPasses, NoJobVanishes
  <2>11. RetriesWait'
    <3>1. ASSUME NEW i \in queue, i # j PROVE \A q \in Passes : ~Tries(q, i)
      BY <1>3, <3>1 DEF Tries, j
    <3>2. queue \subseteq Jobs
      BY <1>1 DEF HooksTypeOK
    <3> QED
      BY <1>1, <1>2, <2>1, <2>5, <3>1, <3>2 DEF RetriesWait
  <2>12. PassesAreDue'
    <3>1. \A i \in pass[p].left : i \in Jobs \ {j}
      BY <1>1, <1>2 DEF HooksTypeOK, HookPass
    <3> QED
      BY <1>1, <1>2, <1>3, <1>4, <2>2, <2>5, <3>1 DEF PassesAreDue
  <2> QED
    BY <2>6, <2>7, <2>10, <2>11, <2>12 DEF HooksInv
<1>9. CASE SaveToDLQ(p)
  <2> DEFINE saved == [pass[p] EXCEPT !.awaits = "table"]
  <2>1. /\ pass[p].awaits = "receiver" /\ jobAttempts[j] >= maxAttempts
        /\ deadLetters' = deadLetters \cup {j}
        /\ pass' = [pass EXCEPT ![p] = saved]
        /\ UNCHANGED <<queue, nextRetryAt, settled>>
    BY <1>9 DEF SaveToDLQ, j
  <2>2. /\ saved \in HookPass /\ saved.on /\ saved.left = pass[p].left
        /\ saved.awaits = "table" /\ saved.job = j
    BY <1>1, <1>2 DEF HooksTypeOK, HookPass, j
  <2> HIDE DEF saved
  <2>3. pass'[p] = saved /\ \A q \in Passes \ {p} : pass'[q] = pass[q]
    BY <1>1, <2>1 DEF HooksTypeOK
  <2>4. HooksTypeOK'
    BY <1>1, <1>2, <2>1, <2>2 DEF HooksTypeOK
  <2>5. OnePassRuns'
    BY <1>1, <1>2, <1>3, <2>1, <2>2, <2>3 DEF OnePassRuns
  <2>6. jobAttempts[j] = maxAttempts
    BY <1>1, <1>2, <2>1, WebhookAssumption DEF HooksTypeOK
  <2>7. JobsFollowPasses'
    BY <1>1, <1>2, <1>3, <2>1, <2>2, <2>3, <2>6 DEF JobsFollowPasses, NoJobVanishes
  <2>8. \A i : (\A q \in Passes : ~Tries(q, i)') <=> (\A q \in Passes : ~Tries(q, i))
    BY <1>2, <2>2, <2>3 DEF Tries, j
  <2>9. RetriesWait'
    BY <1>1, <1>2, <2>1, <2>8 DEF RetriesWait
  <2>10. PassesAreDue'
    BY <1>1, <1>2, <2>1, <2>2, <2>3 DEF PassesAreDue
  <2> QED
    BY <2>4, <2>5, <2>7, <2>9, <2>10 DEF HooksInv
<1> QED
  BY <1>6, <1>7, <1>8, <1>9

\* So every step of the queue keeps the invariant.
LEMMA HooksStep == HooksInv /\ [HooksNext]_hookVars => HooksInv'
<1> SUFFICES ASSUME HooksInv, [HooksNext]_hookVars PROVE HooksInv'
  OBVIOUS
<1>1. CASE UNCHANGED hookVars
  <2> USE <1>1 DEF hookVars, HooksInv
  <2>1. HooksTypeOK' /\ OnePassRuns' /\ PassesAreDue'
    BY DEF HooksTypeOK, OnePassRuns, PassesAreDue
  <2>2. JobsFollowPasses'
    BY DEF JobsFollowPasses, NoJobVanishes
  <2>3. RetriesWait'
    BY DEF RetriesWait, Tries
  <2> QED
    BY <2>1, <2>2, <2>3
<1> QED
  BY <1>1, QueueKeepsHooks, PassesKeepHooks, DispatchKeepsHooks, AnswersKeepHooks
     DEF HooksNext, PassStep

\* Only a dispatch counts an attempt.
LEMMA OnlyDispatchesTry ==
    ASSUME HooksInv, [HooksNext]_hookVars, NEW j \in Jobs, jobAttempts'[j] # jobAttempts[j]
    PROVE  /\ j \notin settled /\ jobAttempts'[j] <= maxAttempts
           /\ jobAttempts[j] > 0 =>
                  hookClock >= lastTried[j] + baseDelayMs * 2 ^ (jobAttempts[j] - 1)
<1>1. PICK p \in Passes, i \in Jobs : Dispatch(p, i)
  BY DEF HooksNext, PassStep, hookVars, ClockTicks, EnqueueJob, StartPass, Delivered,
     ScheduleRetry, SaveToDLQ, GiveUp, EndPass
<1>2. i = j /\ jobAttempts'[j] = jobAttempts[j] + 1
  BY <1>1 DEF Dispatch, HooksInv, HooksTypeOK
<1>3. /\ j \in queue /\ jobAttempts[j] < maxAttempts
      /\ jobAttempts[j] > 0 => hookClock >= lastTried[j] + calculateBackoff(jobAttempts[j])
  BY <1>1, <1>2, DispatchKeepsHooks
<1>4. j \notin settled /\ jobAttempts[j] \in Nat
  BY <1>3 DEF HooksInv, JobsFollowPasses, HooksTypeOK
<1> QED
  BY <1>2, <1>3, <1>4, WebhookAssumption DEF calculateBackoff

\* The queue as a whole, for any jobs, attempts and delays: a job ends delivered or as a dead
\* letter, and not before its attempts are used up; one that has ended is not sent again; and
\* attempts keep the distance of the backoff (processQueue, processJob).
THEOREM JobsSettleOnce == HooksSpec => JobsAreSettledOnce
<1>1. HooksInv => NoJobVanishes
  BY DEF HooksInv, JobsFollowPasses
<1>2. HooksInv /\ [HooksNext]_hookVars
          => [\A j \in settled : jobAttempts'[j] = jobAttempts[j]]_hookVars
  <2>1. HooksInv => settled \subseteq Jobs
    BY DEF HooksInv, HooksTypeOK
  <2> QED
    BY <2>1, OnlyDispatchesTry
<1>3. HooksInv /\ [HooksNext]_hookVars
          => [\A j \in Jobs : jobAttempts'[j] # jobAttempts[j] =>
                 /\ jobAttempts'[j] <= maxAttempts
                 /\ jobAttempts[j] > 0 =>
                        hookClock >= lastTried[j] + baseDelayMs * 2 ^ (jobAttempts[j] - 1)]_hookVars
  BY OnlyDispatchesTry
<1> QED
  BY <1>1, <1>2, <1>3, HooksInitially, HooksStep, PTL
     DEF HooksSpec, JobsAreSettledOnce, SettledJobsRest, BackoffIsKept

-----------------------------------------------------------------------------
(***************************************************************************)
(* The scans of the TTL monitor, for any addresses and any number of bumps *)
(* at a time: where each address near expiry is.                           *)
(***************************************************************************)

Scan == [at : {"nothing", "entries", "bumps"}, seq : Nat, near : SUBSET Monitored,
         waiting : SUBSET Monitored, bumping : SUBSET Monitored, bumped : SUBSET Monitored,
         failed : SUBSET Monitored, workers : 0 .. bumpConcurrency]

TtlInv ==
    /\ scan \in Scan /\ ledgerSeq \in Nat
    /\ scan.near = scan.waiting \cup scan.bumping \cup scan.bumped \cup scan.failed
    /\ scan.waiting \cap (scan.bumping \cup scan.bumped \cup scan.failed) = {}
    /\ scan.bumping \cap (scan.bumped \cup scan.failed) = {}
    /\ scan.bumped \cap scan.failed = {}
    /\ scan.at # "bumps" => scan.waiting = {} /\ scan.bumping = {}
    /\ scan.at = "entries" => scan.near = {}
    /\ scan.workers = 0 => scan.near = {}
    /\ Cardinality(scan.bumping) <= scan.workers
-----------------------------------------------------------------------------
(***************************************************************************)
(* The oracle's verdict, for any due date, outages and lost transactions:  *)
(* a breach that is on its way to the ledger has been established.         *)
(***************************************************************************)

OracleInv ==
    /\ watch \in [step : {"timer", "checking", "attesting", "done"}, attempt : Nat,
                  outcome : {None, "Fulfilled", "Breached"}]
    /\ outages \in Nat /\ established \in BOOLEAN
    /\ watch.step = "checking" => outages = watch.attempt - 1
    /\ watch.step = "attesting" /\ watch.outcome = "Breached" => established
    /\ "Breached" \in oracleSent => established
    /\ BreachIsEstablished

-----------------------------------------------------------------------------
\* A monitor that has not run satisfies the invariant.
LEMMA TtlInitially == TtlInit => TtlInv
  BY FS_EmptySet, TtlAssumption DEF TtlInit, TtlInv, NoScan, Scan

\* So does one after any step: an address near expiry only goes from waiting to being bumped,
\* and from there to one of the two ends.
LEMMA TtlStep == TtlInv /\ [TtlNext]_ttlVars => TtlInv'
<1> SUFFICES ASSUME TtlInv, [TtlNext]_ttlVars PROVE TtlInv'
  OBVIOUS
<1>1. /\ scan \in Scan /\ ledgerSeq \in Nat /\ bumpConcurrency \in Nat \ {0}
      /\ IsFiniteSet(Monitored)
  BY TtlAssumption DEF TtlInv, Scan, Monitored
<1>2. \A S \in SUBSET Monitored : IsFiniteSet(S) /\ Cardinality(S) \in Nat
  BY <1>1, FS_Subset, FS_CardinalityType
<1>3. CASE TtlLedgerCloses \/ UNCHANGED ttlVars
  BY <1>1, <1>3 DEF TtlLedgerCloses, ttlVars, TtlInv
<1>4. CASE StartScan \/ ScanFails
  <2>1. ledgerSeq' = ledgerSeq /\ \E at \in {"entries", "nothing"}, seq \in Nat :
            scan' = [at |-> at, seq |-> seq, near |-> {}, waiting |-> {}, bumping |-> {},
                     bumped |-> {}, failed |-> {}, workers |-> 0]
    BY <1>1, <1>4 DEF StartScan, ScanFails, NoScan
  <2>2. 0 \in 0 .. bumpConcurrency /\ Cardinality({}) = 0
    BY <1>1, FS_EmptySet
  <2> QED
    BY <1>1, <2>1, <2>2 DEF TtlInv, Scan
<1>5. CASE ReadTtls
  <2>1. PICK near \in SUBSET Monitored :
            scan' = [scan EXCEPT !.at = "bumps", !.near = near, !.waiting = near,
                       !.workers = IF Cardinality(near) < bumpConcurrency
                                   THEN Cardinality(near) ELSE bumpConcurrency]
    BY <1>5 DEF ReadTtls
  <2>2. Cardinality(near) \in Nat /\ (Cardinality(near) = 0 => near = {})
    BY <1>2, FS_EmptySet
  <2>3. /\ scan.bumping = {} /\ scan.bumped = {} /\ scan.failed = {} /\ ledgerSeq' = ledgerSeq
    BY <1>5 DEF ReadTtls, TtlInv
  <2>4. scan' \in Scan /\ scan'.at = "bumps" /\ scan'.near = near /\ scan'.waiting = near
        /\ scan'.workers = (IF Cardinality(near) < bumpConcurrency
                            THEN Cardinality(near) ELSE bumpConcurrency)
        /\ scan'.bumping = {} /\ scan'.bumped = {} /\ scan'.failed = {}
    <3>1. (IF Cardinality(near) < bumpConcurrency THEN Cardinality(near) ELSE bumpConcurrency)
              \in 0 .. bumpConcurrency
      BY <1>1, <2>2
    <3> QED
      BY <1>1, <2>1, <2>3, <3>1 DEF Scan
  <2> QED
    BY <1>1, <2>2, <2>3, <2>4, FS_EmptySet DEF TtlInv, Scan
<1>6. ASSUME NEW a \in Monitored, StartBump(a) PROVE TtlInv'
  <2>1. /\ a \in scan.waiting /\ Cardinality(scan.bumping) < scan.workers
        /\ scan' = [scan EXCEPT !.waiting = @ \ {a}, !.bumping = @ \cup {a}]
        /\ ledgerSeq' = ledgerSeq
    BY <1>6 DEF StartBump
  <2>2. /\ scan' \in Scan /\ scan'.at = scan.at /\ scan'.near = scan.near
        /\ scan'.waiting = scan.waiting \ {a} /\ scan'.bumping = scan.bumping \cup {a}
        /\ scan'.bumped = scan.bumped /\ scan'.failed = scan.failed
        /\ scan'.workers = scan.workers
    BY <1>1, <2>1 DEF Scan
  <2>3. Cardinality(scan'.bumping) <= scan'.workers
    <3>1. a \notin scan.bumping /\ IsFiniteSet(scan.bumping) /\ Cardinality(scan.bumping) \in Nat
      BY <1>1, <1>2, <2>1 DEF TtlInv, Scan
    <3>2. Cardinality(scan.bumping \cup {a}) = Cardinality(scan.bumping) + 1
      BY <3>1, FS_AddElement
    <3> QED
      BY <1>1, <2>1, <2>2, <3>1, <3>2 DEF Scan
  <2> QED
    BY <1>1, <2>1, <2>2, <2>3 DEF TtlInv, Scan
<1>7. ASSUME NEW a \in Monitored, Bumped(a) \/ BumpFails(a) PROVE TtlInv'
  <2>1. a \in scan.bumping /\ ledgerSeq' = ledgerSeq
    BY <1>7 DEF Bumped, BumpFails
  <2>2. /\ scan' \in Scan /\ scan'.at = scan.at /\ scan'.near = scan.near
        /\ scan'.waiting = scan.waiting /\ scan'.bumping = scan.bumping \ {a}
        /\ \/ scan'.bumped = scan.bumped \cup {a} /\ scan'.failed = scan.failed
           \/ scan'.bumped = scan.bumped /\ scan'.failed = scan.failed \cup {a}
        /\ scan'.workers = scan.workers
    <3>1. CASE Bumped(a)
      BY <1>1, <3>1 DEF Bumped, Scan
    <3>2. CASE BumpFails(a)
      BY <1>1, <3>2 DEF BumpFails, Scan
    <3> QED
      BY <1>7, <3>1, <3>2
  <2>3. Cardinality(scan'.bumping) <= scan'.workers
    <3>1. scan.bumping \ {a} \in SUBSET scan.bumping /\ IsFiniteSet(scan.bumping)
      BY <1>1, <1>2 DEF Scan
    <3>2. Cardinality(scan.bumping \ {a}) <= Cardinality(scan.bumping)
      BY <3>1, FS_Subset
    <3>3. Cardinality(scan.bumping \ {a}) \in Nat /\ Cardinality(scan.bumping) \in Nat
      BY <1>1, <1>2 DEF Scan
    <3> QED
      BY <1>1, <2>2, <3>2, <3>3 DEF TtlInv, Scan
  <2> QED
    BY <1>1, <2>1, <2>2, <2>3 DEF TtlInv, Scan
<1>8. CASE EndScan
  <2>1. /\ scan.bumping = {} /\ (scan.waiting = {} \/ scan.workers = 0)
        /\ scan' = [scan EXCEPT !.at = "nothing"] /\ ledgerSeq' = ledgerSeq
    BY <1>8 DEF EndScan
  <2>2. scan.waiting = {}
    BY <2>1 DEF TtlInv, Scan
  <2>3. /\ scan' \in Scan /\ scan'.at = "nothing" /\ scan'.near = scan.near
        /\ scan'.waiting = scan.waiting /\ scan'.bumping = scan.bumping
        /\ scan'.bumped = scan.bumped /\ scan'.failed = scan.failed
        /\ scan'.workers = scan.workers
    BY <1>1, <2>1 DEF Scan
  <2> QED
    BY <1>1, <2>1, <2>2, <2>3 DEF TtlInv, Scan
<1> QED
  BY <1>3, <1>4, <1>5, <1>6, <1>7, <1>8 DEF TtlNext, BumpStep

\* A scan that ends has bumped, or reported, every address it found near expiry, each once,
\* and never had more bumps under way than pLimit allows (TtlMonitor.run).
THEOREM ScansStayComplete == TtlSpec => []ScansAreComplete
<1>1. TtlInv => ScansAreComplete
  <2> SUFFICES ASSUME TtlInv PROVE ScansAreComplete
    OBVIOUS
  <2>1. IsFiniteSet(Monitored) /\ scan.bumping \subseteq Monitored
    BY TtlAssumption DEF TtlInv, Scan, Monitored
  <2>2. Cardinality(scan.bumping) \in Nat
    BY <2>1, FS_Subset, FS_CardinalityType
  <2> QED
    BY <2>2, TtlAssumption DEF TtlInv, Scan, ScansAreComplete
<1> QED
  BY <1>1, TtlInitially, TtlStep, PTL DEF TtlSpec
-----------------------------------------------------------------------------
\* Every step of the oracle keeps the invariant: its third failure in a row is what
\* establishes a breach that nobody has told it of.
LEMMA OracleStep == OracleInv /\ [OracleNext]_oracleVars => OracleInv'
<1> SUFFICES ASSUME OracleInv, [OracleNext]_oracleVars PROVE OracleInv'
  OBVIOUS
<1>1. CASE OracleTick \/ UNCHANGED oracleVars
  BY <1>1 DEF OracleTick, oracleVars, OracleInv, BreachIsEstablished
<1>2. CASE CheckDue
  BY <1>2 DEF CheckDue, OracleInv, BreachIsEstablished
<1>3. ASSUME NEW met \in BOOLEAN, CheckAnswers(met) PROVE OracleInv'
  BY <1>3 DEF CheckAnswers, Concludes, OracleInv, BreachIsEstablished
<1>4. CASE CheckThrows
  <2>1. outages = watch.attempt - 1 /\ watch.attempt \in Nat /\ outages' = watch.attempt
    BY <1>4 DEF CheckThrows, OracleInv
  <2>2. established' = (established \/ watch.attempt >= maxRetries)
    BY <1>4, <2>1 DEF CheckThrows
  <2>3. /\ established' \in BOOLEAN /\ (established => established')
        /\ (watch.attempt >= maxRetries => established')
    BY <2>2 DEF OracleInv
  <2>4. /\ UNCHANGED <<oracleNow, attested, oracleSent>> /\ watch.step = "checking"
        /\ IF watch.attempt < maxRetries THEN watch' = [watch EXCEPT !.attempt = @ + 1]
           ELSE Concludes("Breached")
    BY <1>4 DEF CheckThrows
  <2>5. CASE watch.attempt < maxRetries
    <3>1. /\ watch' \in [step : {"timer", "checking", "attesting", "done"}, attempt : Nat,
                         outcome : {None, "Fulfilled", "Breached"}]
          /\ watch'.step = "checking" /\ watch'.attempt = watch.attempt + 1
      BY <2>1, <2>4, <2>5 DEF OracleInv
    <3> QED
      BY <2>1, <2>3, <2>4, <3>1 DEF OracleInv, BreachIsEstablished
  <2>6. CASE ~ (watch.attempt < maxRetries)
    <3>1. established'
      BY <2>1, <2>3, <2>6, OracleAssumption
    <3> QED
      BY <2>1, <2>4, <2>6, <3>1, <2>3 DEF Concludes, OracleInv, BreachIsEstablished
  <2> QED
    BY <2>5, <2>6
<1>5. CASE AttestSucceeds
  BY <1>5 DEF AttestSucceeds, OracleInv, BreachIsEstablished
<1>6. CASE AttestThrows
  <2>1. /\ watch.step = "attesting" /\ oracleSent' \subseteq oracleSent \cup {watch.outcome}
        /\ UNCHANGED <<attested, outages, established>>
    BY <1>6 DEF AttestThrows, Submits
  <2>2. /\ watch'.step \in {"attesting", "timer"} /\ watch'.outcome = watch.outcome
        /\ watch' \in [step : {"timer", "checking", "attesting", "done"}, attempt : Nat,
                       outcome : {None, "Fulfilled", "Breached"}]
    BY <1>6, <2>1 DEF AttestThrows, Retried, OracleInv
  <2> QED
    BY <2>1, <2>2 DEF OracleInv, BreachIsEstablished
<1>7. ASSUME NEW o \in {"Fulfilled", "Breached"}, SentApplies(o) PROVE OracleInv'
  BY <1>7 DEF SentApplies, OracleInv, BreachIsEstablished
<1> QED
  BY <1>1, <1>2, <1>3, <1>4, <1>5, <1>6, <1>7 DEF OracleNext, WorkerStep

\* A breach is only attested on the word of the service, or after it failed maxRetries times
\* in a row, whatever was retried, given up and applied late (checkSlaWithRetry, checkDue).
THEOREM BreachesAreEstablished == OracleSpec => []BreachIsEstablished
<1>1. OracleInit => OracleInv
  <2> SUFFICES ASSUME OracleInit PROVE OracleInv
    OBVIOUS
  <2>1. /\ watch = [step |-> "timer", attempt |-> 1, outcome |-> None] /\ outages = 0
        /\ established = FALSE /\ oracleSent = {} /\ attested = "Pending"
    BY DEF OracleInit
  <2> QED
    BY <2>1 DEF OracleInv, BreachIsEstablished
<1>2. OracleInv => BreachIsEstablished
  BY DEF OracleInv
<1> QED
  BY <1>1, <1>2, OracleStep, PTL DEF OracleSpec

-----------------------------------------------------------------------------
(***************************************************************************)
(* The cache of the reputation API, for any addresses, requests and rows:  *)
(* what a load has read is what the row holds, unless the key is being, or *)
(* was, deleted over its head.                                             *)
(***************************************************************************)

CacheInv ==
    /\ row \in [CachedAddresses -> Nat]
    /\ DOMAIN redis = CachedAddresses
    /\ pendingLoad \in [CachedAddresses -> {None} \cup Int]
    /\ refreshing \in [CachedAddresses -> {None} \cup Int]
    /\ \A a \in CachedAddresses \ (invalidating \cup raced) :
           /\ redis[a] # None => redis[a].version = row[a]
           /\ pendingLoad[a] \in 0 .. MaxRow => pendingLoad[a] = row[a]
           /\ refreshing[a] \in 0 .. MaxRow => refreshing[a] = row[a]

-----------------------------------------------------------------------------
\* A step that starts loads or ends them, and leaves row and cache alone, keeps the invariant.
LEMMA LoadsKeepCache ==
    ASSUME CacheInv, UNCHANGED <<row, redis, invalidating, raced>>, NEW a,
           LET next(load) == [load EXCEPT ![a] = IF @ = None THEN LoadStarted ELSE @]
           IN  /\ pendingLoad' \in {pendingLoad, next(pendingLoad), [pendingLoad EXCEPT ![a] = None],
                                    [pendingLoad EXCEPT ![a] = LoadStarted]}
               /\ refreshing' \in {refreshing, [refreshing EXCEPT ![a] = LoadStarted]}
    PROVE  CacheInv'
<1>1. /\ pendingLoad' \in [CachedAddresses -> {None} \cup Int]
      /\ refreshing' \in [CachedAddresses -> {None} \cup Int]
  BY CacheAssumption DEF CacheInv, LoadStarted
<1>2. \A b \in CachedAddresses :
          /\ pendingLoad'[b] \in {pendingLoad[b], None, -1}
          /\ refreshing'[b] \in {refreshing[b], -1}
  BY DEF CacheInv, LoadStarted
<1> QED
  BY <1>1, <1>2, CacheAssumption DEF CacheInv

\* So does every step: a load under way when its key is deleted is remembered.
LEMMA CacheStep == CacheInv /\ [CacheNext]_cacheVars => CacheInv'
<1> SUFFICES ASSUME CacheInv, [CacheNext]_cacheVars PROVE CacheInv'
  OBVIOUS
<1>1. CASE CacheClock \/ UNCHANGED cacheVars
  BY <1>1 DEF CacheClock, cacheVars, CacheInv
<1>2. ASSUME NEW r \in Readers, Hit(r) \/ \E a \in CachedAddresses : Get(r, a) PROVE CacheInv'
  BY <1>2 DEF Hit, Get, CacheInv
<1>3. ASSUME NEW r \in Readers, Miss(r) PROVE CacheInv'
  BY <1>3, LoadsKeepCache DEF Miss
<1>4. ASSUME NEW a \in CachedAddresses, QueryFails(a) PROVE CacheInv'
  BY <1>4, LoadsKeepCache DEF QueryFails
<1>5. ASSUME NEW a \in CachedAddresses, Refresh(a) PROVE CacheInv'
  BY <1>5, LoadsKeepCache DEF Refresh
<1>6. ASSUME NEW a \in CachedAddresses, LedgerCommitted(a) PROVE CacheInv'
  BY <1>6 DEF LedgerCommitted, CacheInv
<1>7. ASSUME NEW a \in CachedAddresses, Invalidate(a) PROVE CacheInv'
  <2>1. /\ UNCHANGED <<row, pendingLoad, refreshing>> /\ invalidating' = invalidating \ {a}
        /\ raced \subseteq raced' /\ DOMAIN redis' = CachedAddresses
        /\ \A b \in CachedAddresses \ {a} : redis'[b] = redis[b]
    BY <1>7 DEF Invalidate, CacheInv
  <2>2. a \notin raced' => redis'[a] = None /\ pendingLoad[a] = None /\ refreshing[a] = None
    BY <1>7 DEF Invalidate, CacheInv
  <2> QED
    BY <2>1, <2>2, CacheAssumption DEF CacheInv
<1>8. ASSUME NEW a \in CachedAddresses, QueryAnswers(a) PROVE CacheInv'
  BY <1>8 DEF QueryAnswers, CacheInv
<1>9. ASSUME NEW a \in CachedAddresses, RequestLoaded(a) \/ RefreshLoaded(a) PROVE CacheInv'
  BY <1>9, CacheAssumption DEF RequestLoaded, RefreshLoaded, Populate, CacheInv
<1> QED
  BY <1>1, <1>2, <1>3, <1>4, <1>5, <1>6, <1>7, <1>8, <1>9 DEF CacheNext

\* Once the keys of a committed ledger are deleted the cache does not hold an older row, unless
\* a load was under way at that moment or Redis failed (loadAndPopulate, ledgerCommitted).
THEOREM CacheIsFresh == CacheSpec => []StaleOnlyAfterRace
<1>1. CacheInit => CacheInv
  BY CacheAssumption DEF CacheInit, CacheInv
<1>2. CacheInv => StaleOnlyAfterRace
  BY DEF CacheInv, StaleOnlyAfterRace, Cached
<1> QED
  BY <1>1, <1>2, CacheStep, PTL DEF CacheSpec

-----------------------------------------------------------------------------
(***************************************************************************)
(* The limiter, for any clients, windows, limits and mounts.               *)
(***************************************************************************)

Stamps == [Times -> Nat]

\* Counting timestamps: a finite sum of numbers, which grows with each of them.
LEMMA CountType ==
    ASSUME NEW f \in Stamps
    PROVE  Count(f) \in Nat
<1>1. IsFiniteSet(Times) BY FS_Interval, RateAssumption DEF Times
<1>2. Never \in Stamps BY DEF Never, Stamps
<1>3. Count(f) \in Int BY <1>1, SumType DEF Count, Stamps
<1>4. Count(Never) = 0 BY <1>1, SumOfZeros DEF Count, Never
<1>5. Count(Never) <= Count(f)
      <2>1. \A t \in Times : f[t] \in Int /\ Never[t] \in Int /\ Never[t] <= f[t]
            BY DEF Never, Stamps
      <2> QED BY <1>1, <2>1, SumMonotone DEF Count
<1> QED BY <1>3, <1>4, <1>5

LEMMA CountGrows ==
    ASSUME NEW f \in Stamps, NEW g \in Stamps, \A t \in Times : f[t] <= g[t]
    PROVE  Count(f) <= Count(g)
<1>1. IsFiniteSet(Times) BY FS_Interval, RateAssumption DEF Times
<1>2. \A t \in Times : g[t] \in Int /\ f[t] \in Int /\ f[t] <= g[t] BY DEF Stamps
<1> QED BY <1>1, <1>2, SumMonotone DEF Count

LEMMA CountMore ==
    ASSUME NEW f \in Stamps, NEW now \in Times, NEW k \in Nat
    PROVE  /\ [f EXCEPT ![now] = f[now] + k] \in Stamps
           /\ Count([f EXCEPT ![now] = f[now] + k]) = Count(f) + k
<1> DEFINE g == [f EXCEPT ![now] = f[now] + k]
<1>1. IsFiniteSet(Times) BY FS_Interval, RateAssumption DEF Times
<1>2. g \in Stamps BY DEF Stamps
<1>3. /\ \A t \in Times : f[t] \in Int
      /\ g[now] = f[now] + k /\ g[now] \in Int /\ \A t \in Times \ {now} : g[t] = f[t]
      BY DEF Stamps
<1>4. Count(f) \in Nat BY CountType
<1> HIDE DEF g
<1>5. Count(g) = Count(f) + g[now] - f[now] BY <1>1, <1>3, SumUpdate DEF Count
<1>6. Count(g) = Count(f) + k BY <1>3, <1>4, <1>5
<1> QED BY <1>2, <1>6 DEF g

\* Counting each timestamp k times
LEMMA SumScale ==
    ASSUME NEW S, IsFiniteSet(S), NEW k \in Nat, NEW w, NEW v,
           \A c \in S : w[c] \in Int /\ v[c] \in Int /\ w[c] = k * v[c]
    PROVE  SumFunctionOnSet(w, S) = k * SumFunctionOnSet(v, S)
<1> DEFINE F == {s \in SUBSET S : SumFunctionOnSet(w, s) # k * SumFunctionOnSet(v, s)}
<1> SUFFICES ASSUME F # {} PROVE FALSE OBVIOUS
<1>1. PICK s \in F : \A t \in F : t \subseteq s => t = s
      <2>1. F \in SUBSET (SUBSET S) OBVIOUS
      <2> HIDE DEF F
      <2> QED BY <2>1, SmallestSubset
<1>2. s # {}
      <2>1. SumFunctionOnSet(w, {}) = 0 /\ SumFunctionOnSet(v, {}) = 0 BY SumEmpty
      <2>2. k * 0 = 0 OBVIOUS
      <2> QED BY <1>1, <2>1, <2>2
<1>3. PICK x \in s : TRUE BY <1>2
<1>4. s \ {x} \notin F
      <2> HIDE DEF F
      <2> QED BY <1>1, <1>3
<1>5. SumFunctionOnSet(w, s \ {x}) = k * SumFunctionOnSet(v, s \ {x}) BY <1>4
<1>6. IsFiniteSet(s) /\ IsFiniteSet(s \ {x}) BY FS_Subset
<1>7. /\ SumFunctionOnSet(w, s) = w[x] + SumFunctionOnSet(w, s \ {x})
      /\ SumFunctionOnSet(v, s) = v[x] + SumFunctionOnSet(v, s \ {x})
      BY <1>3, <1>6, SumRemove
<1>8. SumFunctionOnSet(v, s \ {x}) \in Int BY <1>6, SumType
<1>9. x \in S /\ w[x] = k * v[x] /\ v[x] \in Int BY <1>3
<1>10. \A i, j \in Int : k * i + k * j = k * (i + j) OBVIOUS
<1>11. SumFunctionOnSet(w, s) = k * SumFunctionOnSet(v, s)
       BY <1>5, <1>7, <1>8, <1>9, <1>10
<1> QED BY <1>1, <1>11

LEMMA CountScaled ==
    ASSUME NEW f \in Stamps, NEW g \in Stamps, NEW k \in Nat, \A t \in Times : g[t] = k * f[t]
    PROVE  Count(g) = k * Count(f)
<1>1. IsFiniteSet(Times) BY FS_Interval, RateAssumption DEF Times
<1>2. \A t \in Times : g[t] \in Int /\ f[t] \in Int /\ g[t] = k * f[t] BY DEF Stamps
<1> QED BY <1>1, <1>2, SumScale DEF Count

\* What is left of the limit holds whole requests.
LEMMA WholeRequests ==
    ASSUME NEW k \in Nat, Mounted * k < maxRequests
    PROVE  Mounted * (k + 1) <= maxRequests
<1>1. PICK share \in Nat : maxRequests = Mounted * share BY RateAssumption
<1>2. Mounted \in Nat BY RateAssumption
<1>3. k < share
      <2> SUFFICES ASSUME share <= k PROVE FALSE OBVIOUS
      <2>1. Mounted * share <= Mounted * k BY <1>2
      <2> QED BY <1>1, <1>2, <2>1
<1>4. k + 1 <= share BY <1>3
<1> QED BY <1>1, <1>2, <1>4

-----------------------------------------------------------------------------
IsPasses(f, stamps) ==
    f = [n \in 0..Mounted |->
            IF n = 0 THEN [hits |-> stamps, passes |-> TRUE]
            ELSE IF f[n - 1].passes THEN Pass(f[n - 1].hits) ELSE f[n - 1]]

\* There is a function from limiters to what a request is past them, as Admitted defines it.
LEMMA PassesExist == ASSUME NEW stamps PROVE \E f : IsPasses(f, stamps)
<1> DEFINE Step(f, n) == IF n = 0 THEN [hits |-> stamps, passes |-> TRUE]
                         ELSE IF f[n - 1].passes THEN Pass(f[n - 1].hits) ELSE f[n - 1]
           Upto(f, m) == \A n \in 0..Mounted : n <= m => f[n] = Step(f, n)
           Without == {m \in Nat : ~ \E f : Upto(f, m)}
<1>0. Mounted \in Nat BY RateAssumption
<1>1. \E f : Upto(f, 0)
      <2> DEFINE f == [n \in {0} |-> [hits |-> stamps, passes |-> TRUE]]
      <2>1. f[0] = [hits |-> stamps, passes |-> TRUE] OBVIOUS
      <2> HIDE DEF f
      <2>2. Upto(f, 0) BY <2>1, <1>0
      <2> QED BY <2>2
<1>2. ASSUME NEW m \in Nat, NEW f, Upto(f, m) PROVE \E g : Upto(g, m + 1)
      <2> DEFINE g == [n \in 0..Mounted |-> Step(f, n)]
      <2>1. ASSUME NEW n \in 0..Mounted, n <= m + 1 PROVE g[n] = Step(g, n)
            <3>1. CASE n = 0 BY <3>1
            <3>2. CASE n # 0
                  <4>1. n - 1 \in 0..Mounted /\ n - 1 <= m BY <1>0, <2>1, <3>2
                  <4>2. f[n - 1] = Step(f, n - 1) BY <1>2, <4>1
                  <4>3. g[n - 1] = Step(f, n - 1) BY <4>1
                  <4>4. g[n] = IF f[n - 1].passes THEN Pass(f[n - 1].hits) ELSE f[n - 1]
                        BY <3>2
                  <4> HIDE DEF g
                  <4>5. g[n - 1] = f[n - 1] BY <4>2, <4>3
                  <4> QED BY <3>2, <4>4, <4>5
            <3> QED BY <3>1, <3>2
      <2> HIDE DEF g
      <2>2. Upto(g, m + 1) BY <2>1
      <2> QED BY <2>2
<1>3. Without = {}
      <2> SUFFICES ASSUME Without # {} PROVE FALSE OBVIOUS
      <2>1. PICK n \in Without : \A m \in Without : n <= m
            <3>1. Without \in SUBSET Nat OBVIOUS
            <3> HIDE DEF Without
            <3> QED BY <3>1, LeastExists
      <2>2. n # 0 BY <1>1, <2>1
      <2>3. n - 1 \in Nat /\ n - 1 \notin Without
            <3>1. n - 1 \in Nat /\ ~ (n <= n - 1) BY <2>2
            <3> HIDE DEF Without
            <3> QED BY <2>1, <3>1
      <2>4. PICK f : Upto(f, n - 1) BY <2>3
      <2>5. \E g : Upto(g, (n - 1) + 1)
            <3> HIDE DEF Upto
            <3> QED BY <1>2, <2>3, <2>4
      <2>6. (n - 1) + 1 = n OBVIOUS
      <2> QED BY <2>1, <2>5, <2>6
<1>4. PICK f : Upto(f, Mounted)
      <2> HIDE DEF Upto
      <2> QED BY <1>0, <1>3
<1> DEFINE g == [n \in 0..Mounted |-> f[n]]
<1>5. ASSUME NEW n \in 0..Mounted PROVE g[n] = Step(g, n)
      <2>1. g[n] = f[n] /\ f[n] = Step(f, n)
            <3>1. g[n] = f[n] /\ n <= Mounted BY <1>0
            <3> HIDE DEF Step, g
            <3> QED BY <1>4, <3>1
      <2>2. CASE n = 0 BY <2>1, <2>2
      <2>3. CASE n # 0
            <3>1. n - 1 \in 0..Mounted BY <1>0, <2>3
            <3>2. g[n - 1] = f[n - 1] BY <3>1
            <3> HIDE DEF g
            <3> QED BY <2>1, <2>3, <3>2
      <2> QED BY <2>2, <2>3
<1>6. g = [n \in 0..Mounted |-> g[n]] OBVIOUS
<1> HIDE DEF g
<1>7. g = [n \in 0..Mounted |-> Step(g, n)] BY <1>5, <1>6
<1> QED BY <1>7 DEF IsPasses

\* What n passes add to the hits that were kept
Passed(kept, n) == [kept EXCEPT ![rateNow] = kept[rateNow] + n]

\* A request that finds room passes every limiter, and one that finds none is stopped by
\* the first.
LEMMA AdmittedWhole ==
    ASSUME rateNow \in Times, NEW stamps \in Stamps, NEW k \in Nat,
           Count(Pruned(stamps)) = Mounted * k
    PROVE  LET result == Admitted(stamps) IN
           /\ Count(Pruned(stamps)) < maxRequests =>
                  result = [hits |-> Passed(Pruned(stamps), Mounted), passes |-> TRUE]
           /\ ~ (Count(Pruned(stamps)) < maxRequests) =>
                  result = [hits |-> Pruned(stamps), passes |-> FALSE]
<1> DEFINE kept == Pruned(stamps)
           room == Count(kept) < maxRequests
           f == CHOOSE g : IsPasses(g, stamps)
           After(n) == IF room THEN [hits |-> Passed(kept, n), passes |-> TRUE]
                       ELSE [hits |-> kept, passes |-> FALSE]
<1>0. Mounted \in Nat /\ Mounted # 0 /\ maxRequests \in Nat /\ windowMs \in Nat \ {0}
      BY RateAssumption
<1>1. IsPasses(f, stamps) BY PassesExist
<1>2. Admitted(stamps) = f[Mounted] BY DEF Admitted, IsPasses
<1> HIDE DEF f
<1>3. ASSUME NEW n \in 0..Mounted
      PROVE  f[n] = IF n = 0 THEN [hits |-> stamps, passes |-> TRUE]
                    ELSE IF f[n - 1].passes THEN Pass(f[n - 1].hits) ELSE f[n - 1]
      BY <1>1 DEF IsPasses
<1>4. kept \in Stamps
      <2>1. \A t \in Times : stamps[t] \in Nat BY DEF Stamps
      <2> QED BY <2>1 DEF Pruned, Stamps
<1>5. room => Mounted * k + Mounted <= maxRequests
      <2>1. room => Mounted * (k + 1) <= maxRequests BY WholeRequests
      <2>2. Mounted * (k + 1) = Mounted * k + Mounted BY <1>0
      <2> QED BY <2>1, <2>2
<1>6. Count(kept) = Mounted * k /\ Mounted * k \in Nat BY <1>0
<1>7. Pass(stamps) = After(1)
      <2>1. Stamped(kept, rateNow) = Passed(kept, 1) BY DEF Stamped, Passed
      <2> HIDE DEF kept
      <2>2. Pass(stamps) = IF Count(kept) >= maxRequests THEN [hits |-> kept, passes |-> FALSE]
                           ELSE [hits |-> Stamped(kept, rateNow), passes |-> TRUE]
            BY DEF Pass, kept
      <2>3. room <=> ~ (Count(kept) >= maxRequests) BY <1>0, <1>6
      <2> QED BY <2>1, <2>2, <2>3
<1>8. ASSUME NEW n \in Nat, room, 1 <= n, n < Mounted
      PROVE  Pass(Passed(kept, n)) = [hits |-> Passed(kept, n + 1), passes |-> TRUE]
      <2> DEFINE now == Passed(kept, n)
      <2>1. now \in Stamps /\ Count(now) = Count(kept) + n BY <1>4, CountMore DEF Passed
      <2>2. Pruned(now) = now
            <3>1. \A t \in Times : kept[t] # 0 => t > rateNow - windowMs
                  BY DEF Pruned
            <3>2. rateNow > rateNow - windowMs BY <1>0, RateAssumption DEF Times
            <3>3. \A t \in Times : now[t] # 0 => t > rateNow - windowMs
                  BY <1>4, <3>1, <3>2 DEF Passed, Stamps
            <3>4. now = [t \in Times |-> now[t]] BY <2>1 DEF Stamps
            <3> HIDE DEF now
            <3>5. \A t \in Times : Pruned(now)[t] = now[t] BY <3>3 DEF Pruned
            <3>6. Pruned(now) = [t \in Times |-> Pruned(now)[t]] BY DEF Pruned
            <3> QED BY <3>4, <3>5, <3>6
      <2>3. ~ (Count(now) >= maxRequests) BY <1>0, <1>5, <1>6, <1>8, <2>1
      <2>4. Stamped(now, rateNow) = Passed(kept, n + 1)
            <3> HIDE DEF kept
            <3>1. now[rateNow] = kept[rateNow] + n /\ kept[rateNow] \in Nat
                  BY <1>4 DEF Passed, Stamps
            <3>2. (kept[rateNow] + n) + 1 = kept[rateNow] + (n + 1) BY <3>1
            <3>3. Stamped(now, rateNow) = [now EXCEPT ![rateNow] = kept[rateNow] + (n + 1)]
                  BY <3>1, <3>2 DEF Stamped
            <3>4. \A x : [now EXCEPT ![rateNow] = x] = [kept EXCEPT ![rateNow] = x]
                  BY <1>4 DEF Passed, Stamps
            <3> HIDE DEF now
            <3> QED BY <3>3, <3>4 DEF Passed
      <2> HIDE DEF now
      <2>5. Pass(now) = [hits |-> Stamped(now, rateNow), passes |-> TRUE]
            BY <2>2, <2>3 DEF Pass
      <2> QED BY <2>4, <2>5 DEF now
<1> HIDE DEF kept
<1> DEFINE Astray == {n \in Nat : 1 <= n /\ n <= Mounted /\ f[n] # After(n)}
<1>9. Astray = {}
      <2> SUFFICES ASSUME Astray # {} PROVE FALSE OBVIOUS
      <2>1. PICK n \in Astray : \A j \in Astray : n <= j
            <3>1. Astray \in SUBSET Nat OBVIOUS
            <3> HIDE DEF Astray
            <3> QED BY <3>1, LeastExists
      <2>2. n \in 0..Mounted /\ 1 <= n /\ f[n] # After(n) BY <1>0, <2>1
      <2>3. CASE n = 1
            <3>1. 0 \in 0..Mounted BY <1>0
            <3>2. f[0] = [hits |-> stamps, passes |-> TRUE] BY <1>3, <3>1
            <3>3. f[1] = Pass(stamps) BY <1>3, <2>2, <2>3, <3>2
            <3> HIDE DEF After
            <3> QED BY <1>7, <2>2, <2>3, <3>3
      <2>4. CASE n # 1
            <3>1. n - 1 \in Nat /\ 1 <= n - 1 /\ n - 1 < Mounted /\ ~ (n <= n - 1)
                  BY <1>0, <2>2, <2>4
            <3>2. n - 1 \notin Astray
                  <4> HIDE DEF Astray
                  <4> QED BY <2>1, <3>1
            <3>3. f[n - 1] = After(n - 1)
                  <4> HIDE DEF After
                  <4> QED BY <1>0, <3>1, <3>2
            <3>4. f[n] = IF f[n - 1].passes THEN Pass(f[n - 1].hits) ELSE f[n - 1]
                  BY <1>3, <2>2
            <3>5. CASE room
                  <4>1. f[n] = Pass(Passed(kept, n - 1)) BY <3>3, <3>4, <3>5
                  <4>2. (n - 1) + 1 = n BY <2>2
                  <4>3. f[n] = [hits |-> Passed(kept, n), passes |-> TRUE]
                        BY <1>8, <3>1, <3>5, <4>1, <4>2
                  <4> QED BY <2>2, <3>5, <4>3
            <3>6. CASE ~ room BY <2>2, <3>3, <3>4, <3>6
            <3> QED BY <3>5, <3>6
      <2> QED BY <2>3, <2>4
<1>10. f[Mounted] = After(Mounted)
       <2>1. Mounted \in Nat /\ 1 <= Mounted /\ Mounted <= Mounted BY <1>0
       <2> HIDE DEF After
       <2> QED BY <1>9, <2>1
<1> QED BY <1>2, <1>10 DEF kept

-----------------------------------------------------------------------------
\* Of the present window, the store has every request that was served, once for each
\* mount; so a request is let through exactly when the window has room for it.
RateInv ==
    /\ rateNow \in Times
    /\ served \in [Clients -> Stamps] /\ hits \in [Clients -> Stamps]
    /\ refused = [c \in Clients |-> refused[c]]
    /\ \A c \in Clients : \A t \in Times :
           /\ t > rateNow => served[c][t] = 0
           /\ t > rateNow - windowMs => hits[c][t] = Mounted * served[c][t]
    /\ WindowIsBounded
    /\ RefusedAtLimit

LEMMA WindowTypes ==
    ASSUME NEW f \in Stamps
    PROVE  Pruned(f) \in Stamps /\ \A from : InWindow(f, from) \in Stamps
<1>1. \A t \in Times : f[t] \in Nat BY DEF Stamps
<1> QED BY <1>1 DEF Pruned, InWindow, Stamps

LEMMA WindowNow ==
    ASSUME RateInv, NEW c \in Clients
    PROVE  Pruned(served[c]) = InWindow(served[c], rateNow - windowMs)
<1>1. \A t \in Times : t > rateNow => served[c][t] = 0 BY DEF RateInv
<1>2. (rateNow - windowMs) + windowMs = rateNow BY RateAssumption DEF RateInv, Times
<1>3. ASSUME NEW t \in Times
      PROVE  (IF t > rateNow - windowMs THEN served[c][t] ELSE 0)
             = IF t > rateNow - windowMs /\ t <= (rateNow - windowMs) + windowMs
               THEN served[c][t] ELSE 0
      BY <1>1, <1>2, RateAssumption DEF RateInv, Times
<1> QED BY <1>3 DEF Pruned, InWindow

LEMMA RateStart == RateInit => RateInv
<1> SUFFICES ASSUME RateInit PROVE RateInv OBVIOUS
<1>1. /\ rateNow = 0 /\ hits = [c \in Clients |-> Never] /\ served = [c \in Clients |-> Never]
      /\ refused = [c \in Clients |-> None]
      BY DEF RateInit
<1>2. rateNow \in Times BY <1>1, RateAssumption DEF Times
<1>3. Never \in Stamps /\ \A t \in Times : Never[t] = 0 BY DEF Never, Stamps
<1>4. 0 = Mounted * 0 BY RateAssumption
<1>5. WindowIsBounded
      <2> SUFFICES ASSUME NEW c \in Clients, NEW end \in 0..rateNow
                   PROVE  Count(InWindow(served[c], end - windowMs)) * Mounted <= maxRequests
          BY DEF WindowIsBounded
      <2> DEFINE f == InWindow(Never, end - windowMs)
      <2>1. \A t \in Times : f[t] = 0 BY <1>3 DEF InWindow
      <2>2. f \in Stamps BY <1>3, WindowTypes
      <2>3. IsFiniteSet(Times) BY FS_Interval, RateAssumption DEF Times
      <2> HIDE DEF f
      <2>4. Count(f) = 0 BY <2>1, <2>3, SumOfZeros DEF Count
      <2>5. 0 * Mounted <= maxRequests BY RateAssumption
      <2> QED BY <1>1, <2>4, <2>5 DEF f
<1>6. RefusedAtLimit BY <1>1 DEF RefusedAtLimit
<1>7. \A c \in Clients : \A t \in Times :
           /\ t > rateNow => served[c][t] = 0
           /\ t > rateNow - windowMs => hits[c][t] = Mounted * served[c][t]
      BY <1>1, <1>3, <1>4
<1>8. served \in [Clients -> Stamps] /\ hits \in [Clients -> Stamps] BY <1>1, <1>3
<1>9. refused = [c \in Clients |-> refused[c]] BY <1>1
<1> QED BY <1>2, <1>5, <1>6, <1>7, <1>8, <1>9 DEF RateInv

LEMMA TickKeepsLimits ==
    ASSUME RateInv, RateTick
    PROVE  RateInv'
<1>1. /\ rateNow' = rateNow + 1 /\ rateNow < MaxRateTime
      /\ hits' = hits /\ served' = served /\ refused' = refused
      BY DEF RateTick
<1>2. rateNow' \in Times /\ rateNow \in Nat BY <1>1, RateAssumption DEF RateInv, Times
<1>3. WindowIsBounded'
      <2> SUFFICES ASSUME NEW c \in Clients, NEW end \in 0..(rateNow + 1)
                   PROVE  Count(InWindow(served[c], end - windowMs)) * Mounted <= maxRequests
          BY <1>1 DEF WindowIsBounded, InWindow, Count
      <2>1. CASE end \in 0..rateNow BY <2>1 DEF RateInv, WindowIsBounded
      <2>2. CASE end = rateNow + 1
            <3> DEFINE now == InWindow(served[c], rateNow - windowMs)
                       next == InWindow(served[c], end - windowMs)
            <3>0. served[c] \in Stamps BY DEF RateInv
            <3>1. now \in Stamps /\ next \in Stamps BY <3>0, WindowTypes
            <3>2. \A t \in Times : t > rateNow => served[c][t] = 0 BY DEF RateInv
            <3>3. ASSUME NEW t \in Times PROVE next[t] <= now[t]
                  <4>1. served[c][t] \in Nat BY <3>0 DEF Stamps
                  <4> QED BY <2>2, <3>2, <4>1, <1>2, RateAssumption DEF InWindow, Times
            <3> HIDE DEF now, next
            <3>4. Count(next) <= Count(now) /\ Count(next) \in Nat /\ Count(now) \in Nat
                  BY <3>1, <3>3, CountGrows, CountType
            <3>5. rateNow \in 0..rateNow BY <1>2
            <3>6. Count(now) * Mounted <= maxRequests BY <3>5 DEF now, RateInv, WindowIsBounded
            <3>7. Count(next) * Mounted <= Count(now) * Mounted BY <3>4, RateAssumption
            <3>8. Count(next) * Mounted \in Int /\ Count(now) * Mounted \in Int
                  BY <3>4, RateAssumption
            <3>9. maxRequests \in Int BY RateAssumption
            <3>10. Count(next) * Mounted <= maxRequests BY <3>6, <3>7, <3>8, <3>9
            <3> QED BY <3>10 DEF next
      <2> QED BY <1>2, <2>1, <2>2
<1>4. RefusedAtLimit' BY <1>1 DEF RateInv, RefusedAtLimit, InWindow, Count
<1>5. \A c \in Clients : \A t \in Times :
           /\ t > rateNow' => served'[c][t] = 0
           /\ t > rateNow' - windowMs => hits'[c][t] = Mounted * served'[c][t]
      <2>1. \A t \in Times : (t > rateNow + 1 => t > rateNow)
                             /\ (t > (rateNow + 1) - windowMs => t > rateNow - windowMs)
            BY <1>2, RateAssumption DEF Times
      <2> QED BY <1>1, <2>1 DEF RateInv
<1>6. /\ served' \in [Clients -> Stamps] /\ hits' \in [Clients -> Stamps]
      /\ refused' = [c \in Clients |-> refused'[c]]
      BY <1>1 DEF RateInv
<1> QED BY <1>2, <1>3, <1>4, <1>5, <1>6 DEF RateInv

\* What is swept away is in no window any more.
LEMMA SweepKeepsWindow ==
    ASSUME RateInv, NEW store, store = hits \/ store = Swept(hits), NEW c \in Clients
    PROVE  /\ store[c] \in Stamps
           /\ \A t \in Times : t > rateNow - windowMs => store[c][t] = hits[c][t]
<1>1. hits[c] \in Stamps BY DEF RateInv
<1>2. CASE store = hits BY <1>1, <1>2
<1>3. CASE store = Swept(hits)
      <2>1. store[c] = IF \A t \in Times : hits[c][t] > 0 => t <= rateNow - windowMs
                       THEN Never ELSE hits[c]
            BY <1>3 DEF Swept
      <2>2. CASE \A t \in Times : hits[c][t] > 0 => t <= rateNow - windowMs
            <3>1. store[c] = Never BY <2>1, <2>2
            <3>2. Never \in Stamps /\ \A t \in Times : Never[t] = 0 BY DEF Never, Stamps
            <3>3. ASSUME NEW t \in Times, t > rateNow - windowMs PROVE hits[c][t] = 0
                  <4>1. hits[c][t] \in Nat BY <1>1 DEF Stamps
                  <4>2. ~ (t <= rateNow - windowMs)
                        BY <3>3, RateAssumption DEF RateInv, Times
                  <4> QED BY <2>2, <4>1, <4>2
            <3> QED BY <3>1, <3>2, <3>3
      <2>3. CASE ~ \A t \in Times : hits[c][t] > 0 => t <= rateNow - windowMs
            BY <1>1, <2>1, <2>3
      <2> QED BY <2>2, <2>3
<1> QED BY <1>2, <1>3

\* What is in the store of a client, and what was served to it, in the present window
LEMMA StoreIsServed ==
    ASSUME RateInv, NEW store, store = hits \/ store = Swept(hits), NEW c \in Clients
    PROVE  /\ Count(Pruned(served[c])) \in Nat
           /\ Count(Pruned(store[c])) = Mounted * Count(Pruned(served[c]))
<1> DEFINE g == Pruned(store[c])
           f == Pruned(served[c])
<1>1. store[c] \in Stamps /\ served[c] \in Stamps BY SweepKeepsWindow DEF RateInv
<1>2. g \in Stamps /\ f \in Stamps BY <1>1, WindowTypes
<1>3. ASSUME NEW t \in Times PROVE g[t] = Mounted * f[t]
      <2>1. CASE t > rateNow - windowMs
            <3>1. store[c][t] = Mounted * served[c][t] BY <2>1, SweepKeepsWindow DEF RateInv
            <3> QED BY <2>1, <3>1 DEF Pruned
      <2>2. CASE ~ (t > rateNow - windowMs)
            <3>1. Mounted * 0 = 0 BY RateAssumption
            <3> QED BY <2>2, <3>1 DEF Pruned
      <2> QED BY <2>1, <2>2
<1>4. Mounted \in Nat BY RateAssumption
<1> HIDE DEF g, f
<1>5. Count(g) = Mounted * Count(f) /\ Count(f) \in Nat BY <1>2, <1>3, <1>4, CountScaled, CountType
<1> QED BY <1>5 DEF g, f

\* A request is let through, and then counted once for each mount, or refused.
LEMMA RequestOutcome ==
    ASSUME RateInv, NEW c \in Clients, Request(c)
    PROVE  \E store :
             /\ store = hits \/ store = Swept(hits)
             /\ rateNow' = rateNow
             /\ \/ /\ Mounted * Count(Pruned(served[c])) < maxRequests
                   /\ hits' = [store EXCEPT ![c] = Passed(Pruned(store[c]), Mounted)]
                   /\ served' = [served EXCEPT ![c] = Passed(served[c], 1)]
                   /\ refused' = refused
                \/ /\ ~ (Mounted * Count(Pruned(served[c])) < maxRequests)
                   /\ hits' = [store EXCEPT ![c] = Pruned(store[c])]
                   /\ served' = served
                   /\ refused' = [refused EXCEPT ![c] = rateNow]
<1> DEFINE store == IF rateNow - lastSweep >= SweepInterval THEN Swept(hits) ELSE hits
           result == Admitted(store[c])
<1>1. /\ rateNow' = rateNow
      /\ hits' = [store EXCEPT ![c] = result.hits]
      /\ IF result.passes
         THEN served' = [served EXCEPT ![c] = Stamped(served[c], rateNow)] /\ refused' = refused
         ELSE refused' = [refused EXCEPT ![c] = rateNow] /\ served' = served
      BY DEF Request
<1>2. store = hits \/ store = Swept(hits) OBVIOUS
<1> HIDE DEF store
<1>3. /\ Count(Pruned(served[c])) \in Nat
      /\ Count(Pruned(store[c])) = Mounted * Count(Pruned(served[c]))
      BY <1>2, StoreIsServed
<1>4. store[c] \in Stamps /\ rateNow \in Times BY <1>2, SweepKeepsWindow DEF RateInv
<1>5. /\ Count(Pruned(store[c])) < maxRequests =>
            result = [hits |-> Passed(Pruned(store[c]), Mounted), passes |-> TRUE]
      /\ ~ (Count(Pruned(store[c])) < maxRequests) =>
            result = [hits |-> Pruned(store[c]), passes |-> FALSE]
      BY <1>3, <1>4, AdmittedWhole
<1> HIDE DEF result
<1>6. CASE Count(Pruned(store[c])) < maxRequests
      <2>1. result.hits = Passed(Pruned(store[c]), Mounted) /\ result.passes = TRUE
            BY <1>5, <1>6
      <2>2. Stamped(served[c], rateNow) = Passed(served[c], 1) BY DEF Stamped, Passed
      <2> QED BY <1>1, <1>2, <1>3, <1>6, <2>1, <2>2
<1>7. CASE ~ (Count(Pruned(store[c])) < maxRequests)
      <2>1. result.hits = Pruned(store[c]) /\ result.passes = FALSE BY <1>5, <1>7
      <2> QED BY <1>1, <1>2, <1>3, <1>7, <2>1
<1> QED BY <1>6, <1>7

LEMMA ServingKeepsLimits ==
    ASSUME RateInv, NEW c \in Clients, NEW store, store = hits \/ store = Swept(hits),
           rateNow' = rateNow, Mounted * Count(Pruned(served[c])) < maxRequests,
           hits' = [store EXCEPT ![c] = Passed(Pruned(store[c]), Mounted)],
           served' = [served EXCEPT ![c] = Passed(served[c], 1)], refused' = refused
    PROVE  RateInv'
<1> DEFINE f == served[c]
           g == Passed(f, 1)
<1>0. /\ rateNow \in Times /\ rateNow \in Nat /\ Mounted \in Nat /\ windowMs \in Nat \ {0}
      /\ maxRequests \in Nat
      BY RateAssumption DEF RateInv, Times
<1>1. f \in Stamps /\ served \in [Clients -> Stamps] BY DEF RateInv
<1>2. g \in Stamps BY <1>0, <1>1, CountMore DEF Passed
<1>3. \A t \in Times : g[t] = IF t = rateNow THEN f[t] + 1 ELSE f[t]
      BY <1>0, <1>1 DEF Passed, Stamps
<1>4. \A d \in Clients : served'[d] = IF d = c THEN g ELSE served[d] BY <1>1
<1>5. store \in [Clients -> Stamps]
      <2>1. \A d \in Clients : store[d] \in Stamps BY SweepKeepsWindow
      <2>2. store = [d \in Clients |-> store[d]] BY DEF RateInv, Swept
      <2> QED BY <2>1, <2>2
<1> DEFINE h == Passed(Pruned(store[c]), Mounted)
<1>6. h \in Stamps
      <2>1. Pruned(store[c]) \in Stamps BY <1>5, WindowTypes
      <2> QED BY <1>0, <2>1, CountMore DEF Passed
<1>7. \A t \in Times : t > rateNow - windowMs =>
         h[t] = IF t = rateNow THEN store[c][t] + Mounted ELSE store[c][t]
      <2>1. Pruned(store[c]) \in Stamps BY <1>5, WindowTypes
      <2>2. \A t \in Times : t > rateNow - windowMs => Pruned(store[c])[t] = store[c][t]
            BY DEF Pruned
      <2> QED BY <1>0, <2>1, <2>2 DEF Passed, Stamps
<1>8. \A d \in Clients : hits'[d] = IF d = c THEN h ELSE store[d] BY <1>5
<1> HIDE DEF g, h, f
<1>9. ASSUME NEW d \in Clients, NEW t \in Times
      PROVE  /\ t > rateNow' => served'[d][t] = 0
             /\ t > rateNow' - windowMs => hits'[d][t] = Mounted * served'[d][t]
      <2>1. /\ t > rateNow => served[d][t] = 0
            /\ t > rateNow - windowMs => store[d][t] = Mounted * served[d][t]
            BY SweepKeepsWindow DEF RateInv
      <2>2. CASE d # c BY <1>4, <1>8, <2>1, <2>2
      <2>3. CASE d = c
            <3>1. f[t] \in Nat BY <1>1 DEF Stamps
            <3>2. served'[d][t] = IF t = rateNow THEN f[t] + 1 ELSE f[t] BY <1>3, <1>4, <2>3
            <3>3. t > rateNow - windowMs =>
                     hits'[d][t] = IF t = rateNow THEN store[d][t] + Mounted ELSE store[d][t]
                  BY <1>7, <1>8, <2>3
            <3>4. Mounted * (f[t] + 1) = Mounted * f[t] + Mounted BY <1>0, <3>1
            <3>5. t = rateNow => ~ (t > rateNow) BY <1>0
            <3> QED BY <2>1, <2>3, <3>2, <3>3, <3>4, <3>5 DEF f
      <2> QED BY <2>2, <2>3
<1>10. WindowIsBounded'
      <2> SUFFICES ASSUME NEW d \in Clients, NEW end \in 0..rateNow
                   PROVE  Count(InWindow(served'[d], end - windowMs)) * Mounted <= maxRequests
          BY DEF WindowIsBounded, InWindow, Count
      <2>1. CASE d # c BY <1>4, <2>1 DEF RateInv, WindowIsBounded
      <2>2. CASE d = c /\ end # rateNow
            <3>1. \A t \in Times : t <= (end - windowMs) + windowMs => t # rateNow
                  BY <1>0, <2>2 DEF Times
            <3>2. \A t \in Times : t <= (end - windowMs) + windowMs => g[t] = f[t]
                  BY <1>3, <3>1
            <3>3. InWindow(g, end - windowMs) = InWindow(f, end - windowMs)
                  BY <3>2 DEF InWindow
            <3> QED BY <1>4, <2>2, <3>3 DEF RateInv, WindowIsBounded, f
      <2>3. CASE d = c /\ end = rateNow
            <3> DEFINE before == InWindow(f, rateNow - windowMs)
                       after == InWindow(g, rateNow - windowMs)
            <3>1. before \in Stamps /\ after \in Stamps BY <1>1, <1>2, WindowTypes
            <3>2. \A t \in Times : after[t] = IF t = rateNow THEN before[t] + 1 ELSE before[t]
                  <4>1. rateNow > rateNow - windowMs /\ rateNow <= (rateNow - windowMs) + windowMs
                        BY <1>0
                  <4> QED BY <1>3, <4>1 DEF InWindow
            <3>3. after = [before EXCEPT ![rateNow] = before[rateNow] + 1]
                  <4> HIDE DEF before, after
                  <4> QED BY <3>1, <3>2, <1>0 DEF Stamps
            <3>4. before = Pruned(f) BY WindowNow DEF f
            <3> HIDE DEF before, after
            <3>5. Count(before) \in Nat /\ Count(after) = Count(before) + 1
                  BY <1>0, <3>1, <3>3, CountMore, CountType
            <3>6. Mounted * (Count(before) + 1) <= maxRequests
                  BY <3>4, <3>5, WholeRequests DEF f
            <3>7. Count(after) * Mounted = Mounted * (Count(before) + 1) BY <1>0, <3>5
            <3>8. Count(after) * Mounted <= maxRequests BY <3>6, <3>7
            <3> QED BY <1>4, <2>3, <3>8 DEF after
      <2> QED BY <2>1, <2>2, <2>3
<1>11. RefusedAtLimit'
      <2> SUFFICES ASSUME NEW d \in Clients, refused[d] # None
                   PROVE  Count(InWindow(served'[d], refused[d] - windowMs)) * Mounted >= maxRequests
          BY DEF RefusedAtLimit, InWindow, Count
      <2> DEFINE before == InWindow(served[d], refused[d] - windowMs)
                 after == InWindow(served'[d], refused[d] - windowMs)
      <2>1. served[d] \in Stamps /\ served'[d] \in Stamps BY <1>1, <1>2, <1>4
      <2>2. before \in Stamps /\ after \in Stamps BY <2>1, WindowTypes
      <2>3. \A t \in Times : served[d][t] \in Nat /\ served[d][t] <= served'[d][t]
            BY <1>3, <1>4, <2>1 DEF Stamps, f
      <2>4. \A t \in Times : before[t] <= after[t] BY <2>3 DEF InWindow
      <2>5. Count(before) * Mounted >= maxRequests BY DEF RateInv, RefusedAtLimit
      <2> HIDE DEF before, after
      <2>6. Count(before) <= Count(after) /\ Count(before) \in Nat /\ Count(after) \in Nat
            BY <2>2, <2>4, CountGrows, CountType
      <2>7. Count(before) * Mounted <= Count(after) * Mounted BY <1>0, <2>6
      <2>8. Count(after) * Mounted \in Int /\ Count(before) * Mounted \in Int BY <1>0, <2>6
      <2>9. Count(after) * Mounted >= maxRequests BY <1>0, <2>5, <2>7, <2>8
      <2> QED BY <2>9 DEF after
<1>12. /\ served' \in [Clients -> Stamps] /\ hits' \in [Clients -> Stamps]
       /\ refused' = [d \in Clients |-> refused'[d]]
       BY <1>1, <1>2, <1>5, <1>6 DEF RateInv, g, h, f
<1> QED BY <1>0, <1>9, <1>10, <1>11, <1>12 DEF RateInv

LEMMA RefusingKeepsLimits ==
    ASSUME RateInv, NEW c \in Clients, NEW store, store = hits \/ store = Swept(hits),
           rateNow' = rateNow, ~ (Mounted * Count(Pruned(served[c])) < maxRequests),
           hits' = [store EXCEPT ![c] = Pruned(store[c])], served' = served,
           refused' = [refused EXCEPT ![c] = rateNow]
    PROVE  RateInv'
<1>0. /\ rateNow \in Times /\ rateNow \in Nat /\ Mounted \in Nat /\ windowMs \in Nat \ {0}
      /\ maxRequests \in Nat
      BY RateAssumption DEF RateInv, Times
<1>1. store \in [Clients -> Stamps]
      <2>1. \A d \in Clients : store[d] \in Stamps BY SweepKeepsWindow
      <2>2. store = [d \in Clients |-> store[d]] BY DEF RateInv, Swept
      <2> QED BY <2>1, <2>2
<1>2. Pruned(store[c]) \in Stamps BY <1>1, WindowTypes
<1>3. ASSUME NEW d \in Clients, NEW t \in Times
      PROVE  /\ t > rateNow' => served'[d][t] = 0
             /\ t > rateNow' - windowMs => hits'[d][t] = Mounted * served'[d][t]
      <2>1. /\ t > rateNow => served[d][t] = 0
            /\ t > rateNow - windowMs => store[d][t] = Mounted * served[d][t]
            BY SweepKeepsWindow DEF RateInv
      <2>2. t > rateNow - windowMs => hits'[d][t] = store[d][t]
            BY <1>1 DEF Pruned
      <2> QED BY <2>1, <2>2
<1>4. WindowIsBounded' BY DEF RateInv, WindowIsBounded, InWindow, Count
<1>5. RefusedAtLimit'
      <2> SUFFICES ASSUME NEW d \in Clients, refused'[d] # None
                   PROVE  Count(InWindow(served[d], refused'[d] - windowMs)) * Mounted >= maxRequests
          BY DEF RefusedAtLimit, InWindow, Count
      <2>1. CASE d # c
            <3>1. refused'[d] = refused[d] BY <2>1 DEF RateInv
            <3> QED BY <3>1 DEF RateInv, RefusedAtLimit
      <2>2. CASE d = c
            <3>1. refused'[d] = rateNow BY <2>2 DEF RateInv
            <3> DEFINE now == Count(Pruned(served[c]))
            <3>2. now \in Nat
                  <4>1. hits = hits OBVIOUS
                  <4> QED BY <4>1, StoreIsServed
            <3>3. Count(InWindow(served[d], refused'[d] - windowMs)) = now
                  BY <2>2, <3>1, WindowNow
            <3>4. ~ (Mounted * now < maxRequests) OBVIOUS
            <3> HIDE DEF now
            <3>5. now * Mounted = Mounted * now /\ now * Mounted \in Int BY <1>0, <3>2
            <3>6. now * Mounted >= maxRequests BY <1>0, <3>4, <3>5
            <3> QED BY <3>3, <3>6
      <2> QED BY <2>1, <2>2
<1>6. /\ served' \in [Clients -> Stamps] /\ hits' \in [Clients -> Stamps]
      /\ refused' = [d \in Clients |-> refused'[d]]
      BY <1>1, <1>2 DEF RateInv
<1> QED BY <1>0, <1>3, <1>4, <1>5, <1>6 DEF RateInv

LEMMA RateHolds == RateInv /\ [RateNext]_rateVars => RateInv'
<1> SUFFICES ASSUME RateInv, [RateNext]_rateVars PROVE RateInv' OBVIOUS
<1>1. CASE RateTick BY <1>1, TickKeepsLimits
<1>2. ASSUME NEW c \in Clients, Request(c) PROVE RateInv'
      BY <1>2, RequestOutcome, ServingKeepsLimits, RefusingKeepsLimits
<1>3. CASE UNCHANGED rateVars
      <2>1. rateNow' = rateNow /\ hits' = hits /\ served' = served /\ refused' = refused
            BY <1>3 DEF rateVars
      <2> QED BY <2>1 DEF RateInv, WindowIsBounded, RefusedAtLimit, InWindow, Count
<1> QED BY <1>1, <1>2, <1>3 DEF RateNext

\* However many clients there are, and however long the window and often the limiter is
\* mounted: no window lets more through than it may, and none refuses before.
THEOREM LimitsAreKept == RateSpec => [](WindowIsBounded /\ RefusedAtLimit)
<1>1. RateInv => WindowIsBounded /\ RefusedAtLimit BY DEF RateInv
<1> QED BY <1>1, RateStart, RateHolds, PTL DEF RateSpec
=============================================================================
