---------------------------- MODULE ContractCalls ----------------------------
(***************************************************************************)
(* How the frontend invokes the registry (lib/soroban.ts,                  *)
(* lib/sorobanTxHelpers.ts) over a pool of RPC nodes                       *)
(* (lib/sorobanRpcPool.ts): read the account's sequence number, build and  *)
(* simulate, have the wallet sign, send, and poll for the outcome.  Every  *)
(* request goes to the nodes one after the other, the healthiest first,    *)
(* until one gives an answer that is not the node's own fault.             *)
(***************************************************************************)
EXTENDS EventLoop

CONSTANTS
    RpcNodes,
    Submissions,        \* invocations, all by one account
    maxPolls,           \* 25 or 45 in the code
    maxHealth, failurePenalty, successBonus, cooldown,
    txLifetime,         \* TransactionBuilder.setTimeout
    MaxCallTime         \* bound: the clock

ASSUME CallsAssumption ==
    /\ {maxPolls, maxHealth, failurePenalty, successBonus, cooldown, txLifetime, MaxCallTime}
           \subseteq Nat
    /\ None \notin {"success", "failed", "timed out", "error", "refused", "cancelled", "exhausted"}

VARIABLES
    callTime,
    health,             \* per node, its score and when its cooldown ends
    accountSeq,         \* the account's sequence number on the ledger
    tx,                 \* per submission, what the network knows of its transaction
    call                \* per submission, how far it is

callVars == <<callTime, health, accountSeq, tx, call>>

\* at : the request or prompt awaited; nodes : the ranked nodes not asked yet, the first
\* being asked; unheard : an attempt to send ended without an answer.
NoCall == [at |-> "idle", nodes |-> << >>, seq |-> 0, until |-> 0, polls |-> 0,
           unheard |-> FALSE, result |-> None]

CallInit ==
    /\ callTime = 0
    /\ health = [n \in RpcNodes |-> [score |-> maxHealth, cooldownUntil |-> 0]]
    /\ accountSeq = 0
    /\ tx = [s \in Submissions |-> "unknown"]
    /\ call = [s \in Submissions |-> NoCall]

Smaller(a, b) == IF a < b THEN a ELSE b
Larger(a, b) == IF a > b THEN a ELSE b

CoolingDown(n) == health[n].cooldownUntil > callTime

\* Nodes that are not cooling down, then higher scores; ties are broken by latency.
Preferred(m, n) ==
    \/ ~ CoolingDown(m) /\ CoolingDown(n)
    \/ CoolingDown(m) = CoolingDown(n) /\ health[m].score >= health[n].score

Rankings ==
    {r \in [1..Cardinality(RpcNodes) -> RpcNodes] :
        \A i, j \in DOMAIN r : i < j => r[i] # r[j] /\ Preferred(r[i], r[j])}

recordSuccess(n) ==
    health' = [health EXCEPT ![n] = [score |-> Smaller(maxHealth, @.score + successBonus),
                                     cooldownUntil |-> 0]]

recordFailure(n) ==
    health' = [health EXCEPT ![n] = [score |-> Larger(0, @.score - failurePenalty),
                                     cooldownUntil |-> callTime + cooldown]]

\* The submission goes on to a request: execute() ranks the nodes as they are now.
Requests(s, next) == \E r \in Rankings : call' = [call EXCEPT ![s] = [next EXCEPT !.nodes = r]]

Ends(s, result) ==
    call' = [call EXCEPT ![s] = [call[s] EXCEPT !.at = "done", !.result = result,
                                                !.nodes = << >>, !.polls = 0]]

Asked(s) == Head(call[s].nodes)
Awaits(s, request) == call[s].at = request /\ call[s].nodes # << >>

Begin(s) ==
    /\ call[s].at = "idle"
    /\ Requests(s, [call[s] EXCEPT !.at = "account"])
    /\ UNCHANGED <<callTime, health, accountSeq, tx>>

\* A node fails in a way another one may not: it is sick, overloaded or out of reach.  A
\* transaction it was sent may have reached the network all the same.
NodeFails(s) ==
    LET last == Len(call[s].nodes) = 1
        sending == call[s].at = "send"
    IN
    /\ call[s].at \in {"account", "simulate", "send", "poll"}
    /\ recordFailure(Asked(s))
    /\ call' = [call EXCEPT ![s] =
                    [call[s] EXCEPT !.nodes = Tail(@),
                                    !.unheard = @ \/ sending,
                                    !.at = IF last THEN "done" ELSE @,
                                    !.polls = IF last THEN 0 ELSE @,
                                    !.result = IF last THEN "exhausted" ELSE @]]
    /\ \/ UNCHANGED tx
       \/ sending /\ tx[s] = "unknown" /\ tx' = [tx EXCEPT ![s] = "queued"]
    /\ UNCHANGED <<callTime, accountSeq>>

\* TRY_AGAIN_LATER: the node is overloaded and has not taken the transaction.
TryAgainLater(s) ==
    /\ Awaits(s, "send")
    /\ recordFailure(Asked(s))
    /\ IF Len(call[s].nodes) = 1 THEN Ends(s, "exhausted")
       ELSE call' = [call EXCEPT ![s] = [call[s] EXCEPT !.nodes = Tail(@)]]
    /\ UNCHANGED <<callTime, accountSeq, tx>>

\* getAccount, from a node that may be a ledger behind; the simulation follows.
AccountAnswers(s) ==
    /\ Awaits(s, "account")
    /\ recordSuccess(Asked(s))
    /\ \E seq \in {accountSeq, Larger(0, accountSeq - 1)} :
           Requests(s, [call[s] EXCEPT !.at = "simulate", !.seq = seq + 1,
                                       !.until = callTime + txLifetime])
    /\ UNCHANGED <<callTime, accountSeq, tx>>

\* prepareTransaction: the wallet is asked, or the contract refuses.
SimulationAnswers(s) ==
    /\ Awaits(s, "simulate")
    /\ \/ /\ recordSuccess(Asked(s))
          /\ call' = [call EXCEPT ![s] = [call[s] EXCEPT !.at = "sign", !.nodes = << >>]]
       \/ /\ Ends(s, "refused")
          /\ UNCHANGED health
    /\ UNCHANGED <<callTime, accountSeq, tx>>

WalletAnswers(s) ==
    /\ call[s].at = "sign"
    /\ \/ Requests(s, [call[s] EXCEPT !.at = "send"])
       \/ Ends(s, "cancelled")
    /\ UNCHANGED <<callTime, health, accountSeq, tx>>

Valid(s) == call[s].seq = accountSeq + 1 /\ callTime <= call[s].until

\* sendTransaction: PENDING, DUPLICATE for one that is queued, else ERROR.
SendAnswers(s) ==
    /\ Awaits(s, "send")
    /\ recordSuccess(Asked(s))
    /\ IF tx[s] = "queued" \/ (tx[s] = "unknown" /\ Valid(s))
       THEN /\ tx' = [tx EXCEPT ![s] = "queued"]
            /\ Requests(s, [call[s] EXCEPT !.at = "poll"])
       ELSE /\ Ends(s, "error")
            /\ UNCHANGED tx
    /\ UNCHANGED <<callTime, accountSeq>>

\* Mutant: a transaction that is not found is polled for without counting.
PollAgain_Uncounted(s) ==
    Requests(s, call[s])

\* getTransaction says NOT_FOUND: the loop goes on, or gives up.
PollAgain(s) ==
    IF call[s].polls + 1 = maxPolls THEN Ends(s, "timed out")
    ELSE Requests(s, [call[s] EXCEPT !.polls = @ + 1])

PollAnswers(s) ==
    /\ Awaits(s, "poll")
    /\ recordSuccess(Asked(s))
    /\ \/ PollAgain(s)      \* the node may not know of the transaction yet
       \/ tx[s] = "applied" /\ Ends(s, "success")
       \/ tx[s] = "failed" /\ Ends(s, "failed")
    /\ UNCHANGED <<callTime, accountSeq, tx>>

\* The network applies a queued transaction, drops it, or the contract fails in it.
LedgerApplies(s) ==
    /\ tx[s] = "queued"
    /\ IF Valid(s)
       THEN /\ accountSeq' = accountSeq + 1
            /\ \E outcome \in {"applied", "failed"} : tx' = [tx EXCEPT ![s] = outcome]
       ELSE /\ tx' = [tx EXCEPT ![s] = "dropped"]
            /\ UNCHANGED accountSeq
    /\ UNCHANGED <<callTime, health, call>>

CallClock ==
    /\ callTime < MaxCallTime
    /\ callTime' = callTime + 1
    /\ UNCHANGED <<health, accountSeq, tx, call>>

NodeAnswers(s) ==
    \/ NodeFails(s) \/ TryAgainLater(s) \/ AccountAnswers(s)
    \/ SimulationAnswers(s) \/ SendAnswers(s) \/ PollAnswers(s)

CallNext ==
    \/ \E s \in Submissions :
           Begin(s) \/ NodeAnswers(s) \/ WalletAnswers(s) \/ LedgerApplies(s)
    \/ CallClock

CallSpec == CallInit /\ [][CallNext]_callVars
-----------------------------------------------------------------------------
\* A submission that the node refused ("RPC submission error") has no effect, then or
\* later: the user may safely submit again.  Only after an attempt to send that got no
\* answer may the transaction have been applied: sent again to the next node, it is
\* refused for the sequence number it used itself.
RefusedHasNoEffect ==
    \A s \in Submissions :
        call[s].result \in {"error", "refused", "cancelled"} /\ ~ call[s].unheard
            => tx[s] \notin {"queued", "applied"}

\* A submission the wallet signed ends, with an answer or an error, whatever the nodes
\* and the other submissions of the page do (the retries of execute, the polling loop).
SubmissionsEnd ==
    \A s \in Submissions : call[s].at \in {"send", "poll"} ~> call[s].at = "done"

\* A submission comes to an end, and one that was refused may be made again.
SubmissionsAreAnswered == []RefusedHasNoEffect /\ SubmissionsEnd
=============================================================================
