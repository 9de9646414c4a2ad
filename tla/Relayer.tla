------------------------------ MODULE Relayer -------------------------------
(***************************************************************************)
(* How the scores of the backend reach other chains: the engine that       *)
(* batches proofs, and the oracle worker that submits the states of        *)
(* ledgers.                                                                *)
(***************************************************************************)
EXTENDS EventLoop

-----------------------------------------------------------------------------
(***************************************************************************)
(* The aggregation pipeline of the proof relayer: ProofBatchEngine, its    *)
(* DurableProofQueue and the RelayerService in front of them               *)
(* (backend/src/relayer).  One event loop runs several asynchronous calls: *)
(* every action is the code between two awaits.  A score is the number of  *)
(* the update that set it, and 0 is no score.                              *)
(***************************************************************************)

CONSTANTS
    ScoredAccounts,       \* the Stellar addresses whose scores are buffered
    BatchCalls,     \* bound: calls of the engine in progress at a time
    maxBatchSize,
    MaxScores,      \* bound: updates of scores
    MaxFailures     \* bound: crashes, failed writes and failed deliveries

ASSUME ProofBatchingAssumption ==
    /\ None \notin ScoredAccounts \cup [ScoredAccounts -> 0 .. MaxScores]
    /\ maxBatchSize \in Nat \ {0}
    /\ MaxScores \in Nat
    /\ MaxFailures \in Nat

VARIABLES
    items,      \* the queue in memory: a score of each address
    file,       \* the queue on disk, or None
    tmp,        \* the temporary file of this process
    restored, flushing,
    batchCall,  \* what each call awaits, and what it holds meanwhile
    newest,     \* the score of each address last put in the queue
    sent,       \* the scores of the batches onBatchReady accepted
    updates,    \* updates so far
    failures,   \* crashes, failed writes and failed deliveries so far
    mishaps     \* which of the ways to lose a score have happened

batchVars == <<items, file, tmp, restored, flushing, batchCall, newest, sent,
               updates, failures, mishaps>>

Queues == [ScoredAccounts -> 0..MaxScores]
EmptyQueue == [a \in ScoredAccounts |-> 0]
Buffered(q) == {a \in ScoredAccounts : q[a] # 0}

\* awaits : where the call is suspended; op : what it is part of; account, score :
\* the update of an enqueue; batch : what a flush drained; payload : what persist
\* writes.
BatchIdle == [awaits |-> "nothing", op |-> "none", account |-> None, score |-> 0,
              batch |-> EmptyQueue, payload |-> EmptyQueue]

BatchInit ==
    /\ items = EmptyQueue
    /\ file = None
    /\ tmp = None
    /\ restored = FALSE
    /\ flushing = FALSE
    /\ batchCall = [c \in BatchCalls |-> BatchIdle]
    /\ newest = EmptyQueue
    /\ sent = {}
    /\ updates = 0
    /\ failures = 0
    /\ mishaps = {}

Suspend(c, call) == batchCall' = [batchCall EXCEPT ![c] = call]
Return(c) == Suspend(c, BatchIdle)

Persisting(c) == batchCall[c].awaits \in {"write", "rename", "rename again"}

\* persist() up to its first await; every call writes the same temporary file.
Persist(c, call, op, payload) ==
    /\ Suspend(c, [call EXCEPT !.awaits = "write", !.op = op, !.payload = payload])
    /\ mishaps' = mishaps \cup
           (IF \E d \in BatchCalls \ {c} : Persisting(d) THEN {"overlapping writes"} ELSE {})

\* restore() reads the file unless it is known to be read.
AwaitRestore(c, call) ==
    Suspend(c, [call EXCEPT !.awaits = IF restored THEN "turn" ELSE "read"])
-----------------------------------------------------------------------------
StartService(c) ==
    /\ batchCall[c] = BatchIdle
    /\ ~restored
    /\ AwaitRestore(c, [BatchIdle EXCEPT !.op = "start"])
    /\ UNCHANGED <<items, file, tmp, restored, flushing, newest, sent, updates,
                   failures, mishaps>>

\* updateScore and bufferScore
Enqueue(c, a) ==
    /\ batchCall[c] = BatchIdle
    /\ updates < MaxScores
    /\ updates' = updates + 1
    /\ AwaitRestore(c, [BatchIdle EXCEPT !.op = "enqueue", !.account = a,
                                         !.score = updates + 1])
    /\ UNCHANGED <<items, file, tmp, restored, flushing, newest, sent, failures, mishaps>>

\* flush, and flushIfDue on every tick of the timer, whose TTL may be over.
Flush(c) ==
    /\ batchCall[c] = BatchIdle
    /\ ~flushing
    /\ AwaitRestore(c, [BatchIdle EXCEPT !.op = "flush"])
    /\ UNCHANGED <<items, file, tmp, restored, flushing, newest, sent, updates,
                   failures, mishaps>>

\* Calls that began before the first read was over each read the file, and each
\* puts it in place of the queue.
Restored(c) ==
    /\ batchCall[c].awaits = "read"
    /\ IF batchCall[c].op = "start" THEN Return(c)
       ELSE Suspend(c, [batchCall[c] EXCEPT !.awaits = "turn"])
    /\ items' = IF file = None THEN items ELSE file
    /\ restored' = TRUE
    /\ mishaps' = mishaps \cup (IF restored THEN {"second restore"} ELSE {})
    /\ UNCHANGED <<file, tmp, flushing, newest, sent, updates, failures>>

Buffer(c) ==
    LET call == batchCall[c]
        queue == [items EXCEPT ![call.account] = call.score]
    IN
    /\ call.awaits = "turn" /\ call.op = "enqueue"
    /\ items' = queue
    /\ newest' = [newest EXCEPT ![call.account] = call.score]
    /\ Persist(c, call, "enqueue", queue)
    /\ UNCHANGED <<file, tmp, restored, flushing, sent, updates, failures>>

\* flush looked at flushing before it awaited the restore.
Drain(c) ==
    /\ batchCall[c].awaits = "turn" /\ batchCall[c].op = "flush"
    /\ Buffered(items) # {}
    /\ flushing' = TRUE
    /\ items' = EmptyQueue
    /\ Persist(c, [batchCall[c] EXCEPT !.batch = items], "drain", EmptyQueue)
    /\ UNCHANGED <<file, tmp, restored, newest, sent, updates, failures>>

NothingToDrain(c) ==
    /\ batchCall[c].awaits = "turn" /\ batchCall[c].op = "flush"
    /\ Buffered(items) = {}
    /\ Return(c)
    /\ UNCHANGED <<items, file, tmp, restored, flushing, newest, sent, updates,
                   failures, mishaps>>
-----------------------------------------------------------------------------
\* Mutant: the flag of a failed flush stays set.
Persisted_KeepsFlag(c) ==
    LET call == batchCall[c] IN
    /\ CASE call.op = "drain" -> Suspend(c, [call EXCEPT !.awaits = "delivery"])
         [] call.op = "enqueue" /\ Cardinality(Buffered(items)) >= maxBatchSize /\ ~flushing ->
                Suspend(c, [BatchIdle EXCEPT !.awaits = "turn", !.op = "flush"])
         [] OTHER -> Return(c)
    /\ UNCHANGED flushing

\* What follows a persist that succeeded, and one that did not: a drain that fails
\* is outside the try block of flush.
Persisted(c) ==
    LET call == batchCall[c] IN
    /\ CASE call.op = "drain" -> Suspend(c, [call EXCEPT !.awaits = "delivery"])
         [] call.op = "enqueue" /\ Cardinality(Buffered(items)) >= maxBatchSize /\ ~flushing ->
                Suspend(c, [BatchIdle EXCEPT !.awaits = "turn", !.op = "flush"])
         [] OTHER -> Return(c)
    /\ flushing' = (flushing /\ call.op # "replace")

PersistFails(c) ==
    /\ Return(c)
    /\ flushing' = (flushing /\ batchCall[c].op # "replace")

WriteFile(c) ==
    /\ batchCall[c].awaits = "write"
    /\ tmp' = batchCall[c].payload
    /\ Suspend(c, [batchCall[c] EXCEPT !.awaits = "rename"])
    /\ UNCHANGED <<items, file, restored, flushing, newest, sent, updates, failures, mishaps>>

WriteFails(c) ==
    /\ batchCall[c].awaits = "write"
    /\ failures < MaxFailures
    /\ failures' = failures + 1
    /\ PersistFails(c)
    /\ mishaps' = mishaps \cup {"failed write"}
    /\ UNCHANGED <<items, file, tmp, restored, newest, sent, updates>>

Rename(c) ==
    /\ batchCall[c].awaits \in {"rename", "rename again"}
    /\ tmp # None
    /\ file' = tmp
    /\ tmp' = None
    /\ Persisted(c)
    /\ UNCHANGED <<items, restored, newest, sent, updates, failures, mishaps>>

\* A rename without its temporary file deletes the queue on disk and tries again.
RenameFails(c) ==
    /\ batchCall[c].awaits \in {"rename", "rename again"}
    /\ tmp = None
    /\ IF batchCall[c].awaits = "rename"
       THEN /\ file' = None
            /\ Suspend(c, [batchCall[c] EXCEPT !.awaits = "rename again"])
            /\ UNCHANGED flushing
       ELSE PersistFails(c) /\ UNCHANGED file
    /\ UNCHANGED <<items, tmp, restored, newest, sent, updates, failures, mishaps>>
-----------------------------------------------------------------------------
DeliverBatch(c) ==
    /\ batchCall[c].awaits = "delivery"
    /\ sent' = sent \cup {batchCall[c].batch[a] : a \in Buffered(batchCall[c].batch)}
    /\ flushing' = FALSE
    /\ Return(c)
    /\ UNCHANGED <<items, file, tmp, restored, newest, updates, failures, mishaps>>

\* The batch cannot be generated or is refused: it replaces the queue.
DeliveryFails(c) ==
    LET call == batchCall[c] IN
    /\ call.awaits = "delivery"
    /\ failures < MaxFailures
    /\ failures' = failures + 1
    /\ items' = call.batch
    /\ Suspend(c, [call EXCEPT !.awaits = "write", !.op = "replace",
                               !.payload = call.batch])
    /\ mishaps' = mishaps
           \cup (IF \E d \in BatchCalls \ {c} : Persisting(d) THEN {"overlapping writes"} ELSE {})
           \cup (IF Buffered(items) = {} THEN {} ELSE {"replaced queue"})
    /\ UNCHANGED <<file, tmp, restored, flushing, newest, sent, updates>>

\* The process dies and is started again: what it held in memory is gone.
CrashRelayer ==
    /\ failures < MaxFailures
    /\ failures' = failures + 1
    /\ items' = EmptyQueue
    /\ tmp' = None
    /\ restored' = FALSE
    /\ flushing' = FALSE
    /\ batchCall' = [c \in BatchCalls |-> BatchIdle]
    /\ mishaps' = mishaps \cup
           (IF \A c \in BatchCalls : batchCall[c].awaits \in {"nothing", "read", "turn"}
            THEN {} ELSE {"crash midway"})
    /\ UNCHANGED <<file, newest, sent, updates>>

CallStep(c) ==
    \/ Restored(c) \/ Buffer(c) \/ Drain(c) \/ NothingToDrain(c)
    \/ WriteFile(c) \/ Rename(c) \/ RenameFails(c) \/ DeliverBatch(c)

\* The timer that RelayerService.start arms
TimerTick == \E c \in BatchCalls : Flush(c)

BatchNext ==
    \/ \E c \in BatchCalls :
           \/ StartService(c) \/ \E a \in ScoredAccounts : Enqueue(c, a)
           \/ CallStep(c) \/ WriteFails(c) \/ DeliveryFails(c)
    \/ TimerTick
    \/ CrashRelayer

BatchSpec == BatchInit /\ [][BatchNext]_batchVars
-----------------------------------------------------------------------------
InFlight(a) == {batchCall[c].batch[a] : c \in BatchCalls}
OnDisk(a) == IF restored \/ file = None THEN {} ELSE {file[a]}

\* The newest score of an address is in the queue, in a batch under way, delivered,
\* or on disk for the next restore.  Flushes, enqueues, refused batches and restarts
\* may interleave; only the five mishaps lose a score (proofBatchEngine.ts).
NothingIsDropped ==
    mishaps = {} =>
        \A a \in Buffered(newest) : newest[a] \in {items[a]} \cup InFlight(a) \cup sent \cup OnDisk(a)

\* Between persists the queue on disk is the queue in memory, drained and refused
\* batches included: this is what a restart may rely on (durableQueue.ts).
QueueIsOnDisk ==
    mishaps = {} /\ restored /\ (\A c \in BatchCalls : ~Persisting(c)) =>
        file = items \/ (file = None /\ items = EmptyQueue)

\* A score that was buffered reaches onBatchReady or is superseded, unless a mishap
\* drops it or leaves the engine flushing (flushIfDue, flush).
ScoresAreSent ==
    \A a \in ScoredAccounts : \A s \in 1..MaxScores :
        newest[a] = s ~> s \in sent \/ newest[a] # s \/ mishaps # {}

\* What the relayer may rely on: short of a mishap no score is lost, a restart finds the
\* queue as it was, and every score is sent.
ScoresArrive == []NothingIsDropped /\ []QueueIsOnDisk /\ ScoresAreSent

-----------------------------------------------------------------------------
(***************************************************************************)
(* The relayer that proposes batches of trust scores to an optimistic      *)
(* oracle on another chain and defends them against challenges             *)
(* (backend/src/workers/crossChainRelayer.ts).  Every action is the code   *)
(* between two awaits.  A batch is abstracted to the version of the        *)
(* Soroban scores its entries were taken from.  The oracle is known only   *)
(* by the calls the relayer makes.                                         *)
(*A defence may end in any of its ways: Soroban moves on between two calls.*)
(***************************************************************************)

CONSTANTS
    OracleSubmissions,    \* bound: calls of submitBatch in progress at a time
    MaxNonce,       \* bound: nonces; those below one only follow a clash
    MaxLedgerState, \* bound: versions of the scores on Soroban
    MaxRestarts     \* bound: restarts of the relayer

ASSUME RelayerAssumption ==
    /\ MaxNonce \in Nat
    /\ MaxLedgerState \in Nat \ {0}
    /\ MaxRestarts \in Nat

VARIABLES
    currentNonce,
    batchStore,     \* the stored batch of each nonce: a version, or 0
    submission,     \* what each call of submitBatch awaits
    proposed,       \* per nonce, the versions whose proposal was mined
    resolved,       \* nonces whose challenge was resolved
    defence,        \* the challenge being handled
    restarts,
    clashes         \* ways in which two submissions came to share a nonce

relayerVars == <<currentNonce, batchStore, submission, proposed, resolved,
                 defence, restarts, clashes>>

Nonce == 1..MaxNonce
Version == 1..MaxLedgerState
NoSubmission == [awaits |-> "nothing", nonce |-> 0, entries |-> 0]
NoDefence == [awaits |-> "nothing", nonce |-> 0]

Active(s) == submission[s] # NoSubmission
OthersActive(s) == \E t \in OracleSubmissions \ {s} : Active(t)

\* lastProposedBatchNonce of the oracle
LastProposed ==
    CHOOSE n \in 0..MaxNonce :
        /\ n = 0 \/ proposed[n] # {}
        /\ \A m \in Nonce : m > n => proposed[m] = {}

RelayerInit ==
    /\ currentNonce = 0
    /\ batchStore = [n \in Nonce |-> 0]
    /\ submission = [s \in OracleSubmissions |-> NoSubmission]
    /\ proposed = [n \in Nonce |-> {}]
    /\ resolved = {}
    /\ defence = NoDefence
    /\ restarts = 0
    /\ clashes = {}
-----------------------------------------------------------------------------
\* The nonce is taken, and the batch saved, without an await in between.
TakeNonce(s, base, entries) ==
    /\ base + 1 \in Nonce
    /\ currentNonce' = base + 1
    /\ submission' = [submission EXCEPT
                        ![s] = [awaits |-> "broadcast", nonce |-> base + 1, entries |-> entries]]
    /\ batchStore' = [batchStore EXCEPT ![base + 1] = entries]

\* Calls that begin before the nonce is known each ask the oracle for it.
SubmitBatch(s, entries) ==
    /\ ~Active(s)
    /\ clashes' = clashes \cup (IF OthersActive(s) THEN {"overlap"} ELSE {})
    /\ IF currentNonce = 0
       THEN /\ submission' = [submission EXCEPT
                                ![s] = [awaits |-> "nonce", nonce |-> 0, entries |-> entries]]
            /\ UNCHANGED <<currentNonce, batchStore>>
       ELSE TakeNonce(s, currentNonce, entries)
    /\ UNCHANGED <<proposed, resolved, defence, restarts>>

\* A view that fails leaves the local nonce.
NonceKnown(s) ==
    /\ submission[s].awaits = "nonce"
    /\ \/ TakeNonce(s, LastProposed, submission[s].entries) /\ UNCHANGED clashes
       \/ /\ TakeNonce(s, currentNonce, submission[s].entries)
          /\ clashes' = clashes \cup (IF LastProposed # currentNonce THEN {"blind start"} ELSE {})
    /\ UNCHANGED <<proposed, resolved, defence, restarts>>

Broadcast(s) ==
    /\ submission[s].awaits = "broadcast"
    /\ submission' = [submission EXCEPT ![s].awaits = "receipt"]
    /\ UNCHANGED <<currentNonce, batchStore, proposed, resolved, defence,
                   restarts, clashes>>

\* Give the nonce and the stored batch back.
Undo(s) ==
    /\ batchStore' = [batchStore EXCEPT ![submission[s].nonce] = 0]
    /\ currentNonce' = currentNonce - 1
    /\ submission' = [submission EXCEPT ![s] = NoSubmission]

\* The broadcast fails, or the transaction is mined and reverts.
SubmissionRejected(s) ==
    /\ submission[s].awaits \in {"broadcast", "receipt"}
    /\ Undo(s)
    /\ UNCHANGED <<proposed, resolved, defence, restarts, clashes>>

Mined(s) == proposed' = [proposed EXCEPT ![submission[s].nonce] = @ \cup {submission[s].entries}]

Confirmed(s) ==
    /\ submission[s].awaits = "receipt"
    /\ Mined(s)
    /\ submission' = [submission EXCEPT ![s] = NoSubmission]
    /\ UNCHANGED <<currentNonce, batchStore, resolved, defence, restarts, clashes>>

\* Mutant: a lost receipt is taken for a reverted transaction.
ConfirmationLost_Undone(s) ==
    /\ submission[s].awaits = "receipt"
    /\ Mined(s) \/ UNCHANGED proposed
    /\ Undo(s)
    /\ UNCHANGED <<resolved, defence, restarts, clashes>>

\* The transaction may have been mined: the batch stays in the store.
ConfirmationLost(s) ==
    /\ submission[s].awaits = "receipt"
    /\ Mined(s) \/ UNCHANGED proposed
    /\ submission' = [submission EXCEPT ![s] = NoSubmission]
    /\ UNCHANGED <<currentNonce, batchStore, resolved, defence, restarts, clashes>>

\* The relayer starts again on the same store, which its operator has to provide: the
\* MemoryBatchStore that is the default is lost with the process.  What it had sent may
\* still be mined.
RestartRelayer ==
    /\ restarts < MaxRestarts
    /\ restarts' = restarts + 1
    /\ currentNonce' = 0
    /\ submission' = [s \in OracleSubmissions |-> NoSubmission]
    /\ defence' = NoDefence
    /\ \/ UNCHANGED proposed
       \/ \E s \in OracleSubmissions : submission[s].awaits = "receipt" /\ Mined(s)
    /\ UNCHANGED <<batchStore, resolved, clashes>>
-----------------------------------------------------------------------------
\* handleChallengedBatch, of a batch the oracle holds
Challenge(n) ==
    /\ defence = NoDefence
    /\ proposed[n] # {} /\ n \notin resolved
    /\ batchStore[n] # 0
    /\ defence' = [awaits |-> "source", nonce |-> n]
    /\ UNCHANGED <<currentNonce, batchStore, submission, proposed, resolved,
                   restarts, clashes>>

\* verifySorobanCanonicalState: any difference, and any error, sends the relayer to
\* fetchAuthoritativeState.
CheckSource ==
    /\ defence.awaits = "source"
    /\ \E next \in {"override", "recovery"} : defence' = [defence EXCEPT !.awaits = next]
    /\ UNCHANGED <<currentNonce, batchStore, submission, proposed, resolved,
                   restarts, clashes>>

\* fetchAuthoritativeState; without all of the snapshots the recovery is given up.
Recover ==
    /\ defence.awaits = "recovery"
    /\ defence' \in {NoDefence, [defence EXCEPT !.awaits = "override"]}
    /\ UNCHANGED <<currentNonce, batchStore, submission, proposed, resolved,
                   restarts, clashes>>

\* resolveChallengeWithOverride is confirmed; or it fails or its receipt is lost, which
\* leaves the batch stored.
Override ==
    /\ defence.awaits = "override"
    /\ \/ /\ resolved' = resolved \cup {defence.nonce}
          /\ batchStore' = [batchStore EXCEPT ![defence.nonce] = 0]
       \/ resolved' \in {resolved, resolved \cup {defence.nonce}} /\ UNCHANGED batchStore
    /\ defence' = NoDefence
    /\ UNCHANGED <<currentNonce, submission, proposed, restarts, clashes>>

RelayerNext ==
    \/ \E s \in OracleSubmissions :
           \/ \E v \in Version : SubmitBatch(s, v)
           \/ NonceKnown(s) \/ Broadcast(s)
           \/ SubmissionRejected(s) \/ Confirmed(s) \/ ConfirmationLost(s)
    \/ RestartRelayer
    \/ \E n \in Nonce : Challenge(n)
    \/ CheckSource \/ Recover \/ Override

RelayerSpec == RelayerInit /\ [][RelayerNext]_relayerVars
-----------------------------------------------------------------------------
\* A batch the oracle holds can be defended: unless its challenge is over, the store
\* has the payload that was mined under its nonce, lost receipts and restarts
\* included, as long as no two submissions ran at once (submitBatch).
ProposalsAreDefensible ==
    clashes = {} => \A n \in Nonce \ resolved : proposed[n] \subseteq {batchStore[n]}
=============================================================================
