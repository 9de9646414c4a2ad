--------------------------- MODULE BackendWorkers ---------------------------
(***************************************************************************)
(* Three timers of the backend that must not lose work: the webhook queue, *)
(* the monitor of times to live, and the oracle. They share no state.      *)
(***************************************************************************)
EXTENDS EventLoop

-----------------------------------------------------------------------------
(***************************************************************************)
(* The webhook queue (WebhookWorker, backend/src/workers/webhook.ts) and   *)
(* the dead-letter table behind it (db/dlq.ts).  A pass over the queue     *)
(* awaits the receiver and the table; enqueues and further passes run in   *)
(* between.                                                                *)
(***************************************************************************)

CONSTANTS
    Jobs,           \* bound: jobs ever enqueued
    Passes,         \* bound: calls of processQueue in progress
    maxAttempts,
    baseDelayMs,
    MaxClock        \* bound: the clock

ASSUME WebhookAssumption ==
    /\ maxAttempts \in Nat \ {0}
    /\ baseDelayMs \in Nat \ {0}
    /\ MaxClock \in Nat

VARIABLES
    hookClock,
    queue,          \* the jobs in the queue
    jobAttempts, nextRetryAt, lastTried,
    isProcessing,
    pass,           \* per pass: the jobs left of its snapshot, and the one it awaits
    triggers,       \* setImmediate callbacks that have not run
    acknowledged,   \* jobs the receiver has taken, also when its answer was lost
    deadLetters,    \* jobs in the dead-letter table
    settled         \* jobs whose outcome the worker knows

hookVars == <<hookClock, queue, jobAttempts, nextRetryAt, lastTried, isProcessing, pass,
              triggers, acknowledged, deadLetters, settled>>

NoPass == [on |-> FALSE, left |-> {}, job |-> None, awaits |-> "nothing"]

HooksInit ==
    /\ hookClock = 0
    /\ queue = {}
    /\ jobAttempts = [j \in Jobs |-> 0]
    /\ nextRetryAt = [j \in Jobs |-> 0]
    /\ lastTried = [j \in Jobs |-> 0]
    /\ isProcessing = FALSE
    /\ pass = [p \in Passes |-> NoPass]
    /\ triggers = 0
    /\ acknowledged = {}
    /\ deadLetters = {}
    /\ settled = {}

calculateBackoff(attempt) == baseDelayMs * 2 ^ (attempt - 1)

ClockTicks ==
    /\ hookClock < MaxClock
    /\ hookClock' = hookClock + 1
    /\ UNCHANGED <<queue, jobAttempts, nextRetryAt, lastTried, isProcessing, pass, triggers,
                   acknowledged, deadLetters, settled>>

EnqueueJob(j) ==
    /\ j \notin queue \cup settled
    /\ queue' = queue \cup {j}
    /\ triggers' = triggers + 1
    /\ UNCHANGED <<hookClock, jobAttempts, nextRetryAt, lastTried, isProcessing, pass,
                   acknowledged, deadLetters, settled>>

\* Mutant: a pass does not look whether another one is running.
StartPass_Unguarded(p) ==
    /\ triggers > 0
    /\ triggers' = triggers - 1
    /\ ~pass[p].on
    /\ isProcessing' = TRUE
    /\ pass' = [pass EXCEPT ![p] = [NoPass EXCEPT
                  !.on = TRUE, !.left = {j \in queue : nextRetryAt[j] <= hookClock}]]
    /\ UNCHANGED <<hookClock, queue, jobAttempts, nextRetryAt, lastTried, acknowledged,
                   deadLetters, settled>>

\* processQueue up to its first await: a snapshot of the jobs that are ready.  A
\* callback that finds a pass running is spent, and the job it was set for waits for
\* the next one.
StartPass(p) ==
    /\ triggers > 0
    /\ triggers' = triggers - 1
    /\ ~pass[p].on
    /\ IF isProcessing THEN UNCHANGED <<pass, isProcessing>>
       ELSE /\ isProcessing' = TRUE
            /\ pass' = [pass EXCEPT ![p] = [NoPass EXCEPT
                          !.on = TRUE, !.left = {j \in queue : nextRetryAt[j] <= hookClock}]]
    /\ UNCHANGED <<hookClock, queue, jobAttempts, nextRetryAt, lastTried, acknowledged,
                   deadLetters, settled>>

Dispatch(p, j) ==
    /\ pass[p].on /\ pass[p].awaits = "nothing"
    /\ j \in pass[p].left
    /\ jobAttempts' = [jobAttempts EXCEPT ![j] = @ + 1]
    /\ lastTried' = [lastTried EXCEPT ![j] = hookClock]
    /\ pass' = [pass EXCEPT ![p].left = @ \ {j}, ![p].job = j, ![p].awaits = "receiver"]
    /\ acknowledged' \in {acknowledged, acknowledged \cup {j}}
    /\ UNCHANGED <<hookClock, queue, nextRetryAt, isProcessing, triggers, deadLetters,
                   settled>>

Proceed(p) == pass' = [pass EXCEPT ![p] = [@ EXCEPT !.job = None, !.awaits = "nothing"]]

Delivered(p) ==
    LET j == pass[p].job IN
    /\ pass[p].awaits = "receiver"
    /\ j \in acknowledged
    /\ queue' = queue \ {j}
    /\ settled' = settled \cup {j}
    /\ Proceed(p)
    /\ UNCHANGED <<hookClock, jobAttempts, nextRetryAt, lastTried, isProcessing, triggers,
                   acknowledged, deadLetters>>

\* The receiver refuses, or its answer is lost.
ScheduleRetry(p) ==
    LET j == pass[p].job IN
    /\ pass[p].awaits = "receiver"
    /\ jobAttempts[j] < maxAttempts
    /\ nextRetryAt' = [nextRetryAt EXCEPT ![j] = hookClock + calculateBackoff(jobAttempts[j])]
    /\ Proceed(p)
    /\ UNCHANGED <<hookClock, queue, jobAttempts, lastTried, isProcessing, triggers,
                   acknowledged, deadLetters, settled>>

\* saveToDLQ keeps the entry in memory even when the table cannot be written.
SaveToDLQ(p) ==
    LET j == pass[p].job IN
    /\ pass[p].awaits = "receiver"
    /\ jobAttempts[j] >= maxAttempts
    /\ deadLetters' = deadLetters \cup {j}
    /\ pass' = [pass EXCEPT ![p].awaits = "table"]
    /\ UNCHANGED <<hookClock, queue, jobAttempts, nextRetryAt, lastTried, isProcessing,
                   triggers, acknowledged, settled>>

GiveUp(p) ==
    LET j == pass[p].job IN
    /\ pass[p].awaits = "table"
    /\ queue' = queue \ {j}
    /\ settled' = settled \cup {j}
    /\ Proceed(p)
    /\ UNCHANGED <<hookClock, jobAttempts, nextRetryAt, lastTried, isProcessing, triggers,
                   acknowledged, deadLetters>>

EndPass(p) ==
    /\ pass[p].on /\ pass[p].awaits = "nothing" /\ pass[p].left = {}
    /\ pass' = [pass EXCEPT ![p] = NoPass]
    /\ isProcessing' = FALSE
    /\ UNCHANGED <<hookClock, queue, jobAttempts, nextRetryAt, lastTried, triggers, acknowledged,
                   deadLetters, settled>>

PassStep(p) ==
    \/ StartPass(p)
    \/ \E j \in Jobs : Dispatch(p, j)
    \/ Delivered(p) \/ ScheduleRetry(p) \/ SaveToDLQ(p) \/ GiveUp(p) \/ EndPass(p)

HooksNext ==
    \/ ClockTicks
    \/ \E j \in Jobs : EnqueueJob(j)
    \/ \E p \in Passes : PassStep(p)

HooksSpec == HooksInit /\ [][HooksNext]_hookVars
-----------------------------------------------------------------------------
\* A job whose outcome is known is never sent again, though every pass works on a
\* snapshot of the queue while other passes and enqueues are called (processQueue).
SettledJobsRest ==
    [][\A j \in settled : jobAttempts'[j] = jobAttempts[j]]_hookVars

\* Two attempts at a job are apart by the exponential backoff of the earlier one, and
\* there are never more than maxAttempts (calculateBackoff).
BackoffIsKept ==
    [][\A j \in Jobs : jobAttempts'[j] # jobAttempts[j] =>
           /\ jobAttempts'[j] <= maxAttempts
           /\ jobAttempts[j] > 0 => hookClock >= lastTried[j] + baseDelayMs * 2 ^ (jobAttempts[j] - 1)]_hookVars

\* A job leaves the queue delivered or as a dead letter, and a dead letter has had all
\* of its attempts.
NoJobVanishes ==
    /\ settled \subseteq acknowledged \cup deadLetters
    /\ \A j \in deadLetters : jobAttempts[j] = maxAttempts
    /\ \A j \in Jobs : jobAttempts[j] > 0 => j \in queue \cup settled

\* The queue as a whole: jobs end one way or the other, not before their attempts are
\* used up and not after, and attempts keep their distance.
JobsAreSettledOnce == []NoJobVanishes /\ SettledJobsRest /\ BackoffIsKept

-----------------------------------------------------------------------------
(***************************************************************************)
(* The monitor that keeps reputation entries from being archived           *)
(* (backend/src/indexer/ttl-monitor.ts, cron.ts): a scan reads the time to *)
(* live of three storage keys of every address and bumps the addresses     *)
(* near expiry, a few at a time.                                           *)
(***************************************************************************)

CONSTANTS
    addresses,                      \* the addresses of a scan, in the order of the query
    bumpConcurrency,
    ttlRefreshThresholdLedgers,
    TTL_EXTEND_LEDGERS,             \* what a bump extends an entry to
    MaxLedgerSeq                    \* bound: ledgers

ASSUME TtlAssumption ==
    /\ IsFiniteSet({addresses[i] : i \in DOMAIN addresses})
    /\ bumpConcurrency \in Nat \ {0}
    /\ ttlRefreshThresholdLedgers \in Nat \ {0}
    /\ TTL_EXTEND_LEDGERS \in Nat
    /\ MaxLedgerSeq \in Nat

VARIABLES
    ledgerSeq,
    liveUntil,          \* the expiry of each key; 0 is never written
    ttlMonitorRunning,
    scan                \* the scan under way

ttlVars == <<ledgerSeq, liveUntil, ttlMonitorRunning, scan>>

Monitored == {addresses[i] : i \in DOMAIN addresses}
Variants == <<"ReputationV2", "Reputation", "TrustHistory">>
Key == Monitored \X {"ReputationV2", "Reputation", "TrustHistory"}

\* at : what is awaited; seq : the ledger read first; near : the addresses to bump;
\* waiting, bumping, bumped, failed : how far each of them is; workers : loops of
\* pLimit that still run.
NoScan == [at |-> "nothing", seq |-> 0, near |-> {}, waiting |-> {}, bumping |-> {},
           bumped |-> {}, failed |-> {}, workers |-> 0]

\* A row is stored under one of the two schemas, and its history next to it.
TtlInit ==
    /\ ledgerSeq = 1
    /\ \E row \in [Monitored -> {"ReputationV2", "Reputation"}],
          expiry \in [Key -> {0, 2, 2 + TTL_EXTEND_LEDGERS}] :
          /\ \A k \in Key : expiry[k] # 0 <=> k[2] \in {"TrustHistory", row[k[1]]}
          /\ liveUntil = expiry
    /\ ttlMonitorRunning = FALSE
    /\ scan = NoScan

Unarchived(k) == liveUntil[k] >= ledgerSeq

TtlLedgerCloses ==
    /\ ledgerSeq < MaxLedgerSeq
    /\ ledgerSeq' = ledgerSeq + 1
    /\ UNCHANGED <<liveUntil, ttlMonitorRunning, scan>>

\* runTtlMonitor and run() up to the query of the entries; a tick during a scan is
\* skipped.
StartScan ==
    /\ ~ttlMonitorRunning
    /\ ttlMonitorRunning' = TRUE
    /\ scan' = [NoScan EXCEPT !.at = "entries", !.seq = ledgerSeq]
    /\ UNCHANGED <<ledgerSeq, liveUntil>>

\* The keys in the order they are asked for, and the answer: the live ones in that
\* order.
AskedKeys == [i \in 1..(3 * Len(addresses)) |->
                 <<addresses[1 + ((i - 1) \div 3)], Variants[1 + ((i - 1) % 3)]>>]
Entries == SelectSeq(AskedKeys, Unarchived)

\* getLedgerEntryTtls: the i-th entry of the answer is taken for the i-th key asked.
TtlsOf(a) == {liveUntil[Entries[i]] : i \in {j \in DOMAIN Entries : AskedKeys[j][1] = a}}

isAddressNearExpiry(a, ttls) ==
    ttls = {} \/ \E t \in ttls : t - scan.seq <= ttlRefreshThresholdLedgers

\* Without an answer every address counts as archived.
ReadTtls ==
    /\ scan.at = "entries"
    /\ \E near \in {{a \in Monitored : isAddressNearExpiry(a, TtlsOf(a))}, Monitored} :
           scan' = [scan EXCEPT !.at = "bumps", !.near = near, !.waiting = near,
                       !.workers = IF Cardinality(near) < bumpConcurrency
                                   THEN Cardinality(near) ELSE bumpConcurrency]
    /\ UNCHANGED <<ledgerSeq, liveUntil, ttlMonitorRunning>>

\* A worker of pLimit takes the next address.
StartBump(a) ==
    /\ a \in scan.waiting
    /\ Cardinality(scan.bumping) < scan.workers
    /\ scan' = [scan EXCEPT !.waiting = @ \ {a}, !.bumping = @ \cup {a}]
    /\ UNCHANGED <<ledgerSeq, liveUntil, ttlMonitorRunning>>

\* restore_reputation on the chain extends what is live of the address.
Bumped(a) ==
    /\ a \in scan.bumping
    /\ liveUntil' = [k \in Key |-> IF k[1] = a /\ Unarchived(k) /\ liveUntil[k] < ledgerSeq + TTL_EXTEND_LEDGERS
                                   THEN ledgerSeq + TTL_EXTEND_LEDGERS ELSE liveUntil[k]]
    /\ scan' = [scan EXCEPT !.bumping = @ \ {a}, !.bumped = @ \cup {a}]
    /\ UNCHANGED <<ledgerSeq, ttlMonitorRunning>>

BumpFails(a) ==
    /\ a \in scan.bumping
    /\ scan' = [scan EXCEPT !.bumping = @ \ {a}, !.failed = @ \cup {a}]
    /\ UNCHANGED <<ledgerSeq, liveUntil, ttlMonitorRunning>>

\* All workers have returned.
EndScan ==
    /\ scan.at = "bumps"
    /\ scan.bumping = {}
    /\ scan.waiting = {} \/ scan.workers = 0
    /\ ttlMonitorRunning' = FALSE
    /\ scan' = [scan EXCEPT !.at = "nothing"]
    /\ UNCHANGED <<ledgerSeq, liveUntil>>

\* Mutant: the flag is not reset when the scan throws.
ScanFails_KeepsFlag ==
    /\ scan.at = "entries"
    /\ scan' = NoScan
    /\ UNCHANGED <<ledgerSeq, liveUntil, ttlMonitorRunning>>

\* The query of the addresses or of the ledger throws.
ScanFails ==
    /\ scan.at = "entries"
    /\ ttlMonitorRunning' = FALSE
    /\ scan' = NoScan
    /\ UNCHANGED <<ledgerSeq, liveUntil>>

BumpStep == \E a \in Monitored : StartBump(a) \/ Bumped(a) \/ BumpFails(a)

TtlNext == TtlLedgerCloses \/ StartScan \/ ReadTtls \/ BumpStep \/ EndScan \/ ScanFails

TtlSpec == TtlInit /\ [][TtlNext]_ttlVars
-----------------------------------------------------------------------------
\* "A failure to bump one address is logged but does not abort the scan": a scan that
\* ends has bumped, or reported, every address it found near expiry, and never had
\* more than bumpConcurrency bumps under way (pLimit, run).
ScansAreComplete ==
    /\ Cardinality(scan.bumping) <= bumpConcurrency
    /\ scan.at = "nothing" => scan.near = scan.bumped \cup scan.failed
    /\ scan.bumped \cap scan.failed = {}

\* The flag that skips overlapping ticks never stays set: bumps and queries may fail
\* in every scan, and the next tick scans again (runTtlMonitor).
ScansGoOn == []<>(scan.at = "nothing" /\ ~ttlMonitorRunning)

\* No failure of a bump or a query makes a scan incomplete or the last one.
EntriesAreKeptAlive == []ScansAreComplete /\ ScansGoOn

-----------------------------------------------------------------------------
(***************************************************************************)
(* The oracle of the backend (workers/oracle.ts) watches a commitment      *)
(* until it is due, asks a monitoring service whether the agreed level was *)
(* met, and attests the outcome through soroban/client.ts, which may fail  *)
(* after the transaction has been sent.                                    *)
(***************************************************************************)

CONSTANTS
    maxRetries,
    DueAt,          \* the commitment's due date
    MaxOracleTime,  \* bound: the clock
    MaxTrouble      \* bound: failures of the service, of the network and of the node

ASSUME OracleAssumption ==
    /\ maxRetries \in Nat \ {0} /\ DueAt \in Nat
    /\ MaxOracleTime \in Nat /\ DueAt <= MaxOracleTime /\ MaxTrouble \in Nat

VARIABLES
    oracleNow,
    watch,          \* what monitorCommitment is at: its step, attempt and outcome
    attested,       \* the status of the commitment on the ledger, "Pending" at first
    oracleSent,           \* attestations on their way to the ledger
    outages,        \* in a row, the failures of the service in the last check
    established,    \* a check was told of a breach, or had maxRetries failures in a row
    trouble

oracleVars == <<oracleNow, watch, attested, oracleSent, outages, established, trouble>>

OracleInit ==
    /\ oracleNow = 0
    /\ watch = [step |-> "timer", attempt |-> 1, outcome |-> None]
    /\ attested = "Pending"
    /\ oracleSent = {}
    /\ outages = 0
    /\ established = FALSE
    /\ trouble = 0

Fails == trouble < MaxTrouble /\ trouble' = trouble + 1

\* checkDue of a commitment that is not due arms its timer again.
CheckDue ==
    /\ watch.step = "timer"
    /\ oracleNow >= DueAt
    /\ watch' = [step |-> "checking", attempt |-> 1, outcome |-> None]
    /\ outages' = 0
    /\ UNCHANGED <<oracleNow, attested, oracleSent, established, trouble>>

Concludes(outcome) == watch' = [step |-> "attesting", attempt |-> 1, outcome |-> outcome]

CheckAnswers(met) ==
    /\ watch.step = "checking"
    /\ Concludes(IF met THEN "Fulfilled" ELSE "Breached")
    /\ established' = (established \/ ~ met)
    /\ UNCHANGED <<oracleNow, attested, oracleSent, outages, trouble>>

\* A service that fails maxRetries times in a row counts as a breach.
CheckThrows ==
    /\ watch.step = "checking"
    /\ Fails
    /\ outages' = outages + 1
    /\ established' = (established \/ outages' >= maxRetries)
    /\ IF watch.attempt < maxRetries THEN watch' = [watch EXCEPT !.attempt = @ + 1]
       ELSE Concludes("Breached")
    /\ UNCHANGED <<oracleNow, attested, oracleSent>>
-----------------------------------------------------------------------------
\* The simulation refuses what is not pending any more.
Submits == attested = "Pending" /\ oracleSent' = oracleSent \cup {watch.outcome}

\* The transaction is polled until it has been applied.
AttestSucceeds ==
    /\ watch.step = "attesting"
    /\ attested = "Pending"
    /\ attested' = watch.outcome
    /\ watch' = [watch EXCEPT !.step = "done"]
    /\ UNCHANGED <<oracleNow, oracleSent, outages, established, trouble>>

\* Mutant: the error that ends the attempts ends the watch.
Retried_Never == watch' = [watch EXCEPT !.step = "done"]

\* checkDue runs again after the poll interval, from the check on.
Retried == watch' = [watch EXCEPT !.step = "timer"]

AttestThrows ==
    /\ watch.step = "attesting"
    /\ \/ Fails /\ (Submits \/ UNCHANGED oracleSent)
       \/ attested # "Pending" /\ UNCHANGED <<trouble, oracleSent>>
    /\ IF watch.attempt < maxRetries THEN watch' = [watch EXCEPT !.attempt = @ + 1] ELSE Retried
    /\ UNCHANGED <<oracleNow, attested, outages, established>>

\* What was sent and given up is applied after all, or expires.
SentApplies(outcome) ==
    /\ outcome \in oracleSent
    /\ oracleSent' = oracleSent \ {outcome}
    /\ attested' \in {attested, IF attested = "Pending" THEN outcome ELSE attested}
    /\ UNCHANGED <<oracleNow, watch, outages, established, trouble>>

OracleTick ==
    /\ oracleNow < MaxOracleTime
    /\ oracleNow' = oracleNow + 1
    /\ UNCHANGED <<watch, attested, oracleSent, outages, established, trouble>>

WorkerStep ==
    \/ CheckDue \/ AttestSucceeds \/ AttestThrows
    \/ \E met \in BOOLEAN : CheckAnswers(met)

OracleNext ==
    \/ OracleTick
    \/ WorkerStep \/ CheckThrows
    \/ \E o \in {"Fulfilled", "Breached"} : SentApplies(o)

OracleSpec == OracleInit /\ [][OracleNext]_oracleVars
-----------------------------------------------------------------------------
\* A breach is only attested on the word of the service, or after it failed maxRetries
\* times in a row, across all the checks and the transactions that were given up on the
\* way: a call that fails less often costs nobody their reputation (checkSlaWithRetry).
BreachIsEstablished ==
    attested = "Breached" => established

\* A commitment that is due is attested in the end, whatever attempts failed on the way
\* (the catch of checkDue).
DueIsAttested == oracleNow >= DueAt ~> attested # "Pending"

\* The verdict of the oracle is neither missing nor unfounded, though every call that leads
\* to it may fail and be repeated.
VerdictsAreFounded == []BreachIsEstablished /\ DueIsAttested
=============================================================================
