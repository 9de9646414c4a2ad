--------------------------- MODULE LedgerIndexer ---------------------------
(***************************************************************************)
(* The finality-aware indexer (FinalityIndexer, backend/src/indexer/       *)
(* listener.ts), its PostgreSQL store (store.ts) and the loop that runs it *)
(* (workers/indexer.ts), against a ledger source that reorganises, falls   *)
(* back and forgets.  Every action of a worker is what it does between two *)
(* awaits: one read of the source, or one transaction of the store.        *)
(***************************************************************************)
EXTENDS Integers, Sequences

CONSTANTS
    Workers,            \* processes that index into the same store
    Forks,              \* branches a reorganisation can switch to
    None,
    finalityDepth, maxBatchSize, maxRollbackDepth,
    INDEXER_START_SEQUENCE,     \* 0 when the variable is not set
    MaxHeight,          \* bound: the last ledger
    MaxReorgs,          \* bound: reorganisations of the source
    MaxOldest,          \* bound: how far its retention window moves
    MaxFaults           \* bound: failed reads and restarts of workers

ASSUME IndexerAssumption ==
    /\ finalityDepth \in Nat
    /\ maxBatchSize \in Nat \ {0}
    /\ maxRollbackDepth \in Nat \ {0}
    /\ INDEXER_START_SEQUENCE \in Nat
    /\ MaxHeight \in Nat \ {0}
    /\ MaxReorgs \in Nat
    /\ MaxOldest \in Nat
    /\ MaxFaults \in Nat

VARIABLES
    chain,      \* the source: the branch of each ledger
    highest,    \* the highest ledger it ever had
    oldest,     \* the first ledger it still serves
    gaveUp,     \* what it has gone back on: "final" ledgers, its "height"
    rows,       \* indexed_ledgers
    checkpoint, \* indexer_checkpoint, or None
    committed,  \* hashes of the ledgers whose onLedgerCommitted hook has run
    worker,     \* each worker's place in sync() and its local variables
    reorgs, faults

source == <<chain, highest, oldest, gaveUp, reorgs>>
store == <<rows, checkpoint>>
vars == <<source, store, committed, worker, faults>>

Sequence == 1..MaxHeight

\* The hash of a ledger stands for the whole chain below it.
HashAt(n) == SubSeq(chain, 1, n)
Hash == Seq(Forks)
Ledger == [sequence : Sequence, hash : Hash, previousHash : Hash]
Checkpoint == [sequence : Sequence, hash : Hash]

ASSUME NoneAssumption == None \notin Ledger \cup Checkpoint

Least(a, b) == IF a < b THEN a ELSE b
Greatest(a, b) == IF a < b THEN b ELSE a

\* getLedger of the source: null beyond its tip and before its retention.
SourceLedger(n) ==
    IF n \in oldest..Len(chain)
    THEN [sequence |-> n, hash |-> HashAt(n), previousHash |-> HashAt(n - 1)]
    ELSE None

\* A worker between two calls of sync(), and one that has just started.
Polling(first) ==
    [pc |-> "poll", start |-> first, latest |-> 0, seen |-> None, at |-> 0,
     saw |-> FALSE, ledger |-> None, last |-> 0]

Booting == [Polling(1) EXCEPT !.pc = "boot"]

IndexerInit ==
    /\ \E f \in Forks : chain = <<f>>
    /\ highest = 1
    /\ oldest = 1
    /\ gaveUp = {}
    /\ rows = [n \in Sequence |-> None]
    /\ checkpoint = None
    /\ committed = {}
    /\ worker = [w \in Workers |-> Booting]
    /\ reorgs = 0
    /\ faults = 0
-----------------------------------------------------------------------------
(* The local steps of sync(), on the record of a worker.                    *)

Finalized_OffByOne(k) == Greatest(0, k.latest - finalityDepth + 1)

Finalized(k) == Greatest(0, k.latest - finalityDepth)

\* The ledgers this sync() appends, after the checkpoint it holds.
Planned(k) ==
    LET next == IF k.seen = None THEN k.start ELSE k.seen.sequence + 1
        last == Least(Finalized(k), next + maxBatchSize - 1)
    IN  IF next > last THEN Polling(k.start)
        ELSE [k EXCEPT !.pc = "fetch", !.at = next, !.last = last, !.ledger = None]

\* findCommonAncestor goes down to the floor; 0 stands for a full rollback.
Floor(k) == Greatest(k.start, k.seen.sequence - maxRollbackDepth)

\* Mutant: takes a source that has nothing to show for one that disagrees.
Searching_Blind(k, candidate, saw) ==
    IF candidate >= Floor(k)
    THEN [k EXCEPT !.pc = "stored", !.at = candidate, !.saw = saw, !.ledger = None]
    ELSE IF Floor(k) = k.start
    THEN [k EXCEPT !.pc = "rollback", !.at = 0, !.ledger = None]
    ELSE Polling(k.start)

Searching(k, candidate, saw) ==
    IF candidate >= Floor(k)
    THEN [k EXCEPT !.pc = "stored", !.at = candidate, !.saw = saw, !.ledger = None]
    ELSE IF Floor(k) = k.start /\ saw
    THEN [k EXCEPT !.pc = "rollback", !.at = 0, !.ledger = None]
    ELSE Polling(k.start)

Search(k) ==
    Searching(k, Least(k.seen.sequence - 1, Least(k.latest, Finalized(k))), FALSE)

At(w, pc) == worker[w].pc = pc
Become(w, k) == worker' = [worker EXCEPT ![w] = k]
-----------------------------------------------------------------------------
\* run(): the checkpoint, then the latest ledger, settle where to start.
BootCheckpoint(w) ==
    /\ At(w, "boot")
    /\ Become(w, [worker[w] EXCEPT !.pc = "bootLatest", !.seen = checkpoint])
    /\ UNCHANGED <<source, store, committed, faults>>

BootLatest(w) ==
    LET seen == worker[w].seen IN
    /\ At(w, "bootLatest")
    /\ Become(w, Polling(
           IF INDEXER_START_SEQUENCE > 0 THEN INDEXER_START_SEQUENCE
           ELSE IF seen # None THEN seen.sequence
           ELSE Greatest(1, Len(chain) - finalityDepth)))
    /\ UNCHANGED <<source, store, committed, faults>>

ReadLatest(w) ==
    /\ At(w, "poll")
    /\ Become(w, [worker[w] EXCEPT !.pc = "checkpoint", !.latest = Len(chain)])
    /\ UNCHANGED <<source, store, committed, faults>>

ReadCheckpoint(w) ==
    LET k == [worker[w] EXCEPT !.seen = checkpoint] IN
    /\ At(w, "checkpoint")
    /\ Become(w, IF checkpoint = None THEN Planned(k)
                 ELSE IF checkpoint.sequence <= k.latest THEN [k EXCEPT !.pc = "verify"]
                 ELSE Search(k))
    /\ UNCHANGED <<source, store, committed, faults>>

\* Mutant: asks only whether the source still has such a ledger.
VerifyCheckpoint_BySequence(w) ==
    LET k == worker[w] IN
    /\ At(w, "verify")
    /\ Become(w, IF SourceLedger(k.seen.sequence) # None THEN Planned(k) ELSE Search(k))
    /\ UNCHANGED <<source, store, committed, faults>>

VerifyCheckpoint(w) ==
    LET k == worker[w]
        canonical == SourceLedger(k.seen.sequence)
    IN  /\ At(w, "verify")
        /\ Become(w, IF canonical # None /\ canonical.hash = k.seen.hash
                     THEN Planned(k) ELSE Search(k))
        /\ UNCHANGED <<source, store, committed, faults>>

\* findCommonAncestor: the candidate as stored, then as the source has it.
ReadStored(w) ==
    LET k == worker[w] IN
    /\ At(w, "stored")
    /\ Become(w, IF rows[k.at] = None THEN Searching(k, k.at - 1, k.saw)
                 ELSE [k EXCEPT !.pc = "canonical", !.ledger = rows[k.at]])
    /\ UNCHANGED <<source, store, committed, faults>>

ReadCanonical(w) ==
    LET k == worker[w]
        canonical == SourceLedger(k.at)
    IN  /\ At(w, "canonical")
        /\ Become(w, IF canonical # None /\ canonical.hash = k.ledger.hash
                     THEN [k EXCEPT !.pc = "rollback", !.ledger = None]
                     ELSE Searching(k, k.at - 1, k.saw \/ canonical # None))
        /\ UNCHANGED <<source, store, committed, faults>>

\* rollbackTo, in one transaction under the advisory lock.
RollbackTo(w) ==
    LET k == worker[w] IN
    /\ At(w, "rollback")
    /\ IF k.at > 0 /\ rows[k.at] = None
       THEN /\ Become(w, Polling(k.start))      \* missing ledger: sync() throws
            /\ UNCHANGED store
       ELSE /\ Become(w, [k EXCEPT !.pc = "recheck"])
            /\ rows' = [n \in Sequence |-> IF n > k.at THEN None ELSE rows[n]]
            /\ checkpoint' = IF k.at = 0 THEN None
                             ELSE [sequence |-> k.at, hash |-> rows[k.at].hash]
    /\ UNCHANGED <<source, committed, faults>>

RereadCheckpoint(w) ==
    /\ At(w, "recheck")
    /\ Become(w, Planned([worker[w] EXCEPT !.seen = checkpoint]))
    /\ UNCHANGED <<source, store, committed, faults>>

FetchLedger(w) ==
    LET k == worker[w]
        ledger == SourceLedger(k.at)
    IN  /\ At(w, "fetch")
        /\ Become(w, IF ledger = None THEN Polling(k.start)
                     ELSE IF k.seen # None /\ ledger.previousHash # k.seen.hash
                     THEN Polling(k.start)      \* LedgerLinkageError
                     ELSE [k EXCEPT !.pc = "append", !.ledger = ledger])
        /\ UNCHANGED <<source, store, committed, faults>>

\* appendLedger accepts the successor of the checkpoint, and its own tip again.
IsTip(ledger) ==
    /\ checkpoint # None
    /\ checkpoint.sequence = ledger.sequence
    /\ checkpoint.hash = ledger.hash

\* Mutant: leaves the parent link to sync(), which compares an older checkpoint.
Extends_Unlinked(ledger) ==
    checkpoint # None => checkpoint.sequence + 1 = ledger.sequence

Extends(ledger) ==
    checkpoint # None => /\ checkpoint.sequence + 1 = ledger.sequence
                         /\ checkpoint.hash = ledger.previousHash

Appendable(ledger) ==
    /\ rows[ledger.sequence] = None \/ rows[ledger.sequence].hash = ledger.hash
    /\ Extends(ledger)

AppendLedger(w) ==
    LET k == worker[w]
        tip == [sequence |-> k.ledger.sequence, hash |-> k.ledger.hash]
    IN  /\ At(w, "append")
        /\ IF IsTip(k.ledger) THEN UNCHANGED store
           ELSE IF Appendable(k.ledger)
           THEN /\ rows' = [rows EXCEPT ![k.ledger.sequence] = k.ledger]
                /\ checkpoint' = tip
           ELSE UNCHANGED store
        /\ Become(w, IF IsTip(k.ledger) \/ Appendable(k.ledger)
                     THEN [k EXCEPT !.pc = "hook", !.seen = tip]
                     ELSE Polling(k.start))     \* cannot append: sync() throws
        /\ UNCHANGED <<source, committed, faults>>

\* onLedgerCommitted, whose failure is swallowed, and on to the next ledger.
CommitHook(w) ==
    LET k == worker[w] IN
    /\ At(w, "hook")
    /\ \/ /\ committed' = committed \cup {k.ledger.hash}
          /\ UNCHANGED faults
       \/ /\ faults < MaxFaults
          /\ faults' = faults + 1
          /\ UNCHANGED committed
    /\ Become(w, IF k.at < k.last
                 THEN [k EXCEPT !.pc = "fetch", !.at = @ + 1, !.ledger = None]
                 ELSE Polling(k.start))
    /\ UNCHANGED <<source, store>>

\* Any await may reject, a commit after it has happened; sync() throws and the
\* loop calls it again.
SyncFails(w) ==
    /\ worker[w].pc \notin {"boot", "bootLatest", "poll"}
    /\ faults < MaxFaults
    /\ faults' = faults + 1
    /\ Become(w, Polling(worker[w].start))
    /\ UNCHANGED <<source, store, committed>>

Restart(w) ==
    /\ worker[w].pc # "boot"
    /\ faults < MaxFaults
    /\ faults' = faults + 1
    /\ Become(w, Booting)
    /\ UNCHANGED <<source, store, committed>>
-----------------------------------------------------------------------------
\* The source closes a ledger on its current branch.
CloseLedger ==
    /\ Len(chain) < MaxHeight
    /\ chain' = Append(chain, chain[Len(chain)])
    /\ highest' = Greatest(highest, Len(chain'))
    /\ UNCHANGED <<oldest, gaveUp, reorgs, store, committed, worker, faults>>

\* The source keeps its first k ledgers and goes on with another branch, or falls
\* back to fewer ledgers than it had.
Reorganise(k) ==
    /\ reorgs < MaxReorgs
    /\ reorgs' = reorgs + 1
    /\ \E f \in Forks, n \in k..MaxHeight :
         chain' = [i \in 1..n |-> IF i <= k THEN chain[i] ELSE f]
    /\ highest' = Greatest(highest, Len(chain'))
    /\ gaveUp' = gaveUp \cup {broken \in {"final", "height"} :
                      \/ broken = "final" /\ k < highest - finalityDepth
                      \/ broken = "height" /\ Len(chain') < Len(chain)}
    /\ UNCHANGED <<oldest, store, committed, worker, faults>>

Forget ==
    /\ oldest < MaxOldest
    /\ oldest' = oldest + 1
    /\ UNCHANGED <<chain, highest, gaveUp, reorgs, store, committed, worker, faults>>

Sync(w) ==
    \/ BootCheckpoint(w)
    \/ BootLatest(w)
    \/ ReadLatest(w)
    \/ ReadCheckpoint(w)
    \/ VerifyCheckpoint(w)
    \/ ReadStored(w)
    \/ ReadCanonical(w)
    \/ RollbackTo(w)
    \/ RereadCheckpoint(w)
    \/ FetchLedger(w)
    \/ AppendLedger(w)
    \/ CommitHook(w)

\* The first ledger of the network is never given up.
IndexerNext ==
    \/ CloseLedger
    \/ \E k \in 1..Len(chain) : Reorganise(k)
    \/ Forget
    \/ \E w \in Workers : Sync(w) \/ SyncFails(w) \/ Restart(w)

IndexerSpec == IndexerInit /\ [][IndexerNext]_vars

\* Every await settles, and the network goes on closing ledgers.
FairIndexerSpec ==
    /\ IndexerSpec
    /\ \A w \in Workers : WF_vars(Sync(w))
    /\ WF_vars(CloseLedger)
-----------------------------------------------------------------------------
WorkerState ==
    [pc : {"boot", "bootLatest", "poll", "checkpoint", "verify", "stored",
           "canonical", "rollback", "recheck", "fetch", "append", "hook"},
     start : Nat \ {0}, latest : Nat, seen : Checkpoint \cup {None}, at : Nat,
     saw : BOOLEAN, ledger : Ledger \cup {None}, last : Nat]

\* What a worker holds at the places that use it.
Equipped(k) ==
    /\ k.pc \in {"verify", "stored", "canonical"} => k.seen # None
    /\ k.pc \in {"stored", "canonical"} => k.at \in 1..(k.seen.sequence - 1)
    /\ k.pc = "rollback" => k.at \in 0..MaxHeight
    /\ k.pc \in {"append", "hook"} => k.ledger # None

IndexerTypeOK ==
    /\ chain \in Hash
    /\ Len(chain) \in Sequence
    /\ highest \in Sequence
    /\ oldest \in Nat \ {0}
    /\ gaveUp \subseteq {"final", "height"}
    /\ reorgs \in Nat
    /\ faults \in Nat
    /\ rows \in [Sequence -> Ledger \cup {None}]
    /\ checkpoint \in Checkpoint \cup {None}
    /\ committed \subseteq Hash
    /\ worker \in [Workers -> WorkerState]
    /\ \A w \in Workers : Equipped(worker[w])

\* The store is a chain whatever the workers and the source do meanwhile: a
\* contiguous run of ledgers up to the checkpoint, each linked to the one below
\* by its previous hash (appendLedger, rollbackTo).
StoreIsLinked ==
    /\ \A n \in Sequence : rows[n] # None =>
           checkpoint # None /\ n <= checkpoint.sequence
    /\ checkpoint # None => /\ rows[checkpoint.sequence] # None
                            /\ rows[checkpoint.sequence].hash = checkpoint.hash
    /\ \A n \in Sequence : rows[n] # None /\ n < checkpoint.sequence =>
           rows[n + 1] # None /\ rows[n + 1].previousHash = rows[n].hash

\* The store is sound: every worker holds what the rest of its sync() uses, and what they
\* leave behind is one chain.
StoreIsSound == IndexerTypeOK /\ StoreIsLinked

\* As long as the source has kept what it had buried finalityDepth deep, the store
\* never holds anything else, however competing workers, their failures and falls
\* of the source interleave ...
StoreIsFinal ==
    "final" \notin gaveUp =>
        \A n \in Sequence : rows[n] # None =>
            n + finalityDepth <= highest /\ rows[n].hash = HashAt(n)

\* ... and a single worker never makes it give up a ledger, not for a restart, a
\* source that falls back or one that forgets.
NeverRewinds ==
    [][\A n \in Sequence : rows[n] # None /\ "final" \notin gaveUp =>
          rows'[n] = rows[n]]_vars

\* "Finalized ledger commits synchronously refresh every affected address before
\* the indexer advances" (README.md): every ledger below the checkpoint has had
\* its hook, those replayed after a rollback included.  It holds for one indexer
\* until something fails.
RefreshedBeforeAdvance ==
    faults = 0 =>
        \A n \in Sequence : rows[n] # None /\ n < checkpoint.sequence =>
            rows[n].hash \in committed

\* Once the source settles down, the store ends up with the final ledgers of its
\* branch, unless the source no longer serves them or no worker ever runs:
\* "recovers when a reorganization shortens the canonical chain" (listener.test.ts).
CaughtUp ==
    /\ checkpoint # None
    /\ checkpoint.sequence = Len(chain) - finalityDepth
    /\ checkpoint.hash = HashAt(checkpoint.sequence)

Recovers == <>[](CaughtUp \/ oldest > 1 \/ \A w \in Workers : worker[w] = Booting)

\* "Rolls back to the last common ledger and replays the canonical fork"
\* (listener.test.ts): of what sync() takes for final, a rollback removes no
\* ledger that the source still has.  The source reorganises once and loses no
\* height, or it may go back to what it had while sync() looks for the ancestor.
RollbackIsMinimal ==
    [][\A w \in Workers : RollbackTo(w) /\ reorgs <= 1 /\ "height" \notin gaveUp =>
          \A n \in 1..Finalized(worker[w]) :
             rows[n] # None /\ rows[n] = SourceLedger(n) => rows'[n] = rows[n]]_vars

\* What a single indexer has of the final ledgers is final and complete: it never rewinds
\* them, its rollbacks take only what the source gave up, and every hook has run.
LedgersStay == []RefreshedBeforeAdvance /\ NeverRewinds /\ RollbackIsMinimal
=============================================================================
