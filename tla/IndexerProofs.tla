--------------------------- MODULE IndexerProofs ----------------------------
(***************************************************************************)
(* Proofs about the two indexers of the backend, for any number of         *)
(* connections, workers, records, ledgers, branches and faults.  Of the    *)
(* event indexer: its cursor names a record that was handled and, unless   *)
(* it is stopped, no record before it was skipped.  Of the finality        *)
(* indexer, whatever its source reorganises: the stored ledgers are a      *)
(* linked chain that ends at the checkpoint; of final ledgers only, while  *)
(* the source keeps those; and a worker that is alone never loses one.     *)
(***************************************************************************)
EXTENDS EventStream, LedgerIndexer, SequenceTheorems, TLAPS

-----------------------------------------------------------------------------
(* The event indexer.                                                       *)

\* StreamTypeOK without its two flags, which no other fact depends on.
CountsTypeOK ==
    /\ published \in Cursor
    /\ stored \in Cursor
    /\ conn \in [Connections -> Connection]
    /\ current \in Connections \cup {NoConnection}
    /\ timer \in 0..1
    /\ loose \in Nat
    /\ attempts \in Nat
    /\ running \in [Record -> 0..MaxInFlight]
    /\ saving \in [Record -> 0..MaxInFlight]
    /\ delivered \subseteq Record
    /\ handled \subseteq Record
    /\ streamFaults \in 0..MaxStreamFaults

FlagsTypeOK == stopped \in BOOLEAN /\ fatal \in BOOLEAN

\* Whoever is about to save a cursor has seen its record handled.
SaversHandled ==
    /\ CursorIsHandled
    /\ \A r \in Record : saving[r] > 0 => r \in handled

HandledInv == CountsTypeOK /\ SaversHandled

\* Every position a stream, a handler or the cursor is at has all the records
\* up to it delivered.
Reached(n, S) == 1..n \subseteq S

ReachedInv ==
    /\ Reached(stored, delivered)
    /\ \A c \in Connections : Reached(conn[c].at, delivered)
    /\ \A r \in Record : running[r] > 0 \/ saving[r] > 0 => Reached(r, delivered)
-----------------------------------------------------------------------------
USE EventStreamAssumption

\* What is reached with some events handled is reached with more.
LEMMA ReachedGrows ==
    ASSUME NEW S, NEW T, S \subseteq T, NEW n, Reached(n, S)
    PROVE  Reached(n, T)
  BY DEF Reached

\* Handling the next event reaches it.
LEMMA ReachedNext ==
    ASSUME NEW S, NEW n \in Nat, Reached(n, S)
    PROVE  Reached(n + 1, S \cup {n + 1})
  BY DEF Reached

\* The beginning of the stream is reached with none.
LEMMA ReachedZero == \A S : Reached(0, S)
  BY DEF Reached

\* The first state of the stream indexer satisfies its invariants.
LEMMA InitHolds == StreamInit => HandledInv /\ ReachedInv
<1> SUFFICES ASSUME StreamInit PROVE HandledInv /\ ReachedInv
  OBVIOUS
<1> USE DEF StreamInit, Record, Cursor
<1>1. PICK b \in Connections : conn = Booted(b)
  OBVIOUS
<1>2. conn \in [Connections -> Connection] /\ \A c \in Connections : conn[c].at = 0
  BY <1>1 DEF Booted, Idle, Querying, Connection
<1>3. HandledInv
  BY <1>2 DEF HandledInv, CountsTypeOK, SaversHandled,
              CursorIsHandled, NoHandler
<1>4. ReachedInv
  BY <1>2, ReachedZero DEF ReachedInv, NoHandler
<1> QED BY <1>3, <1>4

\* The flags keep their types.
LEMMA FlagsStep == FlagsTypeOK /\ [StreamNext]_streamVars => FlagsTypeOK'
  BY DEF FlagsTypeOK, StreamNext, streamVars, process, Start, Publish, Connecting,
         ReadCursor, OpenStream, Deliver, Handling, EventHandled, EventFails,
         SaveCursor, StreamError, ReconnectTimer, Crash, Stop

\* Every step leaves each connection a connection.
LEMMA ConnectionStep ==
    /\ conn \in [Connections -> Connection]
    /\ stored \in Cursor /\ published \in Cursor
    /\ [StreamNext]_streamVars
    => conn' \in [Connections -> Connection]
<1> SUFFICES ASSUME conn \in [Connections -> Connection], stored \in Cursor, published \in Cursor,
                    [StreamNext]_streamVars
             PROVE  conn' \in [Connections -> Connection]
  OBVIOUS
<1>1. Idle \in Connection /\ Querying \in Connection
  BY DEF Idle, Querying, Connection, Cursor
<1>2. ASSUME NEW c \in Connections, NEW v \in Connection, conn' = [conn EXCEPT ![c] = v]
      PROVE  conn' \in [Connections -> Connection]
  BY <1>2
<1>3. ASSUME NEW c \in Connections, Connect(c) PROVE conn' \in [Connections -> Connection]
  BY <1>1, <1>2, <1>3 DEF Connect
<1>4. CASE Start
  BY <1>3, <1>4 DEF Start
<1>5. ASSUME NEW c \in Connections, ReadCursor(c)
      PROVE  conn' \in [Connections -> Connection]
  <2>1. PICK x \in {stored, 0} : conn' = [conn EXCEPT ![c] = [phase |-> "queried", at |-> x]]
    BY <1>5 DEF ReadCursor
  <2>2. [phase |-> "queried", at |-> x] \in Connection
    BY DEF Connection, Cursor
  <2> QED BY <1>2, <2>1, <2>2
<1>6. ASSUME NEW c \in Connections, OpenStream(c)
      PROVE  conn' \in [Connections -> Connection]
  <2>1. [phase |-> "open", at |-> conn[c].at] \in Connection
    BY DEF Connection
  <2> QED BY <1>2, <1>6, <2>1 DEF OpenStream
<1>7. ASSUME NEW c \in Connections, Deliver(c)
      PROVE  conn' \in [Connections -> Connection]
  <2>1. conn[c].at + 1 \in Cursor
    BY <1>7 DEF Deliver, Cursor, Connection
  <2>2. [phase |-> "open", at |-> conn[c].at + 1] \in Connection
    BY <2>1 DEF Connection
  <2> QED BY <1>2, <1>7, <2>2 DEF Deliver
<1>8. ASSUME NEW c \in Connections, StreamError(c)
      PROVE  conn' \in [Connections -> Connection]
  BY <1>1, <1>8 DEF StreamError
<1>9. CASE ReconnectTimer
  BY <1>3, <1>9 DEF ReconnectTimer
<1>10. CASE Crash
  BY <1>1, <1>10 DEF Crash, Booted
<1>11. CASE Stop
  BY <1>1, <1>11 DEF Stop, CloseCurrent
<1>12. CASE Publish \/ Handling
  BY <1>12 DEF Publish, Handling, EventHandled, EventFails, SaveCursor
<1>13. CASE UNCHANGED streamVars
  BY <1>13 DEF streamVars
<1> QED
  BY <1>4, <1>5, <1>6, <1>7, <1>8, <1>9, <1>10, <1>11, <1>12, <1>13
  DEF StreamNext, Connecting

\* Every step leaves the counts of the handlers counts, and saves only what is handled.
Counts == [Record -> 0..MaxInFlight]

\* One more in flight is a count.
LEMMA CountUp ==
    ASSUME NEW f \in Counts, NEW r \in Record, f[r] < MaxInFlight
    PROVE  [f EXCEPT ![r] = @ + 1] \in Counts
<1>1. f[r] + 1 \in 0..MaxInFlight
  BY DEF Counts
<1> QED BY <1>1 DEF Counts

\* One less is, and nothing new is in flight.
LEMMA CountDown ==
    ASSUME NEW f \in Counts, NEW r \in Record, f[r] > 0
    PROVE  /\ [f EXCEPT ![r] = @ - 1] \in Counts
           /\ \A q \in Record : [f EXCEPT ![r] = @ - 1][q] > 0 => f[q] > 0
<1>1. f[r] - 1 \in 0..MaxInFlight
  BY DEF Counts
<1> QED BY <1>1 DEF Counts

\* What is in flight stays counted.
LEMMA HandlerStep ==
    /\ running \in Counts /\ saving \in Counts
    /\ conn \in [Connections -> Connection] /\ published \in Cursor
    /\ [StreamNext]_streamVars
    => running' \in Counts /\ saving' \in Counts
<1> SUFFICES ASSUME running \in Counts, saving \in Counts,
                    conn \in [Connections -> Connection], published \in Cursor,
                    [StreamNext]_streamVars
             PROVE  running' \in Counts /\ saving' \in Counts
  OBVIOUS
<1>1. ASSUME NEW c \in Connections, Deliver(c)
      PROVE  running' \in Counts /\ saving' \in Counts
  <2>1. conn[c].at + 1 \in Record
    BY <1>1 DEF Deliver, Connection, Record, Cursor
  <2> QED BY <1>1, <2>1, CountUp DEF Deliver
<1>2. ASSUME NEW r \in Record, EventHandled(r)
      PROVE  running' \in Counts /\ saving' \in Counts
  BY <1>2, CountUp, CountDown DEF EventHandled
<1>3. ASSUME NEW r \in Record, EventFails(r)
      PROVE  running' \in Counts /\ saving' \in Counts
  BY <1>3, CountDown DEF EventFails
<1>4. ASSUME NEW r \in Record, SaveCursor(r)
      PROVE  running' \in Counts /\ saving' \in Counts
  BY <1>4, CountDown DEF SaveCursor
<1>5. CASE Crash
  BY <1>5 DEF Crash, NoHandler, Counts
<1>6. CASE Start \/ Stop \/ Publish \/ Connecting \/ ReconnectTimer
  BY <1>6 DEF Start, Stop, Publish, Connecting, ReadCursor, OpenStream, ReconnectTimer, handlers
<1>7. ASSUME NEW c \in Connections, StreamError(c)
      PROVE  running' \in Counts /\ saving' \in Counts
  BY <1>7 DEF StreamError, handlers
<1>8. CASE UNCHANGED streamVars
  BY <1>8 DEF streamVars, handlers
<1> QED BY <1>1, <1>2, <1>3, <1>4, <1>5, <1>6, <1>7, <1>8 DEF StreamNext, Handling

\* No step of a running or of a stopped indexer breaks the invariant that the
\* cursor names a handled record.
LEMMA HandledStep == HandledInv /\ [StreamNext]_streamVars => HandledInv'
<1> SUFFICES ASSUME HandledInv, [StreamNext]_streamVars PROVE HandledInv'
  OBVIOUS
<1>0. /\ conn' \in [Connections -> Connection]
      /\ running' \in [Record -> 0..MaxInFlight]
      /\ saving' \in [Record -> 0..MaxInFlight]
  BY ConnectionStep, HandlerStep DEF HandledInv, CountsTypeOK, Counts
<1> DEFINE Goal ==
             /\ published' \in Cursor /\ stored' \in Cursor
             /\ current' \in Connections \cup {NoConnection}
             /\ timer' \in 0..1 /\ loose' \in Nat /\ attempts' \in Nat
             /\ delivered' \subseteq Record /\ handled' \subseteq Record
             /\ streamFaults' \in 0..MaxStreamFaults
             /\ SaversHandled'
<1> SUFFICES Goal
  BY <1>0 DEF HandledInv, CountsTypeOK
<1>types. /\ published \in Cursor /\ stored \in Cursor
      /\ conn \in [Connections -> Connection]
      /\ current \in Connections \cup {NoConnection}
      /\ timer \in 0..1 /\ loose \in Nat /\ attempts \in Nat
      /\ running \in Counts /\ saving \in Counts
      /\ delivered \subseteq Record /\ handled \subseteq Record
      /\ streamFaults \in 0..MaxStreamFaults
      /\ SaversHandled
  BY DEF HandledInv, CountsTypeOK, Counts
<1> USE <1>types DEF SaversHandled, CursorIsHandled, process, handlers
<1>1. CASE Start
  BY <1>1 DEF Start
<1>2. CASE Publish
  BY <1>2 DEF Publish, Cursor
<1>3. ASSUME NEW c \in Connections, ReadCursor(c) PROVE Goal
  BY <1>3 DEF ReadCursor
<1>4. ASSUME NEW c \in Connections, OpenStream(c) PROVE Goal
  BY <1>4 DEF OpenStream
<1>5. ASSUME NEW c \in Connections, Deliver(c) PROVE Goal
  <2>1. conn[c].at + 1 \in Record
    BY <1>5 DEF Deliver, Connection, Record, Cursor
  <2> QED BY <1>5, <2>1 DEF Deliver
<1>6. ASSUME NEW r \in Record, EventHandled(r) PROVE Goal
  <2>1. \A q \in Record : saving'[q] > 0 => saving[q] > 0 \/ q = r
    BY <1>6 DEF EventHandled, Counts
  <2> QED BY <1>6, <2>1 DEF EventHandled
<1>7. ASSUME NEW r \in Record, EventFails(r) PROVE Goal
  BY <1>7 DEF EventFails
<1>8. ASSUME NEW r \in Record, SaveCursor(r) PROVE Goal
  <2>1. \A q \in Record : saving'[q] > 0 => saving[q] > 0
    BY <1>8, CountDown DEF SaveCursor
  <2>2. stored' \in {r, stored} /\ stored' \in Cursor /\ r \in handled
    BY <1>8 DEF SaveCursor, Record, Cursor
  <2> QED BY <1>8, <2>1, <2>2 DEF SaveCursor
<1>9. ASSUME NEW c \in Connections, StreamError(c) PROVE Goal
  <2>1. timer' \in 0..1 /\ loose' \in Nat /\ attempts' \in Nat
    BY <1>9 DEF StreamError, Arm
  <2> QED BY <1>9, <2>1 DEF StreamError
<1>10. CASE ReconnectTimer
  <2>1. loose' \in Nat /\ timer' = 0
    BY <1>10 DEF ReconnectTimer, Fire
  <2> QED BY <1>10, <2>1 DEF ReconnectTimer
<1>11. CASE Crash
  <2>1. \A q \in Record : saving'[q] = 0
    BY <1>11 DEF Crash, NoHandler
  <2> QED BY <1>11, <2>1 DEF Crash
<1>12. CASE Stop
  BY <1>12 DEF Stop, CloseCurrent
<1>13. CASE UNCHANGED streamVars
  BY <1>13 DEF streamVars
<1> QED
  BY <1>1, <1>2, <1>3, <1>4, <1>5, <1>6, <1>7, <1>8, <1>9, <1>10, <1>11, <1>12, <1>13
  DEF StreamNext, Connecting, Handling

\* Nor does a step of a running indexer leave a record behind.
LEMMA ReachedStep ==
    HandledInv /\ ReachedInv /\ [StreamNext]_streamVars /\ ~stopped /\ ~stopped' => ReachedInv'
<1> SUFFICES ASSUME HandledInv, ReachedInv, [StreamNext]_streamVars, ~stopped, ~stopped'
             PROVE  ReachedInv'
  OBVIOUS
<1> USE ReachedZero DEF ReachedInv, process, handlers
<1>0. /\ conn \in [Connections -> Connection]
      /\ running \in [Record -> 0..MaxInFlight]
      /\ saving \in [Record -> 0..MaxInFlight]
  BY DEF HandledInv, CountsTypeOK
<1>1. CASE Start
  BY <1>0, <1>1 DEF Start, Connect, Querying
<1>2. CASE Publish
  BY <1>2 DEF Publish
<1>3. ASSUME NEW c \in Connections, ReadCursor(c) PROVE ReachedInv'
  <2>1. PICK x \in {stored, 0} : conn' = [conn EXCEPT ![c] = [phase |-> "queried", at |-> x]]
    BY <1>3 DEF ReadCursor
  <2>2. \A d \in Connections : conn'[d].at \in {x, conn[d].at}
    BY <1>0, <2>1
  <2>3. UNCHANGED <<stored, running, saving, delivered, stopped>>
    BY <1>3 DEF ReadCursor
  <2> QED BY <2>1, <2>2, <2>3
<1>4. ASSUME NEW c \in Connections, OpenStream(c) PROVE ReachedInv'
  <2>1. \A d \in Connections : conn'[d].at = conn[d].at
    BY <1>0, <1>4 DEF OpenStream
  <2> QED BY <1>4, <2>1 DEF OpenStream
<1>5. ASSUME NEW c \in Connections, Deliver(c) PROVE ReachedInv'
  <2> DEFINE r == conn[c].at + 1
  <2>1. /\ conn' = [conn EXCEPT ![c] = [phase |-> "open", at |-> r]]
        /\ running' = [running EXCEPT ![r] = @ + 1]
        /\ delivered' = delivered \cup {r}
        /\ UNCHANGED <<stored, saving, stopped>>
    BY <1>5 DEF Deliver
  <2>2. Reached(r, delivered')
    <3>1. conn[c].at \in Nat
      BY <1>0 DEF Connection, Cursor
    <3> QED BY <2>1, <3>1, ReachedNext
  <2> HIDE DEF r
  <2>3. \A n : Reached(n, delivered) => Reached(n, delivered')
    BY <2>1, ReachedGrows
  <2>4. \A d \in Connections : conn'[d].at \in {r, conn[d].at}
    BY <1>0, <2>1
  <2>5. \A q \in Record : running'[q] > 0 => q = r \/ running[q] > 0
    BY <1>0, <2>1
  <2> QED BY <2>1, <2>2, <2>3, <2>4, <2>5
<1>6. ASSUME NEW r \in Record, EventHandled(r) PROVE ReachedInv'
  BY <1>0, <1>6 DEF EventHandled
<1>7. ASSUME NEW r \in Record, EventFails(r) PROVE ReachedInv'
  BY <1>0, <1>7 DEF EventFails
<1>8. ASSUME NEW r \in Record, SaveCursor(r) PROVE ReachedInv'
  <2>1. Reached(r, delivered) /\ stored' \in {r, stored}
    BY <1>8 DEF SaveCursor
  <2>2. \A q \in Record : saving'[q] > 0 => saving[q] > 0
    BY <1>0, <1>8 DEF SaveCursor
  <2>3. UNCHANGED <<conn, running, delivered, stopped>>
    BY <1>8 DEF SaveCursor
  <2> QED BY <2>1, <2>2, <2>3
<1>9. ASSUME NEW c \in Connections, StreamError(c) PROVE ReachedInv'
  <2>1. \A d \in Connections : conn'[d].at \in {0, conn[d].at}
    BY <1>9 DEF StreamError, Idle
  <2>2. UNCHANGED <<stored, running, saving, delivered, stopped>>
    BY <1>9 DEF StreamError
  <2> QED BY <2>1, <2>2
<1>10. CASE ReconnectTimer
  BY <1>0, <1>10 DEF ReconnectTimer, Connect, Querying
<1>11. CASE Crash
  BY <1>11 DEF Crash, Booted, Idle, Querying, NoHandler
<1>12. CASE UNCHANGED streamVars
  BY <1>12 DEF streamVars
<1> QED
  BY <1>1, <1>2, <1>3, <1>4, <1>5, <1>6, <1>7, <1>8, <1>9, <1>10, <1>11, <1>12
  DEF StreamNext, Stop, Connecting, Handling
-----------------------------------------------------------------------------
\* Types, and the cursor names a record whose handler succeeded: with stop(),
\* repeated start(), crashes and overlapping streams (listener.ts handleMessage).
THEOREM CursorIsAlwaysHandled == StreamSpec => []StreamTypeOK /\ []CursorIsHandled
<1>1. HandledInv /\ FlagsTypeOK => StreamTypeOK /\ CursorIsHandled
  BY DEF HandledInv, SaversHandled, CountsTypeOK, FlagsTypeOK, StreamTypeOK
<1>2. StreamInit => FlagsTypeOK
  BY DEF StreamInit, FlagsTypeOK
<1> QED BY InitHolds, HandledStep, FlagsStep, <1>1, <1>2, PTL DEF StreamSpec

\* An indexer that is not stopped hands every record up to its cursor to a
\* handler (listener.ts connect, handleMessage, handleStreamError).
THEOREM NothingIsSkipped == StreamSpec => NothingSkipped
<1> DEFINE Inv == HandledInv /\ ReachedInv
           Complete == 1..stored \subseteq delivered
<1>1. StreamInit => Inv
  BY InitHolds
<1>2. Inv /\ [StreamNext]_streamVars /\ ~stopped /\ ~stopped' => Inv'
  BY HandledStep, ReachedStep
<1>3. Inv => Complete
  BY DEF ReachedInv, Reached
<1>4. []~stopped /\ StreamSpec => []Complete
  BY <1>1, <1>2, <1>3, PTL DEF StreamSpec
<1> QED BY <1>4 DEF NothingSkipped

\* The cursor is safe to start again from, for any number of connections and faults.
THEOREM CursorStaysSafe == StreamSpec => CursorIsSafe
  BY CursorIsAlwaysHandled, NothingIsSkipped, PTL DEF CursorIsSafe

-----------------------------------------------------------------------------
(* The finality indexer.                                                    *)

USE IndexerAssumption, NoneAssumption

\* A place of a worker that the type invariant allows.
Place(k) == k \in WorkerState /\ Equipped(k)
-----------------------------------------------------------------------------
(* What the local steps of sync() return.                                   *)

\* Waiting for the next sync is a place for a worker to be.
LEMMA PollingIsPlace == ASSUME NEW f \in Nat \ {0} PROVE Place(Polling(f))
  BY DEF Place, WorkerState, Equipped, Polling

\* So is booting.
LEMMA BootingIsPlace == Place(Booting)
<1> DEFINE k == Polling(1)
<1>1. k \in WorkerState
  BY PollingIsPlace DEF Place
<1> HIDE DEF k
<1>2. Place([k EXCEPT !.pc = "boot"])
  BY <1>1 DEF Place, WorkerState, Equipped
<1> QED BY <1>2 DEF Booting, k

\* So is where a plan leads.
LEMMA PlannedIsPlace ==
    ASSUME NEW k \in WorkerState
    PROVE  Place(Planned(k))
<1> DEFINE next == IF k.seen = None THEN k.start ELSE k.seen.sequence + 1
           last == Least(Finalized(k), next + maxBatchSize - 1)
<1>1. next \in Nat
  BY DEF WorkerState, Checkpoint, Sequence
<1>2. last \in Int
  BY <1>1 DEF WorkerState, Finalized, Least, Greatest
<1>3. CASE next > last
  <2>1. Planned(k) = Polling(k.start)
    BY <1>3 DEF Planned
  <2>2. k.start \in Nat \ {0}
    BY DEF WorkerState
  <2> QED BY PollingIsPlace, <2>1, <2>2
<1>4. CASE ~(next > last)
  <2>1. Planned(k) = [k EXCEPT !.pc = "fetch", !.at = next, !.last = last, !.ledger = None]
    BY <1>4 DEF Planned
  <2>2. last \in Nat
    BY <1>1, <1>2, <1>4
  <2> HIDE DEF next, last
  <2> QED BY <1>1, <2>1, <2>2 DEF Place, Equipped, WorkerState
<1> QED BY <1>3, <1>4

\* So is a look for the last ledger in common.
LEMMA SearchingIsPlace ==
    ASSUME NEW k \in WorkerState, k.seen # None, NEW saw \in BOOLEAN,
           NEW candidate \in Int, candidate < k.seen.sequence
    PROVE  Place(Searching(k, candidate, saw))
<1>1. k.seen.sequence \in Sequence /\ k.start \in Nat \ {0}
  BY DEF WorkerState, Checkpoint
<1>2. Floor(k) \in Nat \ {0}
  BY <1>1 DEF Floor, Greatest, Sequence
<1>3. ASSUME candidate >= Floor(k) PROVE Place(Searching(k, candidate, saw))
  <2>1. Searching(k, candidate, saw) =
          [k EXCEPT !.pc = "stored", !.at = candidate, !.saw = saw, !.ledger = None]
    BY <1>3 DEF Searching
  <2>2. candidate \in Nat /\ candidate \in 1..(k.seen.sequence - 1)
    BY <1>1, <1>2, <1>3 DEF Sequence
  <2> QED BY <2>1, <2>2 DEF Place, Equipped, WorkerState
<1>4. Place([k EXCEPT !.pc = "rollback", !.at = 0, !.ledger = None])
  <2> DEFINE j == [k EXCEPT !.pc = "rollback", !.at = 0, !.ledger = None]
  <2>1. j \in WorkerState
    BY DEF WorkerState
  <2>2. j.pc = "rollback" /\ j.at = 0 /\ 0 \in 0..MaxHeight
    BY DEF WorkerState
  <2> HIDE DEF j
  <2>3. Place(j)
    BY <2>1, <2>2 DEF Place, Equipped
  <2> QED BY <2>3 DEF j
<1>5. Place(Polling(k.start))
  BY PollingIsPlace, <1>1
<1> QED BY <1>3, <1>4, <1>5 DEF Searching

\* So is the beginning of it.
LEMMA SearchIsPlace ==
    ASSUME NEW k \in WorkerState, k.seen # None
    PROVE  Place(Search(k))
<1> DEFINE candidate == Least(k.seen.sequence - 1, Least(k.latest, Finalized(k)))
<1>1. candidate \in Int /\ candidate < k.seen.sequence
  BY DEF WorkerState, Checkpoint, Sequence, Finalized, Least, Greatest
<1> HIDE DEF candidate
<1> QED BY <1>1, SearchingIsPlace DEF Search, candidate

\* The source gives a ledger or none.
LEMMA SourceLedgerType ==
    ASSUME IndexerTypeOK, NEW n \in Nat
    PROVE  SourceLedger(n) \in Ledger \cup {None}
<1>1. \A m \in Int : m <= Len(chain) => HashAt(m) \in Hash
  BY SubSeqProperties DEF IndexerTypeOK, Hash, HashAt
<1>2. n \in oldest..Len(chain) => n \in Sequence
  BY DEF IndexerTypeOK, Sequence
<1> QED BY <1>1, <1>2 DEF SourceLedger, Ledger, IndexerTypeOK, Sequence

\* What a step of sync() makes of its worker.
Advances(w) ==
    \E k : Place(k) /\ Become(w, k)

\* Whatever a sync does next leads to a place.
LEMMA SyncAdvances ==
    ASSUME IndexerTypeOK, NEW w \in Workers, Sync(w)
    PROVE  Advances(w)
<1> DEFINE k == worker[w]
<1>0. k \in WorkerState /\ Equipped(k) /\ checkpoint \in Checkpoint \cup {None}
  BY DEF IndexerTypeOK
<1>1. CASE BootCheckpoint(w)
  <2>1. Place([k EXCEPT !.pc = "bootLatest", !.seen = checkpoint])
    BY <1>0 DEF Place, WorkerState, Equipped
  <2> QED BY <1>1, <2>1 DEF BootCheckpoint, Advances
<1>2. CASE BootLatest(w)
  <2>1. k.seen # None => k.seen.sequence \in Nat \ {0}
    BY <1>0 DEF WorkerState, Checkpoint, Sequence
  <2>2. Greatest(1, Len(chain) - finalityDepth) \in Nat \ {0}
    BY DEF IndexerTypeOK, Greatest, Sequence
  <2>3. \E f \in Nat \ {0} : Become(w, Polling(f))
    BY <1>2, <2>1, <2>2 DEF BootLatest
  <2> QED BY <2>3, PollingIsPlace DEF Advances
<1>3. CASE ReadLatest(w)
  <2>0. Len(chain) \in Nat
    BY DEF IndexerTypeOK, Sequence
  <2>1. Place([k EXCEPT !.pc = "checkpoint", !.latest = Len(chain)])
    BY <1>0, <2>0 DEF Place, WorkerState, Equipped
  <2> QED BY <1>3, <2>1 DEF ReadLatest, Advances
<1>4. CASE ReadCheckpoint(w)
  <2> DEFINE j == [k EXCEPT !.seen = checkpoint]
  <2>1. j \in WorkerState /\ j.seen = checkpoint
    BY <1>0 DEF WorkerState
  <2>2. checkpoint # None => Place([j EXCEPT !.pc = "verify"])
    BY <2>1 DEF Place, WorkerState, Equipped
  <2>3. Place(Planned(j)) /\ (checkpoint # None => Place(Search(j)))
    BY <2>1, PlannedIsPlace, SearchIsPlace
  <2> HIDE DEF j
  <2> QED BY <1>4, <2>2, <2>3 DEF ReadCheckpoint, Advances, j
<1>5. CASE VerifyCheckpoint(w)
  <2>1. k.seen # None
    BY <1>0, <1>5 DEF VerifyCheckpoint, At, Equipped
  <2>2. Place(Planned(k)) /\ Place(Search(k))
    BY <1>0, <2>1, PlannedIsPlace, SearchIsPlace
  <2> QED BY <1>5, <2>2 DEF VerifyCheckpoint, Advances
<1>6. CASE ReadStored(w)
  <2>1. k.pc = "stored" /\ k.seen # None /\ k.seen \in Checkpoint
    BY <1>0, <1>6 DEF ReadStored, At, Equipped, WorkerState
  <2>2. k.at \in Sequence /\ k.at - 1 \in Int /\ k.at - 1 < k.seen.sequence /\ k.saw \in BOOLEAN
    BY <1>0, <2>1 DEF Equipped, WorkerState, Checkpoint, Sequence
  <2>3. Place(Searching(k, k.at - 1, k.saw))
    BY <1>0, <2>1, <2>2, SearchingIsPlace
  <2>4. rows[k.at] # None => Place([k EXCEPT !.pc = "canonical", !.ledger = rows[k.at]])
    <3>1. rows[k.at] \in Ledger \cup {None}
      BY <2>2 DEF IndexerTypeOK
    <3> QED BY <1>0, <2>1, <3>1 DEF Place, WorkerState, Equipped
  <2> QED BY <1>6, <2>3, <2>4 DEF ReadStored, Advances
<1>7. CASE ReadCanonical(w)
  <2>1. k.pc = "canonical" /\ k.seen # None /\ k.seen \in Checkpoint
    BY <1>0, <1>7 DEF ReadCanonical, At, Equipped, WorkerState
  <2>2. k.at \in 0..MaxHeight /\ k.at - 1 \in Int /\ k.at - 1 < k.seen.sequence
    BY <1>0, <2>1 DEF Equipped, WorkerState, Checkpoint, Sequence
  <2>3. \A saw \in BOOLEAN : Place(Searching(k, k.at - 1, saw))
    BY <1>0, <2>1, <2>2, SearchingIsPlace
  <2>4. Place([k EXCEPT !.pc = "rollback", !.ledger = None])
    BY <1>0, <2>2 DEF Place, WorkerState, Equipped
  <2> DEFINE saw == k.saw \/ SourceLedger(k.at) # None
  <2>5. saw \in BOOLEAN
    OBVIOUS
  <2>6. Become(w, [k EXCEPT !.pc = "rollback", !.ledger = None])
        \/ Become(w, Searching(k, k.at - 1, saw))
    BY <1>7 DEF ReadCanonical
  <2> HIDE DEF saw
  <2> QED BY <2>3, <2>4, <2>5, <2>6 DEF Advances
<1>8. CASE RollbackTo(w)
  <2>1. Place([k EXCEPT !.pc = "recheck"])
    BY <1>0 DEF Place, WorkerState, Equipped
  <2>2. Place(Polling(k.start))
    BY <1>0, PollingIsPlace DEF WorkerState
  <2> QED BY <1>8, <2>1, <2>2 DEF RollbackTo, Advances
<1>9. CASE RereadCheckpoint(w)
  <2> DEFINE j == [k EXCEPT !.seen = checkpoint]
  <2>1. j \in WorkerState
    BY <1>0 DEF WorkerState
  <2>2. Place(Planned(j))
    BY <2>1, PlannedIsPlace
  <2> QED BY <1>9, <2>2 DEF RereadCheckpoint, Advances
<1>10. CASE FetchLedger(w)
  <2>1. k.start \in Nat \ {0} /\ k.at \in Nat
    BY <1>0 DEF WorkerState
  <2>2. SourceLedger(k.at) \in Ledger \cup {None}
    BY <2>1, SourceLedgerType
  <2>3. SourceLedger(k.at) # None => Place([k EXCEPT !.pc = "append", !.ledger = SourceLedger(k.at)])
    BY <1>0, <2>2 DEF Place, WorkerState, Equipped
  <2> QED BY <1>10, <2>1, <2>3, PollingIsPlace DEF FetchLedger, Advances
<1>11. CASE AppendLedger(w)
  <2> DEFINE tip == [sequence |-> k.ledger.sequence, hash |-> k.ledger.hash]
  <2>1. k.ledger \in Ledger
    BY <1>0, <1>11 DEF AppendLedger, At, Equipped, WorkerState
  <2>2. tip \in Checkpoint
    BY <2>1 DEF Ledger, Checkpoint
  <2> HIDE DEF tip
  <2>3. Place([k EXCEPT !.pc = "hook", !.seen = tip])
    BY <1>0, <2>1, <2>2 DEF Place, WorkerState, Equipped
  <2>4. Place(Polling(k.start))
    BY <1>0, PollingIsPlace DEF WorkerState
  <2> QED BY <1>11, <2>3, <2>4 DEF AppendLedger, Advances, tip
<1>12. CASE CommitHook(w)
  <2>0. k.at + 1 \in Nat
    BY <1>0 DEF WorkerState
  <2>1. Place([k EXCEPT !.pc = "fetch", !.at = @ + 1, !.ledger = None])
    BY <1>0, <2>0 DEF Place, WorkerState, Equipped
  <2>2. Place(Polling(k.start))
    BY <1>0, PollingIsPlace DEF WorkerState
  <2> QED BY <1>12, <2>1, <2>2 DEF CommitHook, Advances
<1> QED
  BY <1>1, <1>2, <1>3, <1>4, <1>5, <1>6, <1>7, <1>8, <1>9, <1>10, <1>11, <1>12 DEF Sync
-----------------------------------------------------------------------------
(* Type correctness, for a source that reorganises as it likes.             *)

WorkersOK ==
    /\ worker \in [Workers -> WorkerState]
    /\ \A w \in Workers : Equipped(worker[w])

SourceOK ==
    /\ chain \in Hash
    /\ Len(chain) \in Sequence
    /\ highest \in Sequence
    /\ oldest \in Nat \ {0}
    /\ gaveUp \subseteq {"final", "height"}
    /\ reorgs \in Nat

StoreOK ==
    /\ rows \in [Sequence -> Ledger \cup {None}]
    /\ checkpoint \in Checkpoint \cup {None}

\* The type of the indexer, in parts.
LEMMA TypeParts ==
    /\ IndexerTypeOK <=> SourceOK /\ faults \in Nat /\ StoreOK
                          /\ committed \subseteq Hash /\ WorkersOK
    /\ IndexerTypeOK' <=> SourceOK' /\ faults' \in Nat /\ StoreOK'
                           /\ committed' \subseteq Hash /\ WorkersOK'
  BY Zenon DEF IndexerTypeOK, SourceOK, StoreOK, WorkersOK

\* A worker that goes from place to place keeps the type of workers.
LEMMA AdvancesKeepsWorkers ==
    ASSUME IndexerTypeOK, NEW w \in Workers, Advances(w)
    PROVE  WorkersOK'
<1>1. PICK k : Place(k) /\ Become(w, k)
  BY DEF Advances
<1>2. /\ k \in WorkerState
      /\ Equipped(k)
      /\ worker' = [worker EXCEPT ![w] = k]
      /\ worker \in [Workers -> WorkerState]
      /\ \A v \in Workers : Equipped(worker[v])
  BY <1>1 DEF Place, Become, IndexerTypeOK
<1>3. worker' \in [Workers -> WorkerState]
  BY <1>2, Zenon
<1>4. ASSUME NEW v \in Workers PROVE Equipped(worker'[v])
  <2>1. worker'[v] = k \/ worker'[v] = worker[v]
    BY <1>2, Zenon
  <2> QED BY <1>2, <2>1, Zenon
<1> QED BY <1>3, <1>4 DEF WorkersOK, Equipped

\* The chain keeps the types.
LEMMA SourceKeepsTypes ==
    ASSUME IndexerTypeOK,
           \/ CloseLedger
           \/ Forget
           \/ \E k \in 1..Len(chain) : Reorganise(k)
    PROVE  IndexerTypeOK'
<1>1. ASSUME UNCHANGED <<store, committed, worker, faults>>, SourceOK'
      PROVE  IndexerTypeOK'
  BY <1>1 DEF IndexerTypeOK, SourceOK, store, Equipped
<1>2. CASE CloseLedger
  <2>1. chain \in Hash /\ Len(chain) \in Sequence /\ Len(chain) < MaxHeight
    BY <1>2 DEF CloseLedger, IndexerTypeOK
  <2>2. chain[Len(chain)] \in Forks
    BY <2>1 DEF Hash, Sequence
  <2>3. chain' \in Hash /\ Len(chain') \in Sequence
    BY <1>2, <2>1, <2>2 DEF CloseLedger, Hash, Sequence
  <2>4. highest' \in Sequence
    BY <1>2, <2>3 DEF CloseLedger, IndexerTypeOK, Greatest
  <2>5. oldest' \in Nat \ {0} /\ gaveUp' \subseteq {"final", "height"} /\ reorgs' \in Nat
    BY <1>2 DEF CloseLedger, IndexerTypeOK
  <2> QED BY <1>1, <1>2, <2>3, <2>4, <2>5 DEF CloseLedger, SourceOK, store
<1>3. CASE Forget
  <2>1. SourceOK'
    BY <1>3 DEF Forget, IndexerTypeOK, SourceOK
  <2> QED BY <1>1, <1>3, <2>1 DEF Forget, store
<1>4. ASSUME NEW k \in 1..Len(chain), Reorganise(k)
      PROVE  IndexerTypeOK'
  <2>1. PICK f \in Forks, n \in k..MaxHeight :
          chain' = [i \in 1..n |-> IF i <= k THEN chain[i] ELSE f]
    BY <1>4 DEF Reorganise
  <2>2. chain \in Hash /\ k \in Nat \ {0} /\ k <= Len(chain) /\ Len(chain) \in Nat
    BY DEF IndexerTypeOK, Sequence
  <2>3. n \in Sequence
    BY <2>2 DEF Sequence
  <2>4. \A i \in 1..n : (IF i <= k THEN chain[i] ELSE f) \in Forks
    BY <2>2, <2>3 DEF Hash, Sequence
  <2>5. chain' \in [1..n -> Forks]
    BY <2>1, <2>4, Zenon
  <2>6. chain' \in Hash /\ Len(chain') = n
    <3>1. n \in Nat
      BY <2>3 DEF Sequence
    <3>2. \A s \in [1..n -> Forks] : s \in Seq(Forks) /\ Len(s) = n
      BY <3>1
    <3> QED BY <2>5, <3>2, Zenon DEF Hash
  <2>7. highest' \in Sequence /\ oldest' \in Nat \ {0} /\ reorgs' \in Nat
    <3>1. highest' = Greatest(highest, n)
      BY <1>4, <2>6 DEF Reorganise
    <3>2. oldest' = oldest /\ reorgs' = reorgs + 1
      BY <1>4 DEF Reorganise
    <3> QED BY <2>3, <3>1, <3>2 DEF IndexerTypeOK, Greatest
  <2>8. gaveUp' \subseteq {"final", "height"}
    BY <1>4, Zenon DEF Reorganise, IndexerTypeOK
  <2> QED BY <1>1, <1>4, <2>3, <2>6, <2>7, <2>8 DEF Reorganise, SourceOK, store
<1> QED BY <1>2, <1>3, <1>4

\* appendLedger keeps the type of the store.
LEMMA AppendKeepsStore ==
    ASSUME IndexerTypeOK, NEW w \in Workers, AppendLedger(w)
    PROVE  StoreOK'
<1> DEFINE ledger == worker[w].ledger
           tip == [sequence |-> ledger.sequence, hash |-> ledger.hash]
<1>1. worker[w] \in WorkerState /\ Equipped(worker[w]) /\ worker[w].pc = "append"
  BY DEF IndexerTypeOK, AppendLedger, At
<1>2. ledger \in Ledger
  BY <1>1 DEF Equipped, WorkerState
<1>3. ledger.sequence \in Sequence /\ tip \in Checkpoint
  BY <1>2 DEF Ledger, Checkpoint
<1>4. \/ rows' = [rows EXCEPT ![ledger.sequence] = ledger] /\ checkpoint' = tip
      \/ UNCHANGED store
  BY DEF AppendLedger
<1> HIDE DEF ledger, tip
<1> QED BY <1>2, <1>3, <1>4 DEF StoreOK, IndexerTypeOK, store

\* rollbackTo keeps it.
LEMMA RollbackKeepsStore ==
    ASSUME IndexerTypeOK, NEW w \in Workers, RollbackTo(w)
    PROVE  StoreOK'
<1> DEFINE at == worker[w].at
<1>1. worker[w] \in WorkerState /\ Equipped(worker[w]) /\ worker[w].pc = "rollback"
  BY DEF IndexerTypeOK, RollbackTo, At
<1>2. at \in 0..MaxHeight
  BY <1>1 DEF Equipped
<1>3. \/ UNCHANGED store
      \/ /\ ~(at > 0 /\ rows[at] = None)
         /\ rows' = [n \in Sequence |-> IF n > at THEN None ELSE rows[n]]
         /\ checkpoint' = IF at = 0 THEN None ELSE [sequence |-> at, hash |-> rows[at].hash]
  BY DEF RollbackTo
<1> HIDE DEF at
<1>4. at # 0 /\ rows[at] # None =>
        at \in Sequence /\ rows[at].hash \in Hash
  BY <1>2 DEF IndexerTypeOK, Sequence, Ledger
<1>5. CASE UNCHANGED store
  BY <1>5 DEF store, StoreOK, IndexerTypeOK
<1>6. CASE ~UNCHANGED store
  <2>1. checkpoint' \in Checkpoint \cup {None}
    BY <1>2, <1>3, <1>4, <1>6 DEF Checkpoint
  <2>2. rows' \in [Sequence -> Ledger \cup {None}]
    BY <1>3, <1>6 DEF IndexerTypeOK
  <2> QED BY <2>1, <2>2 DEF StoreOK
<1> QED BY <1>5, <1>6

\* A sync keeps all types.
LEMMA SyncKeepsTypes ==
    ASSUME IndexerTypeOK, NEW w \in Workers, Sync(w)
    PROVE  IndexerTypeOK'
<1>1. WorkersOK'
  BY SyncAdvances, AdvancesKeepsWorkers
<1>2. UNCHANGED source
  BY Zenon DEF Sync, BootCheckpoint, BootLatest, ReadLatest, ReadCheckpoint, VerifyCheckpoint,
         ReadStored, ReadCanonical, RollbackTo, RereadCheckpoint, FetchLedger,
         AppendLedger, CommitHook
<1>3. UNCHANGED store \/ AppendLedger(w) \/ RollbackTo(w)
  BY Zenon DEF Sync, BootCheckpoint, BootLatest, ReadLatest, ReadCheckpoint, VerifyCheckpoint,
         ReadStored, ReadCanonical, RereadCheckpoint, FetchLedger, CommitHook
<1>4. UNCHANGED <<committed, faults>> \/ CommitHook(w)
  BY Zenon DEF Sync, BootCheckpoint, BootLatest, ReadLatest, ReadCheckpoint, VerifyCheckpoint,
         ReadStored, ReadCanonical, RollbackTo, RereadCheckpoint, FetchLedger,
         AppendLedger
<1>5. SourceOK'
  BY <1>2 DEF source, SourceOK, IndexerTypeOK
<1>6. StoreOK'
  <2>1. CASE UNCHANGED store
    BY <2>1 DEF store, StoreOK, IndexerTypeOK
  <2> QED BY <1>3, <2>1, AppendKeepsStore, RollbackKeepsStore
<1>7. faults' \in Nat /\ committed' \subseteq Hash
  <2>1. CASE UNCHANGED <<committed, faults>>
    BY <2>1 DEF IndexerTypeOK
  <2>2. CASE CommitHook(w)
    <3>1. worker[w] \in WorkerState /\ Equipped(worker[w]) /\ worker[w].pc = "hook"
      BY <2>2 DEF IndexerTypeOK, CommitHook, At
    <3>2. worker[w].ledger.hash \in Hash
      BY <3>1 DEF Equipped, WorkerState, Ledger
    <3>3. /\ faults' = faults \/ faults' = faults + 1
          /\ committed' = committed \/ committed' = committed \cup {worker[w].ledger.hash}
      BY <2>2 DEF CommitHook
    <3>4. faults \in Nat /\ committed \subseteq Hash
      BY DEF IndexerTypeOK
    <3>5. faults' \in Nat
      BY <3>3, <3>4
    <3>6. committed' \subseteq Hash
      BY <3>2, <3>3, <3>4, Zenon
    <3> QED BY <3>5, <3>6
  <2> QED BY <1>4, <2>1, <2>2
<1> QED BY <1>1, <1>5, <1>6, <1>7, TypeParts

\* So do a sync that fails and a restart.
LEMMA FaultsKeepTypes ==
    ASSUME IndexerTypeOK, NEW w \in Workers, SyncFails(w) \/ Restart(w)
    PROVE  IndexerTypeOK'
<1>1. worker[w] \in WorkerState
  BY DEF IndexerTypeOK
<1>2. Place(Polling(worker[w].start)) /\ Place(Booting)
  <2>1. worker[w].start \in Nat \ {0}
    BY <1>1 DEF WorkerState
  <2> QED BY <2>1, PollingIsPlace, BootingIsPlace
<1>3. WorkersOK'
  <2>1. Advances(w)
    BY <1>2 DEF SyncFails, Restart, Advances
  <2> QED BY <2>1, AdvancesKeepsWorkers
<1>4. UNCHANGED <<source, store, committed>> /\ faults' = faults + 1
  BY DEF SyncFails, Restart
<1>5. SourceOK' /\ StoreOK' /\ committed' \subseteq Hash /\ faults' \in Nat
  BY <1>4 DEF IndexerTypeOK, SourceOK, StoreOK, source, store
<1> QED BY <1>3, <1>5, TypeParts

\* So every step does.
LEMMA IndexerStep ==
    ASSUME IndexerTypeOK, [IndexerNext]_vars
    PROVE  IndexerTypeOK'
<1>1. CASE UNCHANGED vars
  BY <1>1 DEF vars, source, store, IndexerTypeOK, Equipped
<1>2. CASE IndexerNext
  BY <1>2, SourceKeepsTypes, SyncKeepsTypes, FaultsKeepTypes DEF IndexerNext
<1> QED BY <1>1, <1>2

\* And the first state has them.
LEMMA IndexerStart == IndexerInit => IndexerTypeOK
<1> SUFFICES ASSUME IndexerInit PROVE IndexerTypeOK
  OBVIOUS
<1>1. WorkersOK
  BY BootingIsPlace DEF IndexerInit, WorkersOK, Place
<1>2. SourceOK
  BY DEF IndexerInit, SourceOK, Hash, Sequence
<1>3. StoreOK /\ committed \subseteq Hash /\ faults \in Nat
  BY DEF IndexerInit, StoreOK
<1> QED BY <1>1, <1>2, <1>3, TypeParts

\* Whatever the source does, every worker holds what the rest of its sync() is
\* going to use, and the store and the source stay within their types.
THEOREM IndexerIsTyped == IndexerSpec => []IndexerTypeOK
  BY IndexerStart, IndexerStep, PTL DEF IndexerSpec
-----------------------------------------------------------------------------
(* The store is a linked chain.  Only two actions touch it, and neither needs  *)
(* to know anything of the worker but the types of what it holds.              *)

\* appendLedger puts a ledger on top of its parent only.
LEMMA AppendKeepsLinks ==
    ASSUME IndexerTypeOK, StoreIsLinked, NEW w \in Workers, AppendLedger(w)
    PROVE  StoreIsLinked'
<1> DEFINE ledger == worker[w].ledger
           tip == [sequence |-> ledger.sequence, hash |-> ledger.hash]
<1>1. worker[w] \in WorkerState /\ Equipped(worker[w]) /\ worker[w].pc = "append"
  BY DEF IndexerTypeOK, AppendLedger, At
<1>2. ledger \in Ledger
  BY <1>1 DEF Equipped, WorkerState
<1>3. ledger.sequence \in Sequence /\ tip \in Checkpoint /\ ledger # None /\ tip # None
  BY <1>2 DEF Ledger, Checkpoint
<1>4. \/ /\ Appendable(ledger)
         /\ rows' = [rows EXCEPT ![ledger.sequence] = ledger]
         /\ checkpoint' = tip
      \/ UNCHANGED store
  BY DEF AppendLedger
<1>5. tip.sequence = ledger.sequence /\ tip.hash = ledger.hash
  OBVIOUS
<1> HIDE DEF ledger, tip
<1>6. CASE UNCHANGED store
  BY <1>6 DEF store, StoreIsLinked
<1>7. CASE /\ Appendable(ledger)
           /\ rows' = [rows EXCEPT ![ledger.sequence] = ledger]
           /\ checkpoint' = tip
  <2>1. rows \in [Sequence -> Ledger \cup {None}] /\ checkpoint \in Checkpoint \cup {None}
    BY DEF IndexerTypeOK
  <2>2. \A n \in Sequence : rows'[n] = IF n = ledger.sequence THEN ledger ELSE rows[n]
    BY <1>7, <2>1
  <2>3. CASE checkpoint = None
    <3>1. \A n \in Sequence : rows[n] = None
      BY <2>3 DEF StoreIsLinked
    <3>2. \A n \in Sequence : rows'[n] # None => n = tip.sequence
      BY <2>2, <3>1, <1>5
    <3>3. rows'[tip.sequence] = ledger
      BY <2>2, <1>3, <1>5
    <3> QED BY <1>3, <1>5, <1>7, <3>2, <3>3 DEF StoreIsLinked, Sequence
  <2>4. CASE checkpoint # None
    <3>1. checkpoint.sequence \in Sequence
      BY <2>1, <2>4 DEF Checkpoint
    <3>2. ledger.sequence = checkpoint.sequence + 1 /\ ledger.previousHash = checkpoint.hash
      BY <1>7, <2>4 DEF Appendable, Extends
    <3>3. rows'[ledger.sequence] = ledger
      BY <2>2, <1>3
    <3>4. \A n \in Sequence : rows'[n] # None => n <= ledger.sequence
      BY <2>2, <2>4, <3>1, <3>2 DEF StoreIsLinked, Sequence
    <3>5. ASSUME NEW n \in Sequence, rows'[n] # None, n < ledger.sequence
          PROVE  rows'[n + 1] # None /\ rows'[n + 1].previousHash = rows'[n].hash
      <4>1. rows'[n] = rows[n] /\ n <= checkpoint.sequence /\ n + 1 \in Sequence
        BY <2>2, <3>1, <3>2, <3>5, <1>3 DEF Sequence
      <4>2. CASE n = checkpoint.sequence
        BY <3>2, <3>3, <4>1, <4>2, <2>4, <1>3 DEF StoreIsLinked
      <4>3. CASE n < checkpoint.sequence
        <5>1. n + 1 # ledger.sequence
          BY <3>1, <3>2, <4>3 DEF Sequence
        <5>2. rows'[n + 1] = rows[n + 1]
          BY <2>2, <4>1, <5>1
        <5> QED BY <3>5, <4>1, <4>3, <5>2 DEF StoreIsLinked
      <4> QED BY <3>1, <4>1, <4>2, <4>3 DEF Sequence
    <3> QED BY <1>3, <1>5, <1>7, <3>3, <3>4, <3>5 DEF StoreIsLinked
  <2> QED BY <2>3, <2>4
<1> QED BY <1>4, <1>6, <1>7

\* rollbackTo takes ledgers from the top only.
LEMMA RollbackKeepsLinks ==
    ASSUME IndexerTypeOK, StoreIsLinked, NEW w \in Workers, RollbackTo(w)
    PROVE  StoreIsLinked'
<1> DEFINE at == worker[w].at
           tip == [sequence |-> at, hash |-> rows[at].hash]
<1>1. worker[w] \in WorkerState /\ Equipped(worker[w]) /\ worker[w].pc = "rollback"
  BY DEF IndexerTypeOK, RollbackTo, At
<1>2. at \in 0..MaxHeight
  BY <1>1 DEF Equipped
<1>3. \/ UNCHANGED store
      \/ /\ ~(at > 0 /\ rows[at] = None)
         /\ rows' = [n \in Sequence |-> IF n > at THEN None ELSE rows[n]]
         /\ checkpoint' = IF at = 0 THEN None ELSE tip
  BY DEF RollbackTo
<1>4. tip.sequence = at /\ tip.hash = rows[at].hash
  OBVIOUS
<1>5. rows \in [Sequence -> Ledger \cup {None}]
  BY DEF IndexerTypeOK
<1>6. at # 0 /\ rows[at] # None => tip \in Checkpoint /\ tip # None
  BY <1>2, <1>5 DEF Sequence, Ledger, Checkpoint
<1> HIDE DEF at, tip
<1>7. CASE UNCHANGED store
  BY <1>7 DEF store, StoreIsLinked
<1>8. CASE ~UNCHANGED store
  <2>1. \A n \in Sequence : rows'[n] = IF n > at THEN None ELSE rows[n]
    BY <1>3, <1>8
  <2>2. CASE at = 0
    <3>1. \A n \in Sequence : rows'[n] = None
      BY <2>1, <2>2 DEF Sequence
    <3>2. checkpoint' = None
      BY <1>3, <1>8, <2>2
    <3> QED BY <3>1, <3>2 DEF StoreIsLinked
  <2>3. CASE at # 0
    <3>1. at \in Sequence /\ rows[at] # None /\ checkpoint' = tip /\ tip # None
      BY <1>2, <1>3, <1>6, <1>8, <2>3 DEF Sequence
    <3>2. \A n \in Sequence : rows'[n] # None => n <= at /\ rows'[n] = rows[n]
      BY <2>1, <3>1 DEF Sequence
    <3>3. rows'[at] = rows[at]
      BY <2>1, <3>1 DEF Sequence
    <3>4. checkpoint # None /\ at <= checkpoint.sequence
      BY <3>1 DEF StoreIsLinked
    <3>5. ASSUME NEW n \in Sequence, rows'[n] # None, n < at
          PROVE  rows'[n + 1] # None /\ rows'[n + 1].previousHash = rows'[n].hash
      <4>1. n + 1 \in Sequence /\ ~(n + 1 > at)
        BY <3>1, <3>5 DEF Sequence
      <4>2. rows'[n + 1] = rows[n + 1] /\ rows'[n] = rows[n]
        BY <2>1, <3>2, <3>5, <4>1
      <4>3. n < checkpoint.sequence
        BY <3>1, <3>4, <3>5, IndexerTypeOK DEF IndexerTypeOK, Checkpoint, Sequence
      <4> QED BY <3>5, <4>2, <4>3 DEF StoreIsLinked
    <3> QED BY <1>4, <3>1, <3>2, <3>3, <3>5 DEF StoreIsLinked
  <2> QED BY <2>2, <2>3
<1> QED BY <1>7, <1>8

\* The store is a contiguous chain of linked ledgers that ends at the checkpoint,
\* however many workers index into it, whatever the source reorganises, forgets
\* or loses between two of their reads, and whatever fails.
THEOREM StoreStaysLinked == IndexerSpec => []StoreIsLinked
<1>1. IndexerInit => StoreIsLinked
  BY DEF IndexerInit, StoreIsLinked
<1>2. ASSUME IndexerTypeOK, StoreIsLinked, [IndexerNext]_vars
      PROVE  StoreIsLinked'
  <2>1. UNCHANGED store \/ \E w \in Workers : AppendLedger(w) \/ RollbackTo(w)
    <3>1. CASE UNCHANGED vars
      BY <3>1, Zenon DEF vars
    <3>2. CASE CloseLedger \/ Forget \/ \E k \in 1..Len(chain) : Reorganise(k)
      BY <3>2, Zenon DEF CloseLedger, Forget, Reorganise
    <3>3. CASE \E w \in Workers : Sync(w) \/ SyncFails(w) \/ Restart(w)
      BY <3>3, Zenon DEF Sync, BootCheckpoint, BootLatest, ReadLatest, ReadCheckpoint,
             VerifyCheckpoint, ReadStored, ReadCanonical, RereadCheckpoint, FetchLedger,
             CommitHook, SyncFails, Restart
    <3> QED BY <1>2, <3>1, <3>2, <3>3 DEF IndexerNext
  <2>2. CASE UNCHANGED store
    BY <1>2, <2>2 DEF store, StoreIsLinked
  <2> QED BY <1>2, <2>1, <2>2, AppendKeepsLinks, RollbackKeepsLinks
<1> QED BY <1>1, <1>2, IndexerIsTyped, PTL DEF IndexerSpec

\* The store is sound and its workers are equipped, however many of them compete.
THEOREM StoreStaysSound == IndexerSpec => []StoreIsSound
<1>1. IndexerTypeOK /\ StoreIsLinked => StoreIsSound
  BY DEF StoreIsSound
<1> QED BY <1>1, IndexerIsTyped, StoreStaysLinked, PTL
-----------------------------------------------------------------------------
(* The store holds final ledgers only.                                      *)

\* As deep below the highest ledger as the indexer takes for final.
Deep(n) == n + finalityDepth <= highest

\* What a worker has read, planned and fetched stays within the final ledgers of the
\* source: the plan of a sync() was made from a latest ledger that was there once.
HoldsFinal(k) ==
    /\ k.latest <= highest
    /\ k.pc \in {"fetch", "append", "hook"} => Deep(k.last)
    /\ k.pc \in {"fetch", "append"} => k.at <= k.last
    /\ k.pc = "append" =>
         /\ Deep(k.ledger.sequence)
         /\ k.ledger.sequence <= Len(chain)
         /\ k.ledger.hash = HashAt(k.ledger.sequence)

\* While the source keeps its word it has every final ledger, the store holds nothing
\* else, and neither does a worker on its way to the store.
FinalityInv ==
    "final" \notin gaveUp =>
        /\ highest - finalityDepth <= Len(chain)
        /\ \A n \in Sequence : rows[n] # None => Deep(n) /\ rows[n].hash = HashAt(n)
        /\ \A w \in Workers : HoldsFinal(worker[w])

\* A worker that polls, and one that starts, holds nothing.
LEMMA PollingHoldsFinal ==
    ASSUME IndexerTypeOK, NEW f \in Nat \ {0}
    PROVE  HoldsFinal(Polling(f))
BY DEF HoldsFinal, Polling, IndexerTypeOK, Sequence

\* A worker that boots has read nothing yet.
LEMMA BootingHoldsFinal ==
    ASSUME IndexerTypeOK
    PROVE  HoldsFinal(Booting)
BY DEF HoldsFinal, Booting, Polling, IndexerTypeOK, Sequence

\* The plan of a sync() ends where the final ledgers do.
LEMMA PlannedHoldsFinal ==
    ASSUME IndexerTypeOK, NEW k \in WorkerState, k.latest <= highest
    PROVE  HoldsFinal(Planned(k))
<1> DEFINE next == IF k.seen = None THEN k.start ELSE k.seen.sequence + 1
           last == Least(Finalized(k), next + maxBatchSize - 1)
           j == [k EXCEPT !.pc = "fetch", !.at = next, !.last = last, !.ledger = None]
<1>1. next \in Nat \ {0}
  BY DEF WorkerState, Checkpoint, Sequence
<1>2. k.latest \in Nat /\ highest \in Nat
  BY DEF WorkerState, IndexerTypeOK, Sequence
<1>3. CASE next > last
  <2>1. Planned(k) = Polling(k.start) /\ k.start \in Nat \ {0}
    BY <1>3 DEF Planned, WorkerState
  <2> QED BY <2>1, PollingHoldsFinal
<1>4. CASE ~(next > last)
  <2>1. Planned(k) = j
    BY <1>4 DEF Planned
  <2>2. last \in Nat /\ last <= Finalized(k) /\ next <= last
    BY <1>1, <1>2, <1>4 DEF Finalized, Least, Greatest
  <2>3. last + finalityDepth <= highest
    BY <1>1, <1>2, <2>2 DEF Finalized, Greatest
  <2>4. j.latest = k.latest /\ j.pc = "fetch" /\ j.last = last /\ j.at = next
    BY DEF WorkerState
  <2> HIDE DEF next, last, j
  <2> QED BY <1>2, <2>1, <2>2, <2>3, <2>4 DEF HoldsFinal, Deep
<1> QED BY <1>3, <1>4

\* The search for a common ancestor plans nothing.
LEMMA SearchingHoldsFinal ==
    ASSUME IndexerTypeOK, NEW k \in WorkerState, k.latest <= highest, NEW candidate, NEW saw
    PROVE  HoldsFinal(Searching(k, candidate, saw))
<1>1. HoldsFinal([k EXCEPT !.pc = "stored", !.at = candidate, !.saw = saw, !.ledger = None])
  BY DEF HoldsFinal, WorkerState
<1>2. HoldsFinal([k EXCEPT !.pc = "rollback", !.at = 0, !.ledger = None])
  BY DEF HoldsFinal, WorkerState
<1>3. HoldsFinal(Polling(k.start))
  BY PollingHoldsFinal DEF WorkerState
<1> QED BY <1>1, <1>2, <1>3 DEF Searching

\* No step of sync() makes a worker hold more.
LEMMA SyncHoldsFinal ==
    ASSUME IndexerTypeOK, NEW w \in Workers, Sync(w), HoldsFinal(worker[w]), Len(chain) <= highest
    PROVE  \E j : Become(w, j) /\ HoldsFinal(j)
<1> DEFINE k == worker[w]
<1>0. /\ k \in WorkerState /\ Equipped(k) /\ checkpoint \in Checkpoint \cup {None}
      /\ k.latest <= highest /\ k.latest \in Nat /\ k.at \in Nat /\ k.last \in Nat
      /\ k.start \in Nat \ {0}
  BY DEF IndexerTypeOK, HoldsFinal, WorkerState
<1>1. CASE BootCheckpoint(w)
  <2>1. HoldsFinal([k EXCEPT !.pc = "bootLatest", !.seen = checkpoint])
    BY <1>0 DEF HoldsFinal, WorkerState
  <2> QED BY <1>1, <2>1 DEF BootCheckpoint
<1>2. CASE BootLatest(w)
  <2>1. k.seen # None => k.seen.sequence \in Nat \ {0}
    BY <1>0 DEF WorkerState, Checkpoint, Sequence
  <2>2. Greatest(1, Len(chain) - finalityDepth) \in Nat \ {0}
    BY DEF IndexerTypeOK, Greatest, Sequence
  <2>3. \E f \in Nat \ {0} : Become(w, Polling(f))
    BY <1>2, <2>1, <2>2 DEF BootLatest
  <2> QED BY <2>3, PollingHoldsFinal
<1>3. CASE ReadLatest(w)
  <2>1. HoldsFinal([k EXCEPT !.pc = "checkpoint", !.latest = Len(chain)])
    BY <1>0 DEF HoldsFinal, WorkerState
  <2> QED BY <1>3, <2>1 DEF ReadLatest
<1>4. CASE ReadCheckpoint(w)
  <2> DEFINE j == [k EXCEPT !.seen = checkpoint]
  <2>1. j \in WorkerState /\ j.latest <= highest
    BY <1>0 DEF WorkerState
  <2>2. HoldsFinal([j EXCEPT !.pc = "verify"])
    BY <2>1 DEF HoldsFinal, WorkerState
  <2>3. HoldsFinal(Planned(j)) /\ HoldsFinal(Search(j))
    BY <2>1, PlannedHoldsFinal, SearchingHoldsFinal DEF Search
  <2> HIDE DEF j
  <2> QED BY <1>4, <2>2, <2>3 DEF ReadCheckpoint, j
<1>5. CASE VerifyCheckpoint(w)
  <2>1. HoldsFinal(Planned(k)) /\ HoldsFinal(Search(k))
    BY <1>0, PlannedHoldsFinal, SearchingHoldsFinal DEF Search
  <2> QED BY <1>5, <2>1 DEF VerifyCheckpoint
<1>6. CASE ReadStored(w)
  <2>1. HoldsFinal(Searching(k, k.at - 1, k.saw))
    BY <1>0, SearchingHoldsFinal
  <2>2. HoldsFinal([k EXCEPT !.pc = "canonical", !.ledger = rows[k.at]])
    BY <1>0 DEF HoldsFinal, WorkerState
  <2> QED BY <1>6, <2>1, <2>2 DEF ReadStored
<1>7. CASE ReadCanonical(w)
  <2> DEFINE saw == k.saw \/ SourceLedger(k.at) # None
  <2>1. HoldsFinal([k EXCEPT !.pc = "rollback", !.ledger = None])
    BY <1>0 DEF HoldsFinal, WorkerState
  <2>2. HoldsFinal(Searching(k, k.at - 1, saw))
    BY <1>0, SearchingHoldsFinal
  <2>3. \/ Become(w, [k EXCEPT !.pc = "rollback", !.ledger = None])
        \/ Become(w, Searching(k, k.at - 1, saw))
    BY <1>7 DEF ReadCanonical
  <2> HIDE DEF saw
  <2> QED BY <2>1, <2>2, <2>3
<1>8. CASE RollbackTo(w)
  <2>1. HoldsFinal([k EXCEPT !.pc = "recheck"]) /\ HoldsFinal(Polling(k.start))
    BY <1>0, PollingHoldsFinal DEF HoldsFinal, WorkerState
  <2> QED BY <1>8, <2>1 DEF RollbackTo
<1>9. CASE RereadCheckpoint(w)
  <2> DEFINE j == [k EXCEPT !.seen = checkpoint]
  <2>1. j \in WorkerState /\ j.latest <= highest
    BY <1>0 DEF WorkerState
  <2>2. HoldsFinal(Planned(j))
    BY <2>1, PlannedHoldsFinal
  <2> QED BY <1>9, <2>2 DEF RereadCheckpoint
<1>10. CASE FetchLedger(w)
  <2> DEFINE ledger == SourceLedger(k.at)
             j == [k EXCEPT !.pc = "append", !.ledger = ledger]
  <2>1. k.pc = "fetch" /\ Deep(k.last) /\ k.at <= k.last
    BY <1>10 DEF FetchLedger, At, HoldsFinal
  <2>2. Deep(k.at)
    BY <1>0, <2>1 DEF Deep, IndexerTypeOK, Sequence
  <2>3. ASSUME ledger # None PROVE HoldsFinal(j)
    <3>1. ledger.sequence = k.at /\ ledger.hash = HashAt(k.at) /\ k.at <= Len(chain)
      BY <2>3 DEF SourceLedger, IndexerTypeOK, Sequence
    <3>2. /\ j.ledger = ledger /\ j.latest = k.latest /\ j.at = k.at /\ j.last = k.last
          /\ j.pc = "append"
      BY <1>0 DEF WorkerState
    <3> HIDE DEF ledger, j
    <3> QED BY <1>0, <2>1, <2>2, <3>1, <3>2 DEF HoldsFinal
  <2>4. HoldsFinal(Polling(k.start))
    BY <1>0, PollingHoldsFinal
  <2> QED BY <1>10, <2>3, <2>4 DEF FetchLedger
<1>11. CASE AppendLedger(w)
  <2> DEFINE tip == [sequence |-> k.ledger.sequence, hash |-> k.ledger.hash]
  <2>1. Deep(k.last)
    BY <1>11 DEF AppendLedger, At, HoldsFinal
  <2> HIDE DEF tip
  <2>2. HoldsFinal([k EXCEPT !.pc = "hook", !.seen = tip]) /\ HoldsFinal(Polling(k.start))
    BY <1>0, <2>1, PollingHoldsFinal DEF HoldsFinal, WorkerState
  <2> QED BY <1>11, <2>2 DEF AppendLedger, tip
<1>12. CASE CommitHook(w)
  <2>1. Deep(k.last)
    BY <1>12 DEF CommitHook, At, HoldsFinal
  <2>2. ASSUME k.at < k.last
        PROVE  HoldsFinal([k EXCEPT !.pc = "fetch", !.at = @ + 1, !.ledger = None])
    <3> DEFINE j == [k EXCEPT !.pc = "fetch", !.at = @ + 1, !.ledger = None]
    <3>1. k.at \in Nat /\ k.last \in Nat /\ k.latest <= highest
      BY <1>0 DEF HoldsFinal, WorkerState, Sequence
    <3>2. j.pc = "fetch" /\ j.at = k.at + 1 /\ j.last = k.last /\ j.latest = k.latest
      BY <1>0 DEF WorkerState
    <3> HIDE DEF j
    <3>3. j.at <= j.last
      BY <2>2, <3>1, <3>2
    <3> QED BY <2>1, <3>1, <3>2, <3>3 DEF HoldsFinal
  <2>3. HoldsFinal(Polling(k.start))
    BY <1>0, PollingHoldsFinal
  <2> QED BY <1>12, <2>2, <2>3 DEF CommitHook
<1> QED
  BY <1>1, <1>2, <1>3, <1>4, <1>5, <1>6, <1>7, <1>8, <1>9, <1>10, <1>11, <1>12 DEF Sync

\* Two branches that agree on their first n ledgers agree on the hash of the n-th.
LEMMA SamePrefix ==
    ASSUME NEW S, NEW s \in Seq(S), NEW t \in Seq(S), NEW n \in Nat, n <= Len(s), n <= Len(t),
           \A i \in 1 .. n : s[i] = t[i]
    PROVE  SubSeq(s, 1, n) = SubSeq(t, 1, n)
<1>1. /\ SubSeq(s, 1, n) \in Seq(S) /\ Len(SubSeq(s, 1, n)) = n
      /\ \A i \in 1 .. n : SubSeq(s, 1, n)[i] = s[i]
  BY SubSeqProperties
<1>2. /\ SubSeq(t, 1, n) \in Seq(S) /\ Len(SubSeq(t, 1, n)) = n
      /\ \A i \in 1 .. n : SubSeq(t, 1, n)[i] = t[i]
  BY SubSeqProperties
<1> QED BY <1>1, <1>2, SeqEqual

\* What the source does leaves its final ledgers alone, unless it gives one up.
LEMMA FinalLedgersKept ==
    ASSUME IndexerTypeOK, IndexerTypeOK', "final" \notin gaveUp',
           highest - finalityDepth <= Len(chain), Len(chain) <= highest,
           CloseLedger \/ Forget \/ \E k \in 1..Len(chain) : Reorganise(k)
    PROVE  /\ "final" \notin gaveUp /\ highest <= highest'
           /\ Len(chain') <= highest' /\ highest' - finalityDepth <= Len(chain')
           /\ \A n \in Nat : Deep(n) => n <= Len(chain') /\ HashAt(n)' = HashAt(n)
<1>0. /\ chain \in Seq(Forks) /\ chain' \in Seq(Forks) /\ highest \in Nat
      /\ Len(chain) \in Nat \ {0} /\ Len(chain') \in Nat
  BY DEF IndexerTypeOK, Hash, Sequence
<1>1. CASE CloseLedger
  <2>1. /\ Len(chain') = Len(chain) + 1 /\ highest' = Greatest(highest, Len(chain'))
        /\ gaveUp' = gaveUp
        /\ \A i \in 1 .. Len(chain) : chain'[i] = chain[i]
    BY <1>0, <1>1 DEF CloseLedger
  <2>2. ASSUME NEW n \in Nat, Deep(n) PROVE n <= Len(chain)
    BY <1>0, <2>2 DEF Deep
  <2>3. ASSUME NEW n \in Nat, Deep(n) PROVE HashAt(n)' = HashAt(n)
    BY <1>0, <2>1, <2>2, <2>3, SamePrefix DEF HashAt
  <2> QED BY <1>0, <2>1, <2>2, <2>3 DEF Greatest
<1>2. CASE Forget
  BY <1>0, <1>2 DEF Forget, Deep, HashAt
<1>3. ASSUME NEW k \in 1..Len(chain), Reorganise(k)
      PROVE  /\ "final" \notin gaveUp /\ highest <= highest'
             /\ Len(chain') <= highest' /\ highest' - finalityDepth <= Len(chain')
             /\ \A n \in Nat : Deep(n) => n <= Len(chain') /\ HashAt(n)' = HashAt(n)
  <2>1. PICK f \in Forks, m \in k..MaxHeight :
          chain' = [i \in 1..m |-> IF i <= k THEN chain[i] ELSE f]
    BY <1>3 DEF Reorganise
  <2>2. Len(chain') = m /\ k <= m /\ m \in Nat /\ k \in Nat
    BY <1>0, <2>1
  <2>3. \A i \in 1 .. k : chain'[i] = chain[i]
    BY <2>1, <2>2
  <2>4. highest' = Greatest(highest, Len(chain'))
    BY <1>3 DEF Reorganise
  <2>5. "final" \notin gaveUp /\ ~(k < highest - finalityDepth)
    BY <1>3 DEF Reorganise
  <2>6. ASSUME NEW n \in Nat, Deep(n) PROVE n <= k
    BY <1>0, <2>2, <2>5, <2>6 DEF Deep
  <2>7. ASSUME NEW n \in Nat, Deep(n) PROVE HashAt(n)' = HashAt(n)
    BY <1>0, <2>2, <2>3, <2>6, <2>7, SamePrefix DEF HashAt
  <2>8. highest' - finalityDepth <= Len(chain')
    BY <1>0, <2>2, <2>4, <2>5 DEF Greatest
  <2> QED BY <1>0, <2>2, <2>4, <2>5, <2>6, <2>7, <2>8 DEF Greatest
<1> QED BY <1>1, <1>2, <1>3

\* The source never has a ledger above the highest it ever had.
HighestInv == Len(chain) <= highest

\* A chain that grows takes the highest ledger along.
LEMMA HighestStep ==
    ASSUME IndexerTypeOK, IndexerTypeOK', HighestInv, [IndexerNext]_vars
    PROVE  HighestInv'
<1>1. Len(chain) \in Nat /\ Len(chain') \in Nat /\ highest \in Nat
  BY DEF IndexerTypeOK, Sequence
<1>2. UNCHANGED source \/ CloseLedger \/ Forget \/ \E k \in 1..Len(chain) : Reorganise(k)
  BY Zenon DEF IndexerNext, Sync, BootCheckpoint, BootLatest, ReadLatest, ReadCheckpoint,
     VerifyCheckpoint, ReadStored, ReadCanonical, RollbackTo, RereadCheckpoint, FetchLedger,
     AppendLedger, CommitHook, SyncFails, Restart, vars
<1>3. UNCHANGED <<chain, highest>> \/ highest' = Greatest(highest, Len(chain'))
  BY <1>2 DEF source, CloseLedger, Forget, Reorganise
<1> QED BY <1>1, <1>3 DEF HighestInv, Greatest

\* Every step of the source and of every worker keeps the store final.
LEMMA FinalityStep ==
    ASSUME IndexerTypeOK, IndexerTypeOK', HighestInv, FinalityInv, [IndexerNext]_vars
    PROVE  FinalityInv'
<1> SUFFICES ASSUME "final" \notin gaveUp'
             PROVE  /\ highest' - finalityDepth <= Len(chain')
                    /\ \A n \in Sequence : rows'[n] # None => Deep(n)' /\ rows'[n].hash = HashAt(n)'
                    /\ \A w \in Workers : HoldsFinal(worker[w])'
  BY DEF FinalityInv
<1>1. CASE CloseLedger \/ Forget \/ \E k \in 1..Len(chain) : Reorganise(k)
  <2>1. UNCHANGED <<store, worker>>
    BY <1>1, Zenon DEF CloseLedger, Forget, Reorganise
  <2>2. /\ "final" \notin gaveUp
        /\ highest <= highest'
        /\ highest' - finalityDepth <= Len(chain')
        /\ \A n \in Nat : Deep(n) => n <= Len(chain') /\ HashAt(n)' = HashAt(n)
    <3>1. "final" \notin gaveUp
      BY <1>1 DEF CloseLedger, Forget, Reorganise
    <3>2. highest - finalityDepth <= Len(chain) /\ Len(chain) <= highest
      BY <3>1 DEF FinalityInv, HighestInv
    <3> QED BY <1>1, <3>2, FinalLedgersKept
  <2>3. \A n \in Nat : Deep(n) => Deep(n)'
    BY <2>2 DEF Deep, IndexerTypeOK, Sequence
  <2>4. ASSUME NEW n \in Sequence, rows'[n] # None
        PROVE  Deep(n)' /\ rows'[n].hash = HashAt(n)'
    BY <2>1, <2>2, <2>3, <2>4 DEF FinalityInv, store, Sequence
  <2>5. ASSUME NEW w \in Workers PROVE HoldsFinal(worker[w])'
    <3> DEFINE k == worker[w]
    <3>1. HoldsFinal(k) /\ k \in WorkerState /\ Equipped(k) /\ worker'[w] = k
      BY <2>1, <2>2 DEF FinalityInv, IndexerTypeOK
    <3>2. k.latest <= highest'
      BY <2>2, <3>1 DEF HoldsFinal, WorkerState, IndexerTypeOK, Sequence
    <3>3. k.pc \in {"fetch", "append", "hook"} => Deep(k.last)'
      BY <2>3, <3>1 DEF HoldsFinal, WorkerState
    <3>4. ASSUME k.pc = "append"
          PROVE  /\ Deep(k.ledger.sequence)'
                 /\ (k.ledger.sequence <= Len(chain))'
                 /\ (k.ledger.hash = HashAt(k.ledger.sequence))'
      <4>1. k.ledger.sequence \in Nat
        BY <3>1, <3>4 DEF Equipped, WorkerState, Ledger, Sequence
      <4>2. Deep(k.ledger.sequence) /\ k.ledger.hash = HashAt(k.ledger.sequence)
        BY <3>1, <3>4 DEF HoldsFinal
      <4> DEFINE s == k.ledger.sequence
      <4>3. k' = k
        BY <2>1
      <4>4. s + finalityDepth <= highest' /\ s <= Len(chain') /\ k.ledger.hash = HashAt(s)
        BY <2>2, <2>3, <4>1, <4>2 DEF Deep, IndexerTypeOK, Sequence
      <4>5. ASSUME NEW n \in Nat, Deep(n) PROVE HashAt(n)' = HashAt(n)
        BY <2>2, <4>5
      <4>6. HashAt(s)' = HashAt(s)
        BY <4>1, <4>2, <4>3, <4>5 DEF HashAt
      <4> QED BY <4>1, <4>3, <4>4, <4>6 DEF Deep
    <3> QED BY <3>1, <3>2, <3>3, <3>4 DEF HoldsFinal
  <2> QED BY <2>2, <2>4, <2>5
<1>2. ASSUME UNCHANGED source, NEW w \in Workers, NEW j, Become(w, j), HoldsFinal(j),
             UNCHANGED store \/ AppendLedger(w) \/ RollbackTo(w)
      PROVE  /\ highest' - finalityDepth <= Len(chain')
             /\ \A n \in Sequence : rows'[n] # None => Deep(n)' /\ rows'[n].hash = HashAt(n)'
             /\ \A v \in Workers : HoldsFinal(worker[v])'
  <2>1. "final" \notin gaveUp /\ chain' = chain /\ highest' = highest
    BY <1>2 DEF source
  <2>2. \A n : Deep(n)' = Deep(n) /\ HashAt(n)' = HashAt(n)
    BY <2>1 DEF Deep, HashAt
  <2>3. ASSUME NEW v \in Workers PROVE HoldsFinal(worker[v])'
    <3>1. worker'[v] = j \/ worker'[v] = worker[v]
      BY <1>2 DEF Become, IndexerTypeOK
    <3>2. HoldsFinal(worker'[v])
      BY <1>2, <2>1, <3>1 DEF FinalityInv
    <3> QED BY <2>1, <2>2, <3>2 DEF HoldsFinal
  <2>4. ASSUME NEW n \in Sequence, rows'[n] # None
        PROVE  rows'[n] = rows[n] \/ (worker[w].pc = "append" /\ rows'[n] = worker[w].ledger
                                      /\ n = worker[w].ledger.sequence)
    <3>1. CASE UNCHANGED store
      BY <3>1 DEF store
    <3>2. CASE AppendLedger(w)
      BY <3>2 DEF AppendLedger, At, store, IndexerTypeOK
    <3>3. CASE RollbackTo(w)
      BY <2>4, <3>3 DEF RollbackTo, store
    <3> QED BY <1>2, <3>1, <3>2, <3>3
  <2>5. ASSUME NEW n \in Sequence, rows'[n] # None
        PROVE  Deep(n)' /\ rows'[n].hash = HashAt(n)'
    <3>1. HoldsFinal(worker[w])
      BY <2>1 DEF FinalityInv
    <3> QED BY <2>1, <2>2, <2>4, <2>5, <3>1 DEF FinalityInv, HoldsFinal
  <2> QED BY <2>1, <2>3, <2>5 DEF FinalityInv
<1>3. ASSUME NEW w \in Workers, Sync(w) PROVE FinalityInv'
  <2>1. UNCHANGED source
    BY <1>3, Zenon DEF Sync, BootCheckpoint, BootLatest, ReadLatest, ReadCheckpoint,
       VerifyCheckpoint, ReadStored, ReadCanonical, RollbackTo, RereadCheckpoint, FetchLedger,
       AppendLedger, CommitHook
  <2>2. UNCHANGED store \/ AppendLedger(w) \/ RollbackTo(w)
    BY <1>3, Zenon DEF Sync, BootCheckpoint, BootLatest, ReadLatest, ReadCheckpoint,
       VerifyCheckpoint, ReadStored, ReadCanonical, RereadCheckpoint, FetchLedger, CommitHook
  <2>3. HoldsFinal(worker[w])
    BY <2>1 DEF source, FinalityInv
  <2>4. PICK j : Become(w, j) /\ HoldsFinal(j)
    BY <1>3, <2>3, SyncHoldsFinal DEF HighestInv
  <2> QED BY <1>2, <2>1, <2>2, <2>4 DEF FinalityInv
<1>4. ASSUME NEW w \in Workers, SyncFails(w) \/ Restart(w) PROVE FinalityInv'
  <2>1. UNCHANGED source /\ UNCHANGED store
    BY <1>4, Zenon DEF SyncFails, Restart
  <2>2. worker[w].start \in Nat \ {0}
    BY DEF IndexerTypeOK, WorkerState
  <2>3. \E j : Become(w, j) /\ HoldsFinal(j)
    BY <1>4, <2>2, PollingHoldsFinal, BootingHoldsFinal DEF SyncFails, Restart
  <2> QED BY <1>2, <2>1, <2>3 DEF FinalityInv
<1>5. CASE UNCHANGED vars
  BY <1>5 DEF vars, source, store, FinalityInv, HoldsFinal, Deep, HashAt
<1> QED BY <1>1, <1>3, <1>4, <1>5 DEF IndexerNext, FinalityInv

\* It is final from the beginning.
LEMMA FinalityStart == IndexerInit => HighestInv /\ FinalityInv
<1> SUFFICES ASSUME IndexerInit PROVE HighestInv /\ FinalityInv
  OBVIOUS
<1>1. Len(chain) = 1 /\ highest = 1
  BY DEF IndexerInit
<1>2. \A w \in Workers : HoldsFinal(worker[w])
  BY IndexerStart, BootingHoldsFinal DEF IndexerInit
<1> QED BY <1>1, <1>2 DEF HighestInv, FinalityInv, IndexerInit

\* As long as the source keeps the ledgers it had buried finalityDepth deep, the store
\* holds those and nothing else, however many workers compete for it, however the
\* source falls back meanwhile, and whatever fails.
THEOREM StoreStaysFinal == IndexerSpec => []StoreIsFinal
<1>1. IndexerInit => HighestInv /\ FinalityInv
  BY FinalityStart
<1>2. HighestInv /\ FinalityInv /\ IndexerTypeOK /\ IndexerTypeOK' /\ [IndexerNext]_vars
        => HighestInv' /\ FinalityInv'
  BY HighestStep, FinalityStep
<1>3. IndexerTypeOK /\ FinalityInv => StoreIsFinal
  BY DEF FinalityInv, StoreIsFinal, Deep
<1> QED BY <1>1, <1>2, <1>3, IndexerIsTyped, PTL DEF IndexerSpec
-----------------------------------------------------------------------------
(* What a single indexer with a configured start adds: it loses no ledger.  *)

\* The checkpoint a lone worker has read is the one in the store, and it appends what
\* follows on it.
Follows(k) ==
    /\ k.pc \notin {"boot", "bootLatest"} => k.start = INDEXER_START_SEQUENCE
    /\ k.pc \in {"verify", "stored", "canonical", "rollback", "fetch", "append", "hook"} =>
         k.seen = checkpoint
    /\ k.pc \in {"fetch", "append"} =>
         k.at = IF checkpoint = None THEN INDEXER_START_SEQUENCE ELSE checkpoint.sequence + 1
    /\ k.pc = "append" => k.ledger.sequence = k.at
    /\ k.pc = "hook" => /\ checkpoint # None /\ checkpoint.sequence = k.at
                        /\ checkpoint.hash = k.ledger.hash
    /\ k.pc = "canonical" => rows[k.at] # None /\ k.ledger = rows[k.at]
    /\ k.pc \in {"stored", "canonical"} => k.at <= Finalized(k)
    /\ k.pc = "rollback" => checkpoint # None

\* While the source keeps its final ledgers, a search finds nothing to compare with: the
\* checkpoint was forgotten, and all below it.
LeavesFinal(k) ==
    "final" \notin gaveUp =>
        /\ k.pc = "checkpoint" /\ checkpoint # None => checkpoint.sequence <= k.latest
        /\ k.pc \in {"stored", "canonical"} => checkpoint.sequence < oldest /\ ~k.saw
        /\ k.pc # "rollback"

\* The source has the ledger; it can never show again what the store has at n.
Shown(n, hash) == n <= Len(chain) /\ hash = HashAt(n)
Gone(n) ==
    \/ rows[n] = None
    \/ n < oldest
    \/ reorgs > 0 /\ n <= Len(chain) /\ rows[n].hash # HashAt(n)

\* A search has gone past nothing that the source still has.
Passes(k) ==
    /\ reorgs = 0 /\ k.pc = "append" => Shown(k.ledger.sequence, k.ledger.hash)
    /\ "height" \notin gaveUp => k.latest <= Len(chain)
    /\ k.pc = "verify" => checkpoint.sequence <= k.latest
    /\ reorgs <= 1 /\ "height" \notin gaveUp /\ k.pc \in {"stored", "canonical", "rollback"} =>
         \A n \in Sequence : n > k.at /\ n <= Finalized(k) => Gone(n)

Careful(k) == Follows(k) /\ LeavesFinal(k) /\ Passes(k)

\* The hook of the checkpoint has run, or is about to.
Refreshed(k) ==
    faults = 0 /\ checkpoint # None /\ k.pc # "hook" => checkpoint.hash \in committed

RowsInv ==
    /\ \A n \in Sequence : rows[n] # None => n >= INDEXER_START_SEQUENCE
    /\ reorgs = 0 => \A n \in Sequence : rows[n] # None => Shown(n, rows[n].hash)

SoundInv == IndexerTypeOK /\ StoreIsLinked /\ HighestInv /\ FinalityInv

LoneInv(w) ==
    /\ RowsInv /\ RefreshedBeforeAdvance
    /\ Careful(worker[w]) /\ Refreshed(worker[w])

\* A worker that polls is careful.
LEMMA PollingIsCareful ==
    ASSUME IndexerTypeOK
    PROVE  Careful(Polling(INDEXER_START_SEQUENCE))
BY DEF Careful, Follows, LeavesFinal, Passes, Polling, IndexerTypeOK, Sequence

\* So is one that boots.
LEMMA BootingIsCareful == ASSUME IndexerTypeOK PROVE Careful(Booting)
BY DEF Careful, Follows, LeavesFinal, Passes, Booting, Polling, IndexerTypeOK, Sequence

\* What a worker has when it has read the checkpoint.
Ready(k) ==
    /\ k \in WorkerState /\ k.start = INDEXER_START_SEQUENCE /\ k.seen = checkpoint
    /\ "height" \notin gaveUp => k.latest <= Len(chain)

\* A plan goes on after the checkpoint.
LEMMA PlannedIsCareful ==
    ASSUME IndexerTypeOK, NEW k, Ready(k)
    PROVE  Careful(Planned(k))
<1> DEFINE next == IF k.seen = None THEN k.start ELSE k.seen.sequence + 1
           last == Least(Finalized(k), next + maxBatchSize - 1)
           j == [k EXCEPT !.pc = "fetch", !.at = next, !.last = last, !.ledger = None]
<1>1. CASE next > last
  <2>1. Planned(k) = Polling(INDEXER_START_SEQUENCE)
    BY <1>1 DEF Planned, Ready
  <2> QED BY <2>1, PollingIsCareful
<1>2. CASE ~(next > last)
  <2>1. Planned(k) = j
    BY <1>2 DEF Planned
  <2>2. /\ j.pc = "fetch" /\ j.at = next /\ j.seen = k.seen /\ j.start = k.start
        /\ j.latest = k.latest
    BY DEF Ready, WorkerState
  <2> HIDE DEF j
  <2> QED BY <2>1, <2>2 DEF Careful, Follows, LeavesFinal, Passes, Ready
<1> QED BY <1>1, <1>2

\* A search goes on below the candidates it has seen, and takes nothing at all from the
\* store only when it has seen every ledger there is.
LEMMA SearchingIsCareful ==
    ASSUME IndexerTypeOK, RowsInv, NEW k, Ready(k), checkpoint # None,
           NEW candidate \in Int, candidate < checkpoint.sequence, candidate <= Finalized(k),
           NEW saw \in BOOLEAN,
           "final" \notin gaveUp => checkpoint.sequence < oldest /\ ~saw,
           reorgs <= 1 /\ "height" \notin gaveUp =>
               \A n \in Sequence : n > candidate /\ n <= Finalized(k) => Gone(n)
    PROVE  Careful(Searching(k, candidate, saw))
<1>1. CASE candidate >= Floor(k)
  <2> DEFINE j == [k EXCEPT !.pc = "stored", !.at = candidate, !.saw = saw, !.ledger = None]
  <2>1. Searching(k, candidate, saw) = j
    BY <1>1 DEF Searching
  <2>2. /\ j.pc = "stored" /\ j.at = candidate /\ j.seen = k.seen /\ j.start = k.start
        /\ j.latest = k.latest /\ j.saw = saw
    BY DEF Ready, WorkerState
  <2>3. Finalized(j) = Finalized(k)
    BY <2>2 DEF Finalized
  <2> HIDE DEF j
  <2> QED BY <2>1, <2>2, <2>3 DEF Careful, Follows, LeavesFinal, Passes, Ready
<1>2. CASE ~(candidate >= Floor(k)) /\ Floor(k) = k.start /\ saw
  <2> DEFINE j == [k EXCEPT !.pc = "rollback", !.at = 0, !.ledger = None]
  <2>1. Searching(k, candidate, saw) = j
    BY <1>2 DEF Searching
  <2>2. /\ j.pc = "rollback" /\ j.at = 0 /\ j.seen = k.seen /\ j.start = k.start
        /\ j.latest = k.latest
    BY DEF Ready, WorkerState
  <2>3. Finalized(j) = Finalized(k)
    BY <2>2 DEF Finalized
  <2>4. ASSUME reorgs <= 1, "height" \notin gaveUp, NEW n \in Sequence, n <= Finalized(k)
        PROVE  Gone(n)
    <3>1. CASE n > candidate BY <2>4, <3>1
    <3>2. CASE ~(n > candidate)
      <4>1. n < INDEXER_START_SEQUENCE BY <1>2, <3>2 DEF Ready, Sequence
      <4> QED BY <4>1 DEF RowsInv, Gone, Sequence
    <3> QED BY <3>1, <3>2
  <2> HIDE DEF j
  <2> QED BY <1>2, <2>1, <2>2, <2>3, <2>4 DEF Careful, Follows, LeavesFinal, Passes, Ready
<1>3. CASE ~(candidate >= Floor(k)) /\ ~(Floor(k) = k.start /\ saw)
  <2>1. Searching(k, candidate, saw) = Polling(INDEXER_START_SEQUENCE)
    BY <1>3 DEF Searching, Ready
  <2> QED BY <2>1, PollingIsCareful
<1> QED BY <1>1, <1>2, <1>3

\* Of what a lone worker has not appended a source that never reorganised has nothing else.
LEMMA GoneWhenDifferent ==
    ASSUME IndexerTypeOK, RowsInv, NEW n \in Sequence, rows[n] # None, n <= Len(chain),
           SourceLedger(n) = None \/ SourceLedger(n).hash # rows[n].hash
    PROVE  Gone(n)
<1>1. CASE n < oldest BY <1>1 DEF Gone
<1>2. CASE ~(n < oldest)
  <2>1. SourceLedger(n) = [sequence |-> n, hash |-> HashAt(n), previousHash |-> HashAt(n - 1)]
    BY <1>2 DEF SourceLedger, Sequence, IndexerTypeOK
  <2>2. SourceLedger(n) # None
    <3>1. n \in Nat BY DEF Sequence
    <3>2. HashAt(n) \in Hash /\ HashAt(n - 1) \in Hash
      BY <3>1, SubSeqProperties DEF IndexerTypeOK, Hash, HashAt
    <3> QED BY <2>1, <3>2 DEF Ledger
  <2>3. HashAt(n) # rows[n].hash BY <2>1, <2>2
  <2>4. reorgs # 0 BY <2>3 DEF RowsInv, Shown
  <2> QED BY <2>3, <2>4 DEF Gone, IndexerTypeOK
<1> QED BY <1>1, <1>2

\* What a sync() takes for final is not above the latest ledger that it read.
LEMMA FinalizedIsBelow ==
    ASSUME NEW k \in WorkerState
    PROVE  Finalized(k) \in Nat /\ Finalized(k) <= k.latest
BY DEF Finalized, Greatest, WorkerState

\* The source still has the ledger of the checkpoint while it keeps its final ledgers.
LEMMA CheckpointIsFinal ==
    ASSUME SoundInv, "final" \notin gaveUp, checkpoint # None
    PROVE  checkpoint.sequence <= Len(chain) /\ checkpoint.hash = HashAt(checkpoint.sequence)
<1>1. /\ checkpoint.sequence \in Sequence /\ rows[checkpoint.sequence] # None
      /\ rows[checkpoint.sequence].hash = checkpoint.hash
  BY DEF SoundInv, IndexerTypeOK, StoreIsLinked, Checkpoint
<1>2. /\ Deep(checkpoint.sequence) /\ checkpoint.hash = HashAt(checkpoint.sequence)
      /\ highest - finalityDepth <= Len(chain)
  BY <1>1 DEF SoundInv, FinalityInv
<1>3. highest \in Int /\ Len(chain) \in Int /\ checkpoint.sequence \in Int
  BY <1>1 DEF SoundInv, IndexerTypeOK, Sequence
<1> QED BY <1>2, <1>3 DEF Deep

\* A careful worker stays so whatever the source does.
LEMMA SourceKeepsCare ==
    ASSUME IndexerTypeOK, IndexerTypeOK', RowsInv, NEW w \in Workers, Careful(worker[w]),
           CloseLedger \/ Forget \/ \E k \in 1..Len(chain) : Reorganise(k)
    PROVE  Careful(worker[w])' /\ RowsInv'
<1> DEFINE k == worker[w]
<1>0. /\ chain \in Seq(Forks) /\ chain' \in Seq(Forks) /\ Len(chain) \in Nat
      /\ Len(chain') \in Nat /\ oldest \in Nat /\ oldest' \in Nat /\ reorgs \in Nat
      /\ k \in WorkerState
  BY DEF IndexerTypeOK, Hash, Sequence
<1>1. /\ worker' = worker /\ rows' = rows /\ checkpoint' = checkpoint
      /\ gaveUp \subseteq gaveUp' /\ oldest <= oldest' /\ oldest' \in Nat
  <2>1. CASE CloseLedger
    BY <1>0, <2>1 DEF CloseLedger, store
  <2>2. CASE Forget
    BY <1>0, <2>2 DEF Forget, store
  <2>3. ASSUME NEW n \in 1..Len(chain), Reorganise(n)
        PROVE  /\ worker' = worker /\ rows' = rows /\ checkpoint' = checkpoint
               /\ gaveUp \subseteq gaveUp' /\ oldest' = oldest
    BY <2>3 DEF Reorganise, store
  <2> QED BY <1>0, <2>1, <2>2, <2>3
<1>2. "height" \notin gaveUp' => Len(chain) <= Len(chain')
  <2>1. CASE CloseLedger \/ Forget BY <1>0, <2>1 DEF CloseLedger, Forget
  <2>2. CASE \E n \in 1..Len(chain) : Reorganise(n) BY <1>0, <2>2 DEF Reorganise
  <2> QED BY <2>1, <2>2
<1>3. \/ reorgs' = reorgs + 1
      \/ /\ reorgs' = reorgs /\ Len(chain) <= Len(chain')
         /\ \A n \in Nat : n <= Len(chain) => HashAt(n)' = HashAt(n)
  <2>1. CASE CloseLedger
    <3>1. /\ reorgs' = reorgs /\ Len(chain') = Len(chain) + 1
          /\ \A i \in 1..Len(chain) : chain'[i] = chain[i]
      BY <1>0, <2>1 DEF CloseLedger
    <3>2. ASSUME NEW n \in Nat, n <= Len(chain) PROVE HashAt(n)' = HashAt(n)
      BY <1>0, <3>1, <3>2, SamePrefix DEF HashAt
    <3> QED BY <1>0, <3>1, <3>2
  <2>2. CASE Forget BY <1>0, <2>2 DEF Forget, HashAt
  <2>3. CASE \E n \in 1..Len(chain) : Reorganise(n) BY <2>3 DEF Reorganise
  <2> QED BY <2>1, <2>2, <2>3
<1>4. ASSUME NEW n \in Nat, NEW hash, reorgs' = 0, Shown(n, hash)
      PROVE  Shown(n, hash)'
  BY <1>0, <1>3, <1>4 DEF Shown
<1>5. ASSUME NEW n \in Sequence, reorgs' <= 1, Gone(n)
      PROVE  Gone(n)'
  <2>1. n \in Nat BY DEF Sequence
  <2>2. CASE reorgs = 0 BY <1>0, <1>1, <1>5, <2>1, <2>2 DEF Gone
  <2>3. CASE reorgs # 0 BY <1>0, <1>1, <1>3, <1>5, <2>1, <2>3 DEF Gone
  <2> QED BY <2>2, <2>3
<1>6. Follows(worker[w])'
  BY <1>1 DEF Careful, Follows, Finalized
<1>7. LeavesFinal(worker[w])'
  <2>1. k.pc \in {"stored", "canonical"} => checkpoint \in Checkpoint
    BY DEF IndexerTypeOK, Careful, Follows, Equipped
  <2> QED BY <1>0, <1>1, <2>1 DEF Careful, LeavesFinal, Checkpoint, Sequence
<1>8. Passes(worker[w])'
  <2>1. reorgs' = 0 => reorgs = 0 BY <1>0, <1>3
  <2>2. reorgs' <= 1 => reorgs <= 1 BY <1>0, <1>3
  <2>3. k.latest \in Nat BY <1>0 DEF WorkerState
  <2>4. ASSUME reorgs' = 0, k.pc = "append"
        PROVE  Shown(k.ledger.sequence, k.ledger.hash)'
    <3>1. k.ledger \in Ledger BY <2>4 DEF IndexerTypeOK, Equipped, WorkerState
    <3>2. k.ledger.sequence \in Nat BY <3>1 DEF Ledger, Sequence
    <3>3. Shown(k.ledger.sequence, k.ledger.hash) BY <2>1, <2>4 DEF Careful, Passes
    <3> QED BY <1>0, <1>1, <1>3, <2>4, <3>2, <3>3 DEF Shown
  <2>5. ASSUME reorgs' <= 1, "height" \notin gaveUp', k.pc \in {"stored", "canonical", "rollback"},
               NEW n \in Sequence, n > k.at, n <= Finalized(k)
        PROVE  Gone(n)'
    BY <1>1, <1>5, <2>2, <2>5 DEF Careful, Passes
  <2> QED BY <1>0, <1>1, <1>2, <2>3, <2>4, <2>5 DEF Careful, Passes, Finalized, Shown
<1>9. RowsInv'
  <2>1. ASSUME reorgs' = 0, NEW n \in Sequence, rows[n] # None
        PROVE  Shown(n, rows[n].hash)'
    <3>1. n \in Nat BY DEF Sequence
    <3>2. Shown(n, rows[n].hash) BY <1>0, <1>3, <2>1 DEF RowsInv
    <3> QED BY <1>0, <1>1, <1>3, <2>1, <3>1, <3>2 DEF Shown
  <2> QED BY <1>1, <2>1 DEF RowsInv
<1> QED BY <1>6, <1>7, <1>8, <1>9 DEF Careful

\* What a worker reads on its way through sync() leaves it as careful as it was.
LEMMA ReadingIsCareful ==
    ASSUME SoundInv, RowsInv, INDEXER_START_SEQUENCE > 0,
           NEW w \in Workers, Careful(worker[w]),
           \/ BootCheckpoint(w) \/ BootLatest(w) \/ ReadLatest(w) \/ ReadCheckpoint(w)
           \/ VerifyCheckpoint(w) \/ ReadStored(w) \/ ReadCanonical(w) \/ RereadCheckpoint(w)
           \/ FetchLedger(w)
    PROVE  \E j : Become(w, j) /\ Careful(j)
<1> DEFINE k == worker[w]
<1>0. /\ k \in WorkerState /\ Equipped(k) /\ checkpoint \in Checkpoint \cup {None}
      /\ Len(chain) \in Nat /\ IndexerTypeOK /\ oldest \in Nat /\ k.latest \in Nat
      /\ Len(chain) <= MaxHeight
  BY DEF SoundInv, IndexerTypeOK, Sequence, WorkerState
<1>1. checkpoint # None =>
        /\ checkpoint.sequence \in Sequence /\ checkpoint.sequence \in Nat
        /\ rows[checkpoint.sequence] # None /\ rows[checkpoint.sequence].hash = checkpoint.hash
  BY <1>0 DEF SoundInv, StoreIsLinked, Checkpoint, Sequence
<1>2. Careful(Polling(INDEXER_START_SEQUENCE))
  BY <1>0, PollingIsCareful
<1>3. Finalized(k) \in Nat /\ Finalized(k) <= k.latest
  BY <1>0, FinalizedIsBelow
<1>4. "height" \notin gaveUp => k.latest <= Len(chain)
  BY DEF Careful, Passes
<1>5. CASE BootCheckpoint(w)
  <2> DEFINE j == [k EXCEPT !.pc = "bootLatest", !.seen = checkpoint]
  <2>1. j.pc = "bootLatest" /\ j.latest = k.latest
    BY <1>0 DEF WorkerState
  <2>2. Become(w, j) BY <1>5 DEF BootCheckpoint
  <2> HIDE DEF j
  <2>3. Careful(j)
    BY <1>4, <2>1 DEF Careful, Follows, LeavesFinal, Passes
  <2> QED BY <2>2, <2>3
<1>6. CASE BootLatest(w)
  <2>1. Become(w, Polling(INDEXER_START_SEQUENCE))
    BY <1>6 DEF BootLatest
  <2> QED BY <1>2, <2>1
<1>7. CASE ReadLatest(w)
  <2> DEFINE j == [k EXCEPT !.pc = "checkpoint", !.latest = Len(chain)]
  <2>1. j.pc = "checkpoint" /\ j.latest = Len(chain) /\ j.start = INDEXER_START_SEQUENCE
    BY <1>0, <1>7 DEF WorkerState, ReadLatest, At, Careful, Follows
  <2>2. Become(w, j) BY <1>7 DEF ReadLatest
  <2> HIDE DEF j
  <2>3. Careful(j)
    BY <1>0, <2>1, CheckpointIsFinal DEF Careful, Follows, LeavesFinal, Passes
  <2> QED BY <2>2, <2>3
<1>8. CASE ReadCheckpoint(w)
  <2> DEFINE i == [k EXCEPT !.seen = checkpoint]
             j == [i EXCEPT !.pc = "verify"]
             candidate == Least(i.seen.sequence - 1, Least(i.latest, Finalized(i)))
  <2>1. /\ i \in WorkerState /\ i.seen = checkpoint /\ i.latest = k.latest
        /\ i.start = INDEXER_START_SEQUENCE /\ i.pc = "checkpoint" /\ Finalized(i) = Finalized(k)
    BY <1>0, <1>8 DEF WorkerState, ReadCheckpoint, At, Careful, Follows, Finalized
  <2>2. Ready(i) BY <1>4, <2>1 DEF Ready
  <2>3. /\ j.pc = "verify" /\ j.seen = checkpoint /\ j.latest = k.latest
        /\ j.start = INDEXER_START_SEQUENCE
    BY <2>1 DEF WorkerState
  <2>4. Become(w, IF checkpoint = None THEN Planned(i)
                  ELSE IF checkpoint.sequence <= i.latest THEN j ELSE Search(i))
    BY <1>8 DEF ReadCheckpoint
  <2>5. Search(i) = Searching(i, candidate, FALSE) BY DEF Search
  <2>6. ASSUME checkpoint # None, ~(checkpoint.sequence <= i.latest)
        PROVE  Careful(Search(i))
    <3> HIDE DEF i, j
    <3>1. /\ candidate \in Int /\ candidate < checkpoint.sequence /\ candidate <= Finalized(i)
          /\ Finalized(i) <= candidate
      <4>1. checkpoint.sequence \in Nat /\ i.latest \in Nat
        BY <1>0, <1>1, <2>1, <2>6
      <4> HIDE DEF k
      <4>2. Finalized(i) \in Nat /\ Finalized(i) <= i.latest /\ i.latest < checkpoint.sequence
        BY <1>3, <2>1, <2>6, <4>1
      <4>3. candidate = Least(checkpoint.sequence - 1, Least(i.latest, Finalized(i)))
        BY <2>1
      <4> HIDE DEF candidate
      <4> QED BY <4>1, <4>2, <4>3 DEF Least
    <3>2. "final" \in gaveUp
      BY <1>8, <2>1, <2>6 DEF Careful, LeavesFinal, ReadCheckpoint, At
    <3>3. \A n \in Sequence : ~(n > candidate /\ n <= Finalized(i))
      BY <1>3, <2>1, <3>1 DEF Sequence
    <3> HIDE DEF candidate
    <3> QED BY <1>0, <2>2, <2>5, <2>6, <3>1, <3>2, <3>3, SearchingIsCareful
  <2>7. Careful(Planned(i)) BY <1>0, <2>2, PlannedIsCareful
  <2> HIDE DEF i, j, candidate
  <2>8. checkpoint # None /\ checkpoint.sequence <= i.latest => Careful(j)
    BY <1>4, <2>1, <2>3 DEF Careful, Follows, LeavesFinal, Passes
  <2> QED BY <2>4, <2>6, <2>7, <2>8
<1>9. CASE VerifyCheckpoint(w)
  <2> DEFINE canonical == SourceLedger(k.seen.sequence)
             candidate == Least(k.seen.sequence - 1, Least(k.latest, Finalized(k)))
  <2>1. /\ k.pc = "verify" /\ k.seen = checkpoint /\ checkpoint # None
        /\ k.start = INDEXER_START_SEQUENCE /\ checkpoint.sequence <= k.latest
    BY <1>0, <1>9 DEF VerifyCheckpoint, At, Careful, Follows, Passes, Equipped
  <2>2. Ready(k) BY <1>0, <1>4, <2>1 DEF Ready
  <2>3. Become(w, IF canonical # None /\ canonical.hash = k.seen.hash
                  THEN Planned(k) ELSE Search(k))
    BY <1>9 DEF VerifyCheckpoint
  <2>4. Careful(Planned(k)) BY <1>0, <2>2, PlannedIsCareful
  <2>5. Search(k) = Searching(k, candidate, FALSE) BY DEF Search
  <2>6. ASSUME ~(canonical # None /\ canonical.hash = k.seen.hash)
        PROVE  Careful(Search(k))
    <3>1. /\ candidate \in Int /\ candidate < checkpoint.sequence /\ candidate <= Finalized(k)
          /\ Finalized(k) <= candidate \/ candidate = checkpoint.sequence - 1
      BY <1>0, <1>1, <1>3, <2>1 DEF Least
    <3>2. ASSUME "final" \notin gaveUp PROVE checkpoint.sequence < oldest
      <4>1. checkpoint.sequence <= Len(chain) /\ checkpoint.hash = HashAt(checkpoint.sequence)
        BY <2>1, <3>2, CheckpointIsFinal
      <4>2. canonical \in Ledger \cup {None}
        BY <1>0, <1>1, <2>1, SourceLedgerType
      <4>3. SUFFICES ASSUME ~(checkpoint.sequence < oldest) PROVE FALSE OBVIOUS
      <4>4. checkpoint.sequence \in oldest..Len(chain)
        BY <1>0, <1>1, <2>1, <4>1, <4>3
      <4>5. canonical = [sequence |-> checkpoint.sequence, hash |-> HashAt(checkpoint.sequence),
                         previousHash |-> HashAt(checkpoint.sequence - 1)]
        BY <2>1, <4>4 DEF SourceLedger
      <4>6. canonical.hash = k.seen.hash BY <2>1, <4>1, <4>5
      <4>7. HashAt(checkpoint.sequence) \in Hash /\ HashAt(checkpoint.sequence - 1) \in Hash
        BY <1>0, <1>1, <2>1, <4>1, SubSeqProperties DEF IndexerTypeOK, Hash, HashAt
      <4>8. canonical # None BY <1>1, <2>1, <4>5, <4>7 DEF Ledger
      <4> QED BY <2>6, <4>6, <4>8
    <3>3. ASSUME "height" \notin gaveUp, NEW n \in Sequence, n > candidate, n <= Finalized(k)
          PROVE  Gone(n)
      <4>1. n \in Nat BY DEF Sequence
      <4>2. n >= checkpoint.sequence /\ n <= Len(chain)
        BY <1>0, <1>1, <1>3, <1>4, <2>1, <3>1, <3>3, <4>1
      <4>3. CASE n > checkpoint.sequence
        <5>1. rows[n] = None
          BY <1>1, <2>1, <4>1, <4>3 DEF SoundInv, StoreIsLinked
        <5> QED BY <5>1 DEF Gone
      <4>4. CASE n = checkpoint.sequence
        <5>1. rows[n] # None /\ rows[n].hash = k.seen.hash BY <1>1, <2>1, <4>4
        <5>2. SourceLedger(n) = None \/ SourceLedger(n).hash # rows[n].hash
          BY <2>1, <2>6, <4>4, <5>1
        <5> QED BY <1>0, <4>2, <5>1, <5>2, GoneWhenDifferent
      <4> QED BY <1>1, <2>1, <4>1, <4>2, <4>3, <4>4
    <3> HIDE DEF k, candidate
    <3> QED BY <1>0, <2>1, <2>2, <2>5, <3>1, <3>2, <3>3, SearchingIsCareful
  <2> QED BY <2>3, <2>4, <2>6
<1>10. CASE ReadStored(w)
  <2> DEFINE j == [k EXCEPT !.pc = "canonical", !.ledger = rows[k.at]]
  <2>1. /\ k.pc = "stored" /\ k.seen = checkpoint /\ checkpoint # None
        /\ k.start = INDEXER_START_SEQUENCE /\ k.at <= Finalized(k)
        /\ k.at \in 1..(checkpoint.sequence - 1) /\ k.saw \in BOOLEAN
    BY <1>0, <1>10 DEF ReadStored, At, Careful, Follows, Equipped, WorkerState
  <2>2. Ready(k) BY <1>0, <1>4, <2>1 DEF Ready
  <2>3. k.at \in Sequence /\ k.at \in Nat /\ k.at < checkpoint.sequence
    BY <1>1, <2>1 DEF Sequence
  <2>4. "final" \notin gaveUp => checkpoint.sequence < oldest /\ ~k.saw
    BY <2>1 DEF Careful, LeavesFinal
  <2>5. reorgs <= 1 /\ "height" \notin gaveUp =>
          \A n \in Sequence : n > k.at /\ n <= Finalized(k) => Gone(n)
    BY <2>1 DEF Careful, Passes
  <2>6. Become(w, IF rows[k.at] = None THEN Searching(k, k.at - 1, k.saw) ELSE j)
    BY <1>10 DEF ReadStored
  <2>7. ASSUME rows[k.at] = None PROVE Careful(Searching(k, k.at - 1, k.saw))
    <3>1. k.at - 1 \in Int /\ k.at - 1 < checkpoint.sequence /\ k.at - 1 <= Finalized(k)
      BY <1>1, <1>3, <2>1, <2>3
    <3>2. reorgs <= 1 /\ "height" \notin gaveUp =>
            \A n \in Sequence : n > k.at - 1 /\ n <= Finalized(k) => Gone(n)
      BY <2>3, <2>5, <2>7 DEF Gone, Sequence
    <3> HIDE DEF k
    <3> QED BY <1>0, <2>1, <2>2, <2>4, <3>1, <3>2, SearchingIsCareful
  <2>8. /\ j.pc = "canonical" /\ j.seen = checkpoint /\ j.latest = k.latest /\ j.at = k.at
        /\ j.start = INDEXER_START_SEQUENCE /\ j.saw = k.saw /\ j.ledger = rows[k.at]
        /\ Finalized(j) = Finalized(k)
    BY <1>0, <2>1 DEF WorkerState, Finalized
  <2> HIDE DEF j
  <2>9. rows[k.at] # None => Careful(j)
    BY <1>4, <2>1, <2>4, <2>5, <2>8 DEF Careful, Follows, LeavesFinal, Passes
  <2> QED BY <2>6, <2>7, <2>9
<1>11. CASE ReadCanonical(w)
  <2> DEFINE canonical == SourceLedger(k.at)
             j == [k EXCEPT !.pc = "rollback", !.ledger = None]
             saw == k.saw \/ canonical # None
  <2>1. /\ k.pc = "canonical" /\ k.seen = checkpoint /\ checkpoint # None
        /\ k.start = INDEXER_START_SEQUENCE /\ k.at <= Finalized(k)
        /\ k.at \in 1..(checkpoint.sequence - 1) /\ k.saw \in BOOLEAN
        /\ rows[k.at] # None /\ k.ledger = rows[k.at]
    BY <1>0, <1>11 DEF ReadCanonical, At, Careful, Follows, Equipped, WorkerState
  <2>2. Ready(k) BY <1>0, <1>4, <2>1 DEF Ready
  <2>3. k.at \in Sequence /\ k.at \in Nat /\ k.at < checkpoint.sequence
    BY <1>1, <2>1 DEF Sequence
  <2>4. "final" \notin gaveUp => checkpoint.sequence < oldest /\ ~k.saw
    BY <2>1 DEF Careful, LeavesFinal
  <2>5. reorgs <= 1 /\ "height" \notin gaveUp =>
          \A n \in Sequence : n > k.at /\ n <= Finalized(k) => Gone(n)
    BY <2>1 DEF Careful, Passes
  <2>6. Become(w, IF canonical # None /\ canonical.hash = k.ledger.hash THEN j
                  ELSE Searching(k, k.at - 1, saw))
    BY <1>11 DEF ReadCanonical
  <2>7. "final" \notin gaveUp => canonical = None
    BY <1>0, <1>1, <2>1, <2>3, <2>4 DEF SourceLedger
  <2>8. ASSUME ~(canonical # None /\ canonical.hash = k.ledger.hash)
        PROVE  Careful(Searching(k, k.at - 1, saw))
    <3>1. k.at - 1 \in Int /\ k.at - 1 < checkpoint.sequence /\ k.at - 1 <= Finalized(k)
      BY <1>1, <1>3, <2>1, <2>3
    <3>2. ASSUME "height" \notin gaveUp PROVE Gone(k.at)
      <4>1. k.at <= Len(chain) BY <1>0, <1>3, <1>4, <2>1, <2>3, <3>2
      <4>2. canonical = None \/ canonical.hash # rows[k.at].hash BY <2>1, <2>8
      <4> QED BY <1>0, <2>1, <2>3, <4>1, <4>2, GoneWhenDifferent
    <3>3. reorgs <= 1 /\ "height" \notin gaveUp =>
            \A n \in Sequence : n > k.at - 1 /\ n <= Finalized(k) => Gone(n)
      <4>1. \A n \in Sequence : n > k.at - 1 => n > k.at \/ n = k.at
        BY <2>3 DEF Sequence
      <4> QED BY <2>5, <3>2, <4>1
    <3>4. saw \in BOOLEAN BY <2>1
    <3>5. "final" \notin gaveUp => checkpoint.sequence < oldest /\ ~saw BY <2>4, <2>7
    <3> HIDE DEF k, saw
    <3> QED BY <1>0, <2>1, <2>2, <3>1, <3>3, <3>4, <3>5, SearchingIsCareful
  <2>9. /\ j.pc = "rollback" /\ j.seen = checkpoint /\ j.latest = k.latest /\ j.at = k.at
        /\ j.start = INDEXER_START_SEQUENCE /\ Finalized(j) = Finalized(k)
    BY <1>0, <2>1 DEF WorkerState, Finalized
  <2> HIDE DEF j
  <2>10. canonical # None => Careful(j)
    BY <1>4, <2>1, <2>5, <2>7, <2>9 DEF Careful, Follows, LeavesFinal, Passes
  <2> QED BY <2>6, <2>8, <2>10
<1>12. CASE RereadCheckpoint(w)
  <2> DEFINE i == [k EXCEPT !.seen = checkpoint]
  <2>1. Ready(i)
    BY <1>0, <1>4, <1>12 DEF Ready, WorkerState, RereadCheckpoint, At, Careful, Follows
  <2>2. Become(w, Planned(i)) BY <1>12 DEF RereadCheckpoint
  <2> HIDE DEF i
  <2>3. Careful(Planned(i)) BY <1>0, <2>1, PlannedIsCareful
  <2> QED BY <2>2, <2>3
<1>13. CASE FetchLedger(w)
  <2> DEFINE ledger == SourceLedger(k.at)
             j == [k EXCEPT !.pc = "append", !.ledger = ledger]
  <2>1. /\ k.pc = "fetch" /\ k.seen = checkpoint /\ k.start = INDEXER_START_SEQUENCE
        /\ k.at = IF checkpoint = None THEN INDEXER_START_SEQUENCE ELSE checkpoint.sequence + 1
    BY <1>13 DEF FetchLedger, At, Careful, Follows
  <2>2. Become(w, Polling(INDEXER_START_SEQUENCE)) \/ (ledger # None /\ Become(w, j))
    BY <1>13, <2>1 DEF FetchLedger
  <2>3. /\ j.pc = "append" /\ j.seen = checkpoint /\ j.latest = k.latest /\ j.at = k.at
        /\ j.start = INDEXER_START_SEQUENCE /\ j.ledger = ledger
    BY <1>0, <2>1 DEF WorkerState
  <2>4. ledger # None =>
          ledger.sequence = k.at /\ ledger.hash = HashAt(k.at) /\ k.at <= Len(chain)
    BY <1>0 DEF SourceLedger
  <2> HIDE DEF j, ledger
  <2>5. ledger # None => Careful(j)
    BY <1>4, <2>1, <2>3, <2>4 DEF Careful, Follows, LeavesFinal, Passes, Shown
  <2> QED BY <1>2, <2>2, <2>5
<1> QED
  BY <1>5, <1>6, <1>7, <1>8, <1>9, <1>10, <1>11, <1>12, <1>13

\* What happens in the store and after it, and what fails, leaves the lone worker careful
\* and the hooks behind it run.
LEMMA LoneStep ==
    ASSUME NEW w, Workers = {w}, INDEXER_START_SEQUENCE > 0,
           SoundInv, SoundInv', LoneInv(w), [IndexerNext]_vars
    PROVE  LoneInv(w)'
<1> DEFINE k == worker[w]
           lone == Polling(INDEXER_START_SEQUENCE)
<1> USE DEF LoneInv
<1>0. /\ w \in Workers /\ k \in WorkerState /\ Equipped(k) /\ IndexerTypeOK /\ IndexerTypeOK'
      /\ checkpoint \in Checkpoint \cup {None} /\ rows \in [Sequence -> Ledger \cup {None}]
      /\ faults \in Nat
  BY DEF SoundInv, IndexerTypeOK
<1>1. checkpoint # None =>
        /\ checkpoint.sequence \in Sequence /\ checkpoint.sequence \in Nat
        /\ rows[checkpoint.sequence] # None /\ rows[checkpoint.sequence].hash = checkpoint.hash
  BY <1>0 DEF SoundInv, StoreIsLinked, Checkpoint, Sequence
<1>2. \A n \in Sequence : rows[n] # None => checkpoint # None /\ n <= checkpoint.sequence
  BY DEF SoundInv, StoreIsLinked
<1>3. Careful(lone) /\ Careful(Booting)
  BY <1>0, PollingIsCareful, BootingIsCareful
\* A worker whose place changes and nothing else.
<1>4. ASSUME NEW j, Become(w, j), Careful(j), UNCHANGED <<source, store>>
      PROVE  Careful(worker[w])' /\ RowsInv'
  <2>1. worker'[w] = j BY <1>0, <1>4 DEF Become, IndexerTypeOK
  <2>2. Careful(worker[w])'
    BY <1>4, <2>1 DEF source, store, Careful, Follows, LeavesFinal, Passes, Gone, Shown, HashAt
  <2>3. RowsInv'
    BY <1>4 DEF source, store, RowsInv, Shown, HashAt
  <2> QED BY <2>2, <2>3
<1>5. CASE CloseLedger \/ Forget \/ \E n \in 1..Len(chain) : Reorganise(n)
  <2>1. UNCHANGED <<store, committed, worker, faults>>
    BY <1>5 DEF CloseLedger, Forget, Reorganise
  <2>2. Careful(worker[w])' /\ RowsInv'
    BY <1>0, <1>5, SourceKeepsCare
  <2>3. RefreshedBeforeAdvance' /\ Refreshed(worker[w])'
    BY <2>1 DEF store, RefreshedBeforeAdvance, Refreshed
  <2> QED BY <2>2, <2>3
<1>6. CASE \/ BootCheckpoint(w) \/ BootLatest(w) \/ ReadLatest(w) \/ ReadCheckpoint(w)
           \/ VerifyCheckpoint(w) \/ ReadStored(w) \/ ReadCanonical(w) \/ RereadCheckpoint(w)
           \/ FetchLedger(w)
  <2>1. UNCHANGED <<source, store, committed, faults>> /\ k.pc # "hook"
    BY <1>6 DEF BootCheckpoint, BootLatest, ReadLatest, ReadCheckpoint, VerifyCheckpoint,
       ReadStored, ReadCanonical, RereadCheckpoint, FetchLedger, At
  <2>2. Careful(worker[w])' /\ RowsInv'
    BY <1>0, <1>4, <1>6, <2>1, ReadingIsCareful
  <2>3. RefreshedBeforeAdvance' /\ Refreshed(worker[w])'
    BY <2>1 DEF store, RefreshedBeforeAdvance, Refreshed
  <2> QED BY <2>2, <2>3
<1>7. CASE RollbackTo(w)
  <2>1. /\ k.pc = "rollback" /\ k.start = INDEXER_START_SEQUENCE /\ k.at \in 0..MaxHeight
        /\ checkpoint # None
        /\ UNCHANGED <<source, committed, faults>>
    BY <1>0, <1>7 DEF RollbackTo, At, Careful, Follows, Equipped
  <2>2. CASE k.at > 0 /\ rows[k.at] = None
    <3>1. Become(w, lone) /\ UNCHANGED store BY <1>7, <2>1, <2>2 DEF RollbackTo
    <3>2. Careful(worker[w])' /\ RowsInv' BY <1>3, <1>4, <2>1, <3>1
    <3>3. RefreshedBeforeAdvance' /\ Refreshed(worker[w])'
      BY <2>1, <3>1 DEF store, RefreshedBeforeAdvance, Refreshed
    <3> QED BY <3>2, <3>3
  <2>3. CASE ~(k.at > 0 /\ rows[k.at] = None)
    <3> DEFINE j == [k EXCEPT !.pc = "recheck"]
    <3>1. /\ Become(w, j)
          /\ rows' = [n \in Sequence |-> IF n > k.at THEN None ELSE rows[n]]
          /\ checkpoint' = IF k.at = 0 THEN None
                           ELSE [sequence |-> k.at, hash |-> rows[k.at].hash]
      BY <1>7, <2>3 DEF RollbackTo
    <3>2. j.pc = "recheck" /\ j.start = k.start /\ j.latest = k.latest
      BY <1>0 DEF WorkerState
    <3> HIDE DEF j
    <3>3. worker'[w] = j BY <1>0, <3>1 DEF Become, IndexerTypeOK
    <3>4. Careful(worker[w])'
      BY <2>1, <3>2, <3>3 DEF Careful, Follows, LeavesFinal, Passes, source
    <3>5. \A n \in Sequence : rows'[n] # None => rows[n] # None /\ rows'[n] = rows[n] /\ n <= k.at
      BY <2>1, <3>1 DEF Sequence
    <3>6. RowsInv' BY <2>1, <3>5 DEF RowsInv, Shown, HashAt, source
    <3>7. ASSUME faults = 0, k.at # 0 PROVE rows[k.at].hash \in committed
      <4>1. k.at \in Sequence /\ rows[k.at] # None BY <2>1, <2>3, <3>7 DEF Sequence
      <4>2. CASE k.at = checkpoint.sequence
        BY <1>1, <2>1, <3>7, <4>2 DEF Refreshed
      <4>3. CASE k.at # checkpoint.sequence
        <5>1. k.at < checkpoint.sequence BY <1>1, <1>2, <2>1, <4>1, <4>3
        <5> QED BY <3>7, <4>1, <5>1 DEF RefreshedBeforeAdvance
      <4> QED BY <4>2, <4>3
    <3>8. Refreshed(worker[w])'
      BY <2>1, <3>1, <3>7 DEF Refreshed
    <3>9. ASSUME faults = 0, NEW n \in Sequence, rows'[n] # None, n < checkpoint'.sequence
          PROVE  rows'[n].hash \in committed
      <4>1. rows[n] # None /\ rows'[n] = rows[n] /\ n <= k.at /\ n \in Nat /\ n > 0
        BY <3>5, <3>9 DEF Sequence
      <4>2. n < k.at /\ k.at # 0 BY <2>1, <3>1, <3>9, <4>1
      <4>3. k.at \in Sequence /\ rows[k.at] # None BY <2>1, <2>3, <4>2 DEF Sequence
      <4>4. n < checkpoint.sequence BY <1>1, <1>2, <2>1, <4>1, <4>2, <4>3
      <4> QED BY <3>9, <4>1, <4>4 DEF RefreshedBeforeAdvance
    <3>10. RefreshedBeforeAdvance' BY <2>1, <3>9 DEF RefreshedBeforeAdvance
    <3> QED BY <3>4, <3>6, <3>8, <3>10
  <2> QED BY <2>2, <2>3
<1>8. CASE AppendLedger(w)
  <2> DEFINE ledger == k.ledger
             tip == [sequence |-> ledger.sequence, hash |-> ledger.hash]
             j == [k EXCEPT !.pc = "hook", !.seen = tip]
  <2>1. /\ k.pc = "append" /\ k.start = INDEXER_START_SEQUENCE /\ ledger.sequence = k.at
        /\ k.at = IF checkpoint = None THEN INDEXER_START_SEQUENCE ELSE checkpoint.sequence + 1
        /\ UNCHANGED <<source, committed, faults>>
    BY <1>0, <1>8 DEF AppendLedger, At, Careful, Follows
  <2>2. ledger \in Ledger /\ ledger.sequence \in Sequence /\ ledger.sequence \in Nat
        /\ ledger.hash \in Hash /\ ledger # None
    BY <1>0, <2>1 DEF Equipped, WorkerState, Ledger, Sequence
  <2>3. ~IsTip(ledger) BY <1>1, <2>1, <2>2 DEF IsTip
  <2>4. CASE ~Appendable(ledger)
    <3>1. Become(w, lone) /\ UNCHANGED store BY <1>8, <2>1, <2>3, <2>4 DEF AppendLedger
    <3>2. Careful(worker[w])' /\ RowsInv' BY <1>3, <1>4, <2>1, <3>1
    <3>3. RefreshedBeforeAdvance' /\ Refreshed(worker[w])'
      BY <2>1, <3>1 DEF store, RefreshedBeforeAdvance, Refreshed
    <3> QED BY <3>2, <3>3
  <2>5. CASE Appendable(ledger)
    <3>1. /\ rows' = [rows EXCEPT ![ledger.sequence] = ledger]
          /\ checkpoint' = tip /\ Become(w, j)
      BY <1>8, <2>3, <2>5 DEF AppendLedger
    <3>2. /\ j.pc = "hook" /\ j.seen = tip /\ j.start = k.start /\ j.latest = k.latest
          /\ j.at = k.at /\ j.ledger = ledger
      BY <1>0 DEF WorkerState
    <3>3. tip \in Checkpoint /\ tip # None /\ tip.sequence = ledger.sequence /\ tip.hash = ledger.hash
      BY <2>2 DEF Checkpoint
    <3> HIDE DEF j, tip
    <3>4. worker'[w] = j BY <1>0, <3>1 DEF Become, IndexerTypeOK
    <3>5. Careful(worker[w])'
      BY <2>1, <3>1, <3>2, <3>3, <3>4 DEF Careful, Follows, LeavesFinal, Passes, source
    <3>6. \A n \in Sequence :
            rows'[n] # None => \/ n = ledger.sequence /\ rows'[n] = ledger
                               \/ n # ledger.sequence /\ rows'[n] = rows[n] /\ rows[n] # None
      BY <1>0, <2>2, <3>1
    <3>7. ledger.sequence >= INDEXER_START_SEQUENCE
      BY <1>1, <2>1 DEF RowsInv
    <3>8. reorgs = 0 => Shown(ledger.sequence, ledger.hash)
      BY <2>1 DEF Careful, Passes
    <3>9. RowsInv' BY <2>1, <3>6, <3>7, <3>8 DEF RowsInv, Shown, HashAt, source
    <3>10. Refreshed(worker[w])' BY <3>2, <3>4 DEF Refreshed
    <3>11. ASSUME faults = 0, NEW n \in Sequence, rows'[n] # None, n < checkpoint'.sequence
           PROVE  rows'[n].hash \in committed
      <4>1. n # ledger.sequence /\ n \in Nat
        BY <2>2, <3>1, <3>3, <3>11 DEF Sequence
      <4>2. rows'[n] = rows[n] /\ rows[n] # None BY <3>6, <3>11, <4>1
      <4>3. checkpoint # None /\ n <= checkpoint.sequence BY <1>2, <4>2
      <4>4. CASE n = checkpoint.sequence
        BY <1>1, <2>1, <3>11, <4>2, <4>3, <4>4 DEF Refreshed
      <4>5. CASE n < checkpoint.sequence
        BY <3>11, <4>2, <4>5 DEF RefreshedBeforeAdvance
      <4> QED BY <1>1, <4>1, <4>3, <4>4, <4>5
    <3>12. RefreshedBeforeAdvance' BY <2>1, <3>11 DEF RefreshedBeforeAdvance
    <3> QED BY <3>5, <3>9, <3>10, <3>12
  <2> QED BY <2>4, <2>5
<1>9. CASE CommitHook(w)
  <2> DEFINE j == [k EXCEPT !.pc = "fetch", !.at = @ + 1, !.ledger = None]
  <2>1. /\ k.pc = "hook" /\ k.start = INDEXER_START_SEQUENCE /\ k.seen = checkpoint
        /\ checkpoint # None /\ checkpoint.sequence = k.at /\ checkpoint.hash = k.ledger.hash
        /\ UNCHANGED <<source, store>>
    BY <1>0, <1>9 DEF CommitHook, At, Careful, Follows
  <2>2. Become(w, j) \/ Become(w, lone) BY <1>9, <2>1 DEF CommitHook
  <2>3. /\ j.pc = "fetch" /\ j.at = k.at + 1 /\ j.seen = k.seen /\ j.start = k.start
        /\ j.latest = k.latest
    BY <1>0 DEF WorkerState
  <2> HIDE DEF j
  <2>4. Careful(j)
    BY <2>1, <2>3 DEF Careful, Follows, LeavesFinal, Passes
  <2>5. Careful(worker[w])' /\ RowsInv' BY <1>3, <1>4, <2>1, <2>2, <2>4
  <2>6. \/ committed' = committed \cup {checkpoint.hash} /\ UNCHANGED faults
        \/ faults' # 0
    BY <1>0, <1>9, <2>1 DEF CommitHook
  <2>7. RefreshedBeforeAdvance' /\ Refreshed(worker[w])'
    BY <2>1, <2>6 DEF store, RefreshedBeforeAdvance, Refreshed
  <2> QED BY <2>5, <2>7
<1>10. CASE SyncFails(w) \/ Restart(w)
  <2>1. faults' # 0 /\ UNCHANGED <<source, store>>
    BY <1>0, <1>10 DEF SyncFails, Restart
  <2>2. Become(w, lone) \/ Become(w, Booting)
    BY <1>10 DEF SyncFails, Restart, Careful, Follows
  <2>3. Careful(worker[w])' /\ RowsInv' BY <1>3, <1>4, <2>1, <2>2
  <2>4. RefreshedBeforeAdvance' /\ Refreshed(worker[w])'
    BY <2>1 DEF RefreshedBeforeAdvance, Refreshed
  <2> QED BY <2>3, <2>4
<1>11. CASE UNCHANGED vars
  <2>1. UNCHANGED <<source, store, committed, worker, faults>> BY <1>11 DEF vars
  <2>2. Careful(worker[w])' /\ RowsInv'
    BY <2>1 DEF source, store, Careful, Follows, LeavesFinal, Passes, Gone, Shown, HashAt, RowsInv
  <2>3. RefreshedBeforeAdvance' /\ Refreshed(worker[w])'
    BY <2>1 DEF store, RefreshedBeforeAdvance, Refreshed
  <2> QED BY <2>2, <2>3
<1> QED
  BY <1>5, <1>6, <1>7, <1>8, <1>9, <1>10, <1>11, Zenon DEF IndexerNext, Sync

\* What a step of a lone worker does not do to the final ledgers.
LEMMA LoneActions ==
    ASSUME NEW w, Workers = {w}, SoundInv, LoneInv(w), [IndexerNext]_vars
    PROVE  /\ [\A n \in Sequence : rows[n] # None /\ "final" \notin gaveUp => rows'[n] = rows[n]]_vars
           /\ [\A v \in Workers : RollbackTo(v) /\ reorgs <= 1 /\ "height" \notin gaveUp =>
                 \A n \in 1..Finalized(worker[v]) :
                    rows[n] # None /\ rows[n] = SourceLedger(n) => rows'[n] = rows[n]]_vars
<1> DEFINE k == worker[w]
<1>0. /\ w \in Workers /\ k \in WorkerState /\ Equipped(k) /\ IndexerTypeOK
      /\ checkpoint \in Checkpoint \cup {None} /\ rows \in [Sequence -> Ledger \cup {None}]
      /\ Len(chain) \in Sequence /\ Len(chain) \in Nat /\ Len(chain) <= MaxHeight
  BY DEF SoundInv, IndexerTypeOK, Sequence
<1>1. ASSUME NEW n \in Sequence, rows[n] # None, "final" \notin gaveUp
      PROVE  rows'[n] = rows[n]
  <2>1. CASE UNCHANGED rows BY <2>1
  <2>2. CASE RollbackTo(w)
    BY <1>1, <2>2 DEF RollbackTo, At, LoneInv, Careful, LeavesFinal
  <2>3. CASE AppendLedger(w)
    <3>1. /\ k.pc = "append" /\ k.ledger.sequence = k.at
          /\ k.at = IF checkpoint = None THEN INDEXER_START_SEQUENCE ELSE checkpoint.sequence + 1
      BY <2>3 DEF AppendLedger, At, LoneInv, Careful, Follows
    <3>2. checkpoint # None /\ n <= checkpoint.sequence
      BY <1>1 DEF SoundInv, StoreIsLinked
    <3>3. checkpoint.sequence \in Nat /\ n \in Nat BY <1>0, <3>2 DEF Checkpoint, Sequence
    <3>4. n # k.ledger.sequence BY <3>1, <3>2, <3>3
    <3>5. rows' = rows \/ rows' = [rows EXCEPT ![k.ledger.sequence] = k.ledger]
      BY <2>3 DEF AppendLedger, store
    <3> QED BY <1>0, <3>4, <3>5
  <2>4. UNCHANGED rows \/ RollbackTo(w) \/ AppendLedger(w)
    <3>1. UNCHANGED store \/ \E v \in Workers : RollbackTo(v) \/ AppendLedger(v)
      BY Zenon DEF IndexerNext, Sync, BootCheckpoint, BootLatest, ReadLatest, ReadCheckpoint,
         VerifyCheckpoint, ReadStored, ReadCanonical, RereadCheckpoint, FetchLedger,
         CommitHook, SyncFails, Restart, CloseLedger, Reorganise, Forget, vars
    <3> QED BY <3>1 DEF store
  <2> QED BY <2>1, <2>2, <2>3, <2>4
<1>2. ASSUME NEW v \in Workers, RollbackTo(v), reorgs <= 1, "height" \notin gaveUp,
             NEW n \in 1..Finalized(worker[v]), rows[n] # None, rows[n] = SourceLedger(n)
      PROVE  rows'[n] = rows[n]
  <2>1. v = w OBVIOUS
  <2>2. /\ k.pc = "rollback" /\ k.latest <= Len(chain) /\ k.latest \in Nat
        /\ k.at \in 0..MaxHeight /\ k.at \in Nat
    BY <1>0, <1>2, <2>1 DEF RollbackTo, At, LoneInv, Careful, Passes, Equipped, WorkerState
  <2>3. Finalized(k) \in Nat /\ Finalized(k) <= k.latest BY <1>0, FinalizedIsBelow
  <2>4. n \in Nat /\ n <= Finalized(k) /\ n \in Sequence /\ n <= Len(chain)
    BY <1>0, <1>2, <2>1, <2>2, <2>3 DEF Sequence
  <2>5. CASE n <= k.at
    <3>1. rows' = rows \/ rows' = [m \in Sequence |-> IF m > k.at THEN None ELSE rows[m]]
      BY <1>2, <2>1 DEF RollbackTo, store
    <3> QED BY <2>2, <2>4, <2>5, <3>1
  <2>6. CASE n > k.at
    <3>1. Gone(n) BY <1>2, <2>2, <2>4, <2>6 DEF LoneInv, Careful, Passes
    <3>2. n \in oldest..Len(chain)
      BY <1>2 DEF SourceLedger
    <3>3. SourceLedger(n).hash = HashAt(n) BY <3>2 DEF SourceLedger
    <3>4. ~(n < oldest) BY <1>0, <2>4, <3>2 DEF IndexerTypeOK
    <3> QED BY <1>2, <3>1, <3>3, <3>4 DEF Gone
  <2> QED BY <2>2, <2>4, <2>5, <2>6
<1> QED BY <1>1, <1>2

\* A single indexer that is told where to start never takes back a ledger the source keeps:
\* not what is final, not in a rollback more than the source has changed, and no ledger
\* below the checkpoint is without its hook (sync(), findCommonAncestor, appendLedger).
THEOREM LedgersOfOneStay ==
    ASSUME NEW one, Workers = {one}, INDEXER_START_SEQUENCE > 0
    PROVE  IndexerSpec => LedgersStay
<1>1. IndexerInit => LoneInv(one)
  <2> SUFFICES ASSUME IndexerInit PROVE LoneInv(one) OBVIOUS
  <2>1. IndexerTypeOK /\ worker[one] = Booting BY IndexerStart DEF IndexerInit
  <2>2. RowsInv /\ RefreshedBeforeAdvance /\ Refreshed(worker[one])
    BY DEF IndexerInit, RowsInv, RefreshedBeforeAdvance, Refreshed
  <2> QED BY <2>1, <2>2, BootingIsCareful DEF LoneInv
<1>2. IndexerSpec => []SoundInv
  <2>1. IndexerInit => HighestInv /\ FinalityInv
    BY FinalityStart
  <2>2. HighestInv /\ FinalityInv /\ IndexerTypeOK /\ IndexerTypeOK' /\ [IndexerNext]_vars
        => HighestInv' /\ FinalityInv'
    BY HighestStep, FinalityStep
  <2>3. IndexerTypeOK /\ StoreIsLinked /\ HighestInv /\ FinalityInv => SoundInv
    BY DEF SoundInv
  <2> QED BY <2>1, <2>2, <2>3, IndexerIsTyped, StoreStaysLinked, PTL DEF IndexerSpec
<1>3. SoundInv /\ SoundInv' /\ LoneInv(one) /\ [IndexerNext]_vars => LoneInv(one)'
  BY LoneStep
<1>4. LoneInv(one) => RefreshedBeforeAdvance
  BY DEF LoneInv
<1>5. [](SoundInv /\ LoneInv(one)) /\ [][IndexerNext]_vars => NeverRewinds
  <2>1. SoundInv /\ LoneInv(one) /\ [IndexerNext]_vars =>
          [\A n \in Sequence : rows[n] # None /\ "final" \notin gaveUp => rows'[n] = rows[n]]_vars
    BY LoneActions
  <2> QED BY <2>1, PTL DEF NeverRewinds
<1>6. [](SoundInv /\ LoneInv(one)) /\ [][IndexerNext]_vars => RollbackIsMinimal
  <2>1. SoundInv /\ LoneInv(one) /\ [IndexerNext]_vars =>
          [\A w \in Workers : RollbackTo(w) /\ reorgs <= 1 /\ "height" \notin gaveUp =>
             \A n \in 1..Finalized(worker[w]) :
                rows[n] # None /\ rows[n] = SourceLedger(n) => rows'[n] = rows[n]]_vars
    BY LoneActions
  <2> QED BY <2>1, PTL DEF RollbackIsMinimal
<1> QED BY <1>1, <1>2, <1>3, <1>4, <1>5, <1>6, PTL DEF IndexerSpec, LedgersStay
=============================================================================
