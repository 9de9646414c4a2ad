---------------------------- MODULE EventStream ----------------------------
(***************************************************************************)
(* The Horizon event indexer (HorizonSSEIndexer, backend/src/indexer/      *)
(* listener.ts) and its persisted cursor (cache.ts).  The process is one   *)
(* event loop: every action is the code between two awaits or callbacks.   *)
(* A record is its paging token; 0 is the absence of a cursor.             *)
(***************************************************************************)
EXTENDS Integers

CONSTANTS
    Connections,    \* bound: calls of connect() with their streams, at a time
    NoConnection,
    maxReconnectAttempts,
    MaxRecord,      \* bound: records Horizon publishes
    MaxInFlight,    \* bound: handlers of one record at a time
    MaxStreamFaults       \* bound: stream errors, failed reads of the cursor, crashes

ASSUME EventStreamAssumption ==
    /\ NoConnection \notin Connections
    /\ Connections # {}
    /\ maxReconnectAttempts \in Nat
    /\ MaxRecord \in Nat
    /\ MaxInFlight \in Nat
    /\ MaxStreamFaults \in Nat

VARIABLES
    published,  \* the last record Horizon has published
    stored,     \* the cursor in the cache
    conn,       \* each call of connect() and the stream it opened
    current,    \* stopStream: the connection it closes, or NoConnection
    timer,      \* reconnectTimer: 1 while it holds a timer that stop() cancels
    loose,      \* reconnect timers that have not fired and nothing holds
    attempts,   \* reconnectAttempts
    stopped,
    fatal,      \* onFatalError was called
    running,    \* handleMessage calls awaiting onEvent, by record
    saving,     \* handleMessage calls awaiting saveCursor, by record
    delivered,  \* records a handler was ever started for
    handled,    \* records a handler ever completed
    streamFaults

process == <<current, timer, loose, attempts, stopped, fatal>>
handlers == <<running, saving, delivered, handled>>
streamVars == <<published, stored, conn, process, handlers, streamFaults>>

Record == 1..MaxRecord
Cursor == 0..MaxRecord

\* Querying and queried: either side of the cursor read that connect() awaits.
Connection ==
    [phase : {"idle", "querying", "queried", "open"}, at : Cursor]

Idle == [phase |-> "idle", at |-> 0]
Querying == [phase |-> "querying", at |-> 0]
\* A process that has just called start().
Booted(c) == [d \in Connections |-> IF d = c THEN Querying ELSE Idle]
NoHandler == [r \in Record |-> 0]

StreamInit ==
    /\ published = 0
    /\ stored = 0
    /\ \E c \in Connections : conn = Booted(c)
    /\ current = NoConnection
    /\ timer = 0
    /\ loose = 0
    /\ attempts = 0
    /\ stopped = FALSE
    /\ fatal = FALSE
    /\ running = NoHandler
    /\ saving = NoHandler
    /\ delivered = {}
    /\ handled = {}
    /\ streamFaults = 0
-----------------------------------------------------------------------------
\* connect() up to its first await.
Connect(c) ==
    /\ conn[c] = Idle
    /\ c # current
    /\ conn' = [conn EXCEPT ![c] = Querying]

\* start() while connect() awaits the cursor finds stopStream still null.
Start ==
    /\ stopped \/ current = NoConnection
    /\ \E c \in Connections : Connect(c)
    /\ stopped' = FALSE
    /\ UNCHANGED <<published, stored, current, timer, loose, attempts, fatal,
                   handlers, streamFaults>>

\* The handle of the current stream closes it; no other one can be closed.
CloseCurrent ==
    /\ conn' = [c \in Connections |-> IF c = current THEN Idle ELSE conn[c]]
    /\ current' = NoConnection

Stop ==
    /\ stopped' = TRUE
    /\ timer' = 0
    /\ CloseCurrent
    /\ UNCHANGED <<published, stored, loose, attempts, fatal, handlers, streamFaults>>

\* Mutant: a read that fails starts the stream at the newest record.
ReadCursor_FromNow(c) ==
    /\ conn[c].phase = "querying"
    /\ \/ /\ conn' = [conn EXCEPT ![c] = [phase |-> "queried", at |-> stored]]
          /\ UNCHANGED streamFaults
       \/ /\ streamFaults < MaxStreamFaults
          /\ conn' = [conn EXCEPT ![c] = [phase |-> "queried", at |-> published]]
          /\ streamFaults' = streamFaults + 1
    /\ UNCHANGED <<published, stored, process, handlers>>

\* Mutant: connect() does not catch the error of a failed read.
ReadCursor_Throws(c) ==
    /\ conn[c].phase = "querying"
    /\ \/ /\ conn' = [conn EXCEPT ![c] = [phase |-> "queried", at |-> stored]]
          /\ UNCHANGED streamFaults
       \/ /\ streamFaults < MaxStreamFaults
          /\ conn' = [conn EXCEPT ![c] = Idle]
          /\ streamFaults' = streamFaults + 1
    /\ UNCHANGED <<published, stored, process, handlers>>

\* A read that fails starts the stream from the beginning.
ReadCursor(c) ==
    /\ conn[c].phase = "querying"
    /\ \/ /\ conn' = [conn EXCEPT ![c] = [phase |-> "queried", at |-> stored]]
          /\ UNCHANGED streamFaults
       \/ /\ streamFaults < MaxStreamFaults
          /\ conn' = [conn EXCEPT ![c] = [phase |-> "queried", at |-> 0]]
          /\ streamFaults' = streamFaults + 1
    /\ UNCHANGED <<published, stored, process, handlers>>

\* connect() resumes: it opens the stream without looking at stopped again.
OpenStream(c) ==
    /\ conn[c].phase = "queried"
    /\ conn' = [conn EXCEPT ![c] = [phase |-> "open", at |-> conn[c].at]]
    /\ current' = c
    /\ UNCHANGED <<published, stored, timer, loose, attempts, stopped, fatal,
                   handlers, streamFaults>>
-----------------------------------------------------------------------------
Publish ==
    /\ published < MaxRecord
    /\ published' = published + 1
    /\ UNCHANGED <<stored, conn, process, handlers, streamFaults>>

\* handleMessage up to the await of onEvent.  The stream does not wait for it.
Deliver(c) ==
    LET r == conn[c].at + 1 IN
    /\ conn[c].phase = "open"
    /\ r \in 1..published
    /\ running[r] < MaxInFlight
    /\ conn' = [conn EXCEPT ![c] = [phase |-> "open", at |-> r]]
    /\ IF stopped
       THEN UNCHANGED <<running, delivered>>
       ELSE /\ running' = [running EXCEPT ![r] = @ + 1]
            /\ delivered' = delivered \cup {r}
    /\ UNCHANGED <<published, stored, process, saving, handled, streamFaults>>

EventHandled(r) ==
    /\ running[r] > 0
    /\ saving[r] < MaxInFlight
    /\ running' = [running EXCEPT ![r] = @ - 1]
    /\ saving' = [saving EXCEPT ![r] = @ + 1]
    /\ handled' = handled \cup {r}
    /\ UNCHANGED <<published, stored, conn, process, delivered, streamFaults>>

\* onEvent rejects: the error is swallowed and the cursor left alone.
EventFails(r) ==
    /\ running[r] > 0
    /\ running' = [running EXCEPT ![r] = @ - 1]
    /\ UNCHANGED <<published, stored, conn, process, saving, delivered, handled,
                   streamFaults>>

SaveCursor(r) ==
    /\ saving[r] > 0
    /\ saving' = [saving EXCEPT ![r] = @ - 1]
    /\ \/ /\ stored' = r
          /\ attempts' = 0
       \/ UNCHANGED <<stored, attempts>>        \* saveCursor rejects
    /\ UNCHANGED <<published, conn, current, timer, loose, stopped, fatal,
                   running, delivered, handled, streamFaults>>
-----------------------------------------------------------------------------
\* setTimeout: a timer that is already held is no longer.
Arm == timer' = 1 /\ loose' = loose + timer

\* One timer fires and clears reconnectTimer, even when that holds another.
Fire ==
    /\ timer' = 0
    /\ \/ timer = 1 /\ UNCHANGED loose
       \/ loose > 0 /\ loose' = loose - 1 + timer

\* handleStreamError: whichever stream fails, it is the current one that is
\* closed.  A failed stream that nobody closes may recover on its own.
StreamError(c) ==
    /\ conn[c].phase = "open"
    /\ streamFaults < MaxStreamFaults
    /\ streamFaults' = streamFaults + 1
    /\ \E lost \in {{}, {c}} :
           conn' = [d \in Connections |->
                       IF d \in lost \/ (~stopped /\ d = current)
                       THEN Idle ELSE conn[d]]
    /\ IF stopped
       THEN UNCHANGED process
       ELSE /\ current' = NoConnection
            /\ IF attempts >= maxReconnectAttempts
               THEN /\ fatal' = TRUE
                    /\ UNCHANGED <<timer, loose, attempts>>
               ELSE /\ attempts' = attempts + 1
                    /\ Arm
                    /\ UNCHANGED fatal
            /\ UNCHANGED stopped
    /\ UNCHANGED <<published, stored, handlers>>

ReconnectTimer ==
    /\ Fire
    /\ IF stopped THEN UNCHANGED conn ELSE \E c \in Connections : Connect(c)
    /\ UNCHANGED <<published, stored, current, attempts, stopped, fatal, handlers,
                   streamFaults>>

\* The process dies and its successor calls start(): only the cursor survives.
Crash ==
    /\ streamFaults < MaxStreamFaults
    /\ streamFaults' = streamFaults + 1
    /\ \E c \in Connections : conn' = Booted(c)
    /\ current' = NoConnection
    /\ timer' = 0
    /\ loose' = 0
    /\ attempts' = 0
    /\ stopped' = FALSE
    /\ fatal' = FALSE
    /\ running' = NoHandler
    /\ saving' = NoHandler
    /\ UNCHANGED <<published, stored, delivered, handled>>
-----------------------------------------------------------------------------
Connecting == \E c \in Connections : ReadCursor(c) \/ OpenStream(c)

Handling == \E r \in Record : EventHandled(r) \/ EventFails(r) \/ SaveCursor(r)

StreamNext ==
    \/ Start
    \/ Stop
    \/ Publish
    \/ Connecting
    \/ \E c \in Connections : Deliver(c)
    \/ Handling
    \/ \E c \in Connections : StreamError(c)
    \/ ReconnectTimer
    \/ Crash

StreamSpec == StreamInit /\ [][StreamNext]_streamVars

\* The event loop runs the callbacks that are due, and the calls it awaits
\* settle; an open stream delivers what Horizon publishes.
StreamFairness ==
    /\ \A c \in Connections :
           WF_streamVars(ReadCursor(c)) /\ WF_streamVars(OpenStream(c)) /\ WF_streamVars(Deliver(c))
    /\ \A r \in Record : WF_streamVars(EventHandled(r) \/ EventFails(r)) /\ WF_streamVars(SaveCursor(r))
    /\ WF_streamVars(ReconnectTimer)

FairStreamSpec == StreamSpec /\ StreamFairness
-----------------------------------------------------------------------------
StreamTypeOK ==
    /\ published \in Cursor
    /\ stored \in Cursor
    /\ conn \in [Connections -> Connection]
    /\ current \in Connections \cup {NoConnection}
    /\ timer \in 0..1
    /\ loose \in Nat
    /\ attempts \in Nat
    /\ running \in [Record -> 0..MaxInFlight]
    /\ saving \in [Record -> 0..MaxInFlight]
    /\ delivered \subseteq Record
    /\ handled \subseteq Record
    /\ streamFaults \in 0..MaxStreamFaults
    /\ stopped \in BOOLEAN
    /\ fatal \in BOOLEAN

\* The cursor only ever names a record whose handler succeeded, whatever runs at
\* the same time and wherever stop(), start(), crashes and dropped streams fall.
CursorIsHandled == stored \in handled \cup {0}

\* Wherever reads that fail, dropped streams, second calls of start() and
\* crashes leave the cursor, every record up to it was handed to a handler: an
\* indexer that is not stopped never jumps over one.  Each save overwrites the
\* cursor whatever its order, and two streams may be open.
NothingSkipped == []~stopped => [](1..stored \subseteq delivered)

\* stop() leaves a timer behind when several streams failed (reconnectTimer
\* keeps only the last one): it must not reconnect a stopped indexer.
NoReconnectWhileStopped ==
    [][stopped /\ stopped' =>
           \A c \in Connections : conn'[c] = Querying => conn[c] = Querying]_streamVars

\* Every record is handed to a handler in the end, whatever the stream does,
\* unless the indexer is stopped or the budget of reconnects is used up: a
\* dropped stream is always followed by another one that starts at or before the
\* record.
RecordsAreDelivered ==
    []~stopped => \A r \in Record : published >= r ~> r \in delivered \/ fatal

\* The cursor is safe to start again from: it names a record that was handled, and no
\* record below it was jumped over.
CursorIsSafe == []CursorIsHandled /\ NothingSkipped

\* The stream is opened again when it should be, and only then.
StreamIsKeptUp == NoReconnectWhileStopped /\ RecordsAreDelivered

\* "The cursor is not advanced so the event will be redelivered after the next
\* reconnect" (listener.ts): a record behind the cursor has been handled, or
\* its handler is still at work.
NoEventIsLost ==
    \A r \in 1..stored : r \in handled \/ running[r] > 0
=============================================================================
