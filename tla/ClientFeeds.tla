---------------------------- MODULE ClientFeeds -----------------------------
(***************************************************************************)
(* Three ways the frontend follows the contract: an indexer of its own in  *)
(* the browser, the stream of the backend's events, and the pages of a     *)
(* dashboard.                                                              *)
(***************************************************************************)
EXTENDS EventLoop, SequencesExt

-----------------------------------------------------------------------------
(***************************************************************************)
(* The indexer that runs in the browser (lib/localIndexer): a worker polls *)
(* the events of the contract from a Soroban RPC node, which keeps only a  *)
(* window of them, into IndexedDB.  pollOnce is modelled await by await;   *)
(* the page may be reloaded between any two of them.                       *)
(***************************************************************************)

CONSTANTS
    IndexedIds,                \* commitments
    lookbackLedgers,    \* how far back a poll without a cursor starts
    pageLimit,          \* events of one answer of getEvents
    Retention,          \* the ledgers whose events the node keeps at least
    MaxLedger,          \* bound: ledgers, each with one event
    MaxInterruptions    \* bound: reloads of the page, failed calls and changes of mode

Outcomes == {"Fulfilled", "Breached"}

\* How a dispute ends: by a resolver or the committee, by the votes of the panel of
\* attestors, or by the time the panel lets pass.
Settlements == {"resolved", "voteres", "votefall"}
\* The events that parseContractEvent knows
ParsedTypes == {"created", "attested", "disputed", "resolved"}

Row(s, o) == [status |-> s, outcome |-> o]
IndexedRow == [status : {"Pending", "Disputed"} \cup Outcomes, outcome : {None} \cup Outcomes]

ASSUME LocalAssumption ==
    /\ lookbackLedgers \in Nat /\ pageLimit \in Nat \ {0} /\ Retention \in Nat \ {0}
    /\ MaxLedger \in Nat /\ MaxInterruptions \in Nat
    /\ None \notin Nat /\ None \notin IndexedRow

VARIABLES
    events,         \* the contract's events, one per ledger
    oldestLedger,   \* the first ledger the node still has events of
    commitments,    \* IndexedDB: id -> the indexed row, or None
    meta,           \* IndexedDB: cursor and lastLedgerSeq
    poll,           \* the poll in flight
    mode,           \* "cloud" or "local"; survives the page
    missed,         \* commitments that could not be read when they were found
    orphaned,       \* rows were left behind by a poll that had no cursor yet
    interruptions

localVars == <<events, oldestLedger, commitments, meta, poll, mode, missed, orphaned, interruptions>>

NoPoll ==
    [step |-> "idle", gap |-> FALSE, start |-> None, page |-> <<>>, next |-> None, row |-> None]
latestLedger == Len(events)

\* The row a history of events leaves for a commitment, None before it is created.
RowsApplied(e, row) ==
    CASE e.type = "created" -> Row("Pending", None)
      [] e.type \in {"attested"} \cup Settlements -> Row(e.outcome, e.outcome)
      [] e.type = "disputed" -> [row EXCEPT !.status = "Disputed"]
RowAfter(id) ==
    LET row[n \in 0..latestLedger] ==
            IF n = 0 THEN None
            ELSE IF events[n].id = id THEN RowsApplied(events[n], row[n - 1]) ELSE row[n - 1]
    IN  row[latestLedger]

\* get_commitment tells the status only; toCommitment takes a final one for the outcome.
toCommitment(id) ==
    LET s == RowAfter(id).status IN Row(s, IF s \in {"Pending", "Disputed"} THEN None ELSE s)

LocalInit ==
    /\ events = <<>>
    /\ oldestLedger = 1
    /\ commitments = [i \in IndexedIds |-> None]
    /\ meta = [cursor |-> None, lastLedgerSeq |-> None]
    /\ poll = NoPoll
    /\ mode = "local"
    /\ missed = {}
    /\ orphaned = FALSE
    /\ interruptions = 0
-----------------------------------------------------------------------------
Happened(id, types) == \E n \in 1..latestLedger : events[n].id = id /\ events[n].type \in types

\* A settlement forgets when the commitment was attested, so there is one dispute at most.
Enabled(e) ==
    LET row == RowAfter(e.id)
    IN  CASE e.type = "created" -> row = None
          [] e.type = "attested" -> row # None /\ row.status = "Pending"
          [] e.type = "disputed" -> /\ row # None /\ row.status \in Outcomes
                                    /\ ~ Happened(e.id, {"disputed"})
          [] e.type \in Settlements -> row # None /\ row.status = "Disputed"

\* Whether a commitment has a panel is open until it is settled.
ContractEvents ==
    [type : {"created", "disputed"}, id : IndexedIds, outcome : {None}]
        \cup [type : {"attested", "resolved", "voteres"}, id : IndexedIds, outcome : Outcomes]
        \cup [type : {"votefall"}, id : IndexedIds, outcome : {"Breached"}]

LedgerClosed ==
    /\ latestLedger < MaxLedger
    /\ \E e \in ContractEvents : Enabled(e) /\ events' = Append(events, e)
    /\ UNCHANGED <<oldestLedger, commitments, meta, poll, mode, missed, orphaned, interruptions>>

EventsForgotten ==
    /\ oldestLedger <= latestLedger - Retention
    /\ oldestLedger' = oldestLedger + 1
    /\ UNCHANGED <<events, commitments, meta, poll, mode, missed, orphaned, interruptions>>
-----------------------------------------------------------------------------
Goto(step) == poll' = [poll EXCEPT !.step = step]

\* tick, of the interval or of start(): never two polls at a time.
PollTick ==
    /\ mode = "local"
    /\ poll.step = "idle"
    /\ Goto(IF meta.cursor = None THEN "latest" ELSE "cursor")
    /\ UNCHANGED <<events, oldestLedger, commitments, meta, mode, missed, orphaned, interruptions>>

PageEnd(from) == LET last == from + pageLimit - 1 IN IF last < latestLedger THEN last ELSE latestLedger

NextCursor(from) == PageEnd(from)

Page(from) ==
    poll' = [poll EXCEPT !.step = "apply", !.next = NextCursor(from),
                         !.page = SubSeq(events, from, PageEnd(from))]

\* getEvents from the cursor; one whose ledger the node has forgotten is refused.
FetchFromCursor ==
    /\ poll.step = "cursor"
    /\ IF meta.cursor + 1 < oldestLedger THEN Goto("clear") ELSE Page(meta.cursor + 1)
    /\ UNCHANGED <<events, oldestLedger, commitments, meta, mode, missed, orphaned, interruptions>>

\* The retention gap: every row is dropped, and the poll starts over.
ClearCommitments ==
    /\ poll.step = "clear"
    /\ poll' = [poll EXCEPT !.step = "latest", !.gap = TRUE]
    /\ commitments' = [i \in IndexedIds |-> None]
    /\ orphaned' = FALSE
    /\ UNCHANGED <<events, oldestLedger, meta, mode, missed, interruptions>>

FetchLatest ==
    /\ poll.step = "latest"
    /\ LET first == latestLedger - lookbackLedgers
       IN  poll' = [poll EXCEPT !.step = "scratch", !.start = IF first > 1 THEN first ELSE 1]
    /\ UNCHANGED <<events, oldestLedger, commitments, meta, mode, missed, orphaned, interruptions>>

\* A start the node has forgotten is met by the gap once, then ends the poll.
FetchFromScratch ==
    /\ poll.step = "scratch"
    /\ IF poll.start >= oldestLedger THEN Page(poll.start)
       ELSE IF poll.gap THEN poll' = NoPoll
       ELSE Goto("clear")
    /\ UNCHANGED <<events, oldestLedger, commitments, meta, mode, missed, orphaned, interruptions>>

Current == Head(poll.page)

\* getCommitment reads the contract of the moment, or answers that it cannot.
LookUp ==
    /\ poll.step = "apply" /\ poll.page # <<>> /\ Current.type = "created"
    /\ \/ /\ poll' = [poll EXCEPT !.step = "store", !.row = toCommitment(Current.id)]
          /\ UNCHANGED <<missed, interruptions>>
       \/ /\ interruptions < MaxInterruptions
          /\ interruptions' = interruptions + 1
          /\ missed' = missed \cup {Current.id}
          /\ poll' = [poll EXCEPT !.page = Tail(@)]
    /\ UNCHANGED <<events, oldestLedger, commitments, meta, mode, orphaned>>

UpsertCommitment ==
    /\ poll.step = "store"
    /\ commitments' = [commitments EXCEPT ![Current.id] = poll.row]
    /\ missed' = missed \ {Current.id}
    /\ poll' = [poll EXCEPT !.step = "apply", !.row = None, !.page = Tail(@)]
    /\ UNCHANGED <<events, oldestLedger, meta, mode, orphaned, interruptions>>

PatchCommitmentStatus ==
    /\ poll.step = "apply" /\ poll.page # <<>> /\ Current.type \in ParsedTypes \ {"created"}
    /\ commitments' = [commitments EXCEPT ![Current.id] =
                           IF @ = None THEN None ELSE RowsApplied(Current, @)]
    /\ poll' = [poll EXCEPT !.page = Tail(@)]
    /\ UNCHANGED <<events, oldestLedger, meta, mode, missed, orphaned, interruptions>>

\* parseContractEvent returns null: the loop goes on.
SkipEvent ==
    /\ poll.step = "apply" /\ poll.page # <<>> /\ Current.type \notin ParsedTypes
    /\ poll' = [poll EXCEPT !.page = Tail(@)]
    /\ UNCHANGED <<events, oldestLedger, commitments, meta, mode, missed, orphaned, interruptions>>

SetMeta ==
    /\ poll.step = "apply" /\ poll.page = <<>>
    /\ meta' = [cursor |-> poll.next,
                lastLedgerSeq |-> IF poll.start = None THEN meta.lastLedgerSeq ELSE poll.start]
    /\ poll' = NoPoll
    /\ UNCHANGED <<events, oldestLedger, commitments, mode, missed, orphaned, interruptions>>
-----------------------------------------------------------------------------
Interrupted ==
    /\ interruptions < MaxInterruptions
    /\ interruptions' = interruptions + 1
    /\ orphaned' = (orphaned \/ (meta.cursor = None /\ \E i \in IndexedIds : commitments[i] # None))

\* A call to the node is refused or lost, in the middle of a page too.
PollFails ==
    /\ poll.step \in {"cursor", "latest", "scratch", "apply"}
    /\ Interrupted
    /\ poll' = NoPoll
    /\ UNCHANGED <<events, oldestLedger, commitments, meta, mode, missed>>

Reload ==
    /\ Interrupted
    /\ poll' = NoPoll
    /\ UNCHANGED <<events, oldestLedger, commitments, meta, mode, missed>>

\* The interval is stopped; a poll in flight runs on.
SetMode(m) ==
    /\ m # mode
    /\ interruptions < MaxInterruptions
    /\ interruptions' = interruptions + 1
    /\ mode' = m
    /\ UNCHANGED <<events, oldestLedger, commitments, meta, poll, missed, orphaned>>

PollStep ==
    \/ PollTick \/ FetchFromCursor \/ ClearCommitments \/ FetchLatest \/ FetchFromScratch
    \/ LookUp \/ UpsertCommitment \/ PatchCommitmentStatus \/ SkipEvent \/ SetMeta

LocalNext ==
    \/ LedgerClosed \/ EventsForgotten
    \/ PollStep
    \/ PollFails \/ Reload
    \/ \E m \in {"cloud", "local"} : SetMode(m)

LocalSpec == LocalInit /\ [][LocalNext]_localVars
-----------------------------------------------------------------------------
CaughtUp == poll.step = "idle" /\ meta.cursor = latestLedger

\* An index that has caught up shows the status and the outcome of the contract, though
\* rows are read ahead of the events that are then applied to them, and whatever polls
\* failed, gaps opened or pages were closed on the way (pollOnce, patchCommitmentStatus).
\* There are two exceptions.  What the panel of attestors decides, or lets lapse, is told by
\* events that are not parsed (voteres, votefall): the commitment is shown disputed for
\* ever, even if its row was read after the decision.  And what the first poll of all leaves
\* behind when it is interrupted may be old: without a cursor the gap goes unnoticed.
IndexIsCurrent ==
    CaughtUp /\ ~ orphaned =>
        \A i \in IndexedIds : commitments[i] # None =>
            IF Happened(i, Settlements \ ParsedTypes) THEN commitments[i].status = "Disputed"
            ELSE commitments[i] = RowAfter(i)

\* Every commitment created since the ledger the index starts at is in it, unless the
\* contract could not be read when its event was found: then it is never asked again.
WindowIsIndexed ==
    CaughtUp => \A n \in 1..latestLedger :
        n >= meta.lastLedgerSeq /\ events[n].type = "created" /\ events[n].id \notin missed
            => commitments[events[n].id] # None

\* In local mode, once anything has happened, the index catches up again after every gap
\* and failure, if the node keeps the events of the lookback window (tick, fetchFromScratch).
IndexCatchesUp == []<>(mode = "local" /\ events # <<>> => CaughtUp)

-----------------------------------------------------------------------------
(***************************************************************************)
(* Live updates: the indexer publishes the events of each ledger it has    *)
(* committed, under the sequence of the ledger (workers/indexer.ts); every *)
(* open web socket is sent them (ws/WebSocketService.ts); the client of    *)
(* the page, which reconnects by itself (lib/wsClient.ts), applies them to *)
(* the store (store/useStore.ts).                                          *)
(***************************************************************************)

CONSTANTS
    LiveIds,        \* commitments
    MaxPublished,   \* bound: events
    MaxSockets,     \* bound: web sockets the page opens
    MaxMounts       \* bound: changes between mounted and unmounted

ASSUME LiveAssumption == MaxPublished \in Nat /\ MaxSockets \in Nat /\ MaxMounts \in Nat

VARIABLES
    published,      \* the events published so far
    sockets,        \* each socket the page has opened: its state and what is on its way
    ws,             \* the socket of the client, or None
    reconnectTimer, \* the timer the client knows of: None, "armed" or "fired"
    lostTimers,     \* armed timers the client does not know of any more
    mounted,        \* the application is mounted
    realtime,       \* the store: id -> the number of the event that set its state, 0 at first
    lastProcessedSequence,
    mounts

liveVars == <<published, sockets, ws, reconnectTimer, lostTimers, mounted, realtime,
              lastProcessedSequence, mounts>>

LiveInit ==
    /\ published = <<>>
    /\ sockets = <<>>
    /\ ws = None
    /\ reconnectTimer = None
    /\ lostTimers = 0
    /\ mounted = FALSE
    /\ realtime = [i \in LiveIds |-> 0]
    /\ lastProcessedSequence = 0
    /\ mounts = 0

InState(s, states) == s # None /\ sockets[s].state \in states
-----------------------------------------------------------------------------
\* The worker's hook: one ledger may hold several events.
PublishEvent ==
    /\ Len(published) < MaxPublished
    /\ \E id \in LiveIds, newLedger \in {0, 1} :
        LET last == IF published = <<>> THEN 1 ELSE published[Len(published)].sequence
            e == [number |-> Len(published) + 1, id |-> id, sequence |-> last + newLedger]
        IN  /\ published' = Append(published, e)
            /\ sockets' = [s \in DOMAIN sockets |->
                   IF sockets[s].state = "open"
                   THEN [sockets[s] EXCEPT !.messages = Append(@, e)] ELSE sockets[s]]
    /\ UNCHANGED <<ws, reconnectTimer, lostTimers, mounted, realtime, lastProcessedSequence, mounts>>

\* Mutant: what was processed is applied again.
applyEvent_Repeats(e) ==
    /\ realtime' = [realtime EXCEPT ![e.id] = e.number]
    /\ lastProcessedSequence' =
           IF e.sequence > lastProcessedSequence THEN e.sequence ELSE lastProcessedSequence

applyEvent(e) ==
    IF e.sequence <= lastProcessedSequence THEN UNCHANGED <<realtime, lastProcessedSequence>>
    ELSE /\ realtime' = [realtime EXCEPT ![e.id] = e.number]
         /\ lastProcessedSequence' = e.sequence

OnMessage(s) ==
    /\ sockets[s].state = "open" /\ sockets[s].messages # <<>>
    /\ applyEvent(Head(sockets[s].messages))
    /\ sockets' = [sockets EXCEPT ![s].messages = Tail(@)]
    /\ UNCHANGED <<published, ws, reconnectTimer, lostTimers, mounted, mounts>>
-----------------------------------------------------------------------------
\* connect() does nothing while the client's socket is open or on its way.
ConnectSocket ==
    IF InState(ws, {"connecting", "open"}) THEN UNCHANGED <<sockets, ws>>
    ELSE /\ Len(sockets) < MaxSockets
         /\ sockets' = Append(sockets, [state |-> "connecting", messages |-> <<>>])
         /\ ws' = Len(sockets) + 1

OnOpen(s) ==
    /\ sockets[s].state = "connecting"
    /\ sockets' = [sockets EXCEPT ![s].state = "open"]
    /\ reconnectTimer' = None
    /\ UNCHANGED <<published, ws, lostTimers, mounted, realtime, lastProcessedSequence, mounts>>

\* scheduleReconnect overwrites the timer there is.
ScheduleReconnect ==
    /\ reconnectTimer' = "armed"
    /\ lostTimers' = lostTimers + (IF reconnectTimer = "armed" THEN 1 ELSE 0)

\* The connection is lost or refused, or the closing handshake ends: whichever socket it
\* is, the client forgets the one it has.
OnClose(s) ==
    /\ sockets[s].state # "closed"
    /\ sockets' = [sockets EXCEPT ![s] = [state |-> "closed", messages |-> <<>>]]
    /\ ws' = None
    /\ ScheduleReconnect
    /\ UNCHANGED <<published, mounted, realtime, lastProcessedSequence, mounts>>

ReconnectSocket ==
    /\ \/ reconnectTimer = "armed" /\ reconnectTimer' = "fired" /\ UNCHANGED lostTimers
       \/ lostTimers > 0 /\ lostTimers' = lostTimers - 1 /\ UNCHANGED reconnectTimer
    /\ ConnectSocket
    /\ UNCHANGED <<published, mounted, realtime, lastProcessedSequence, mounts>>

MountApp ==
    /\ ~ mounted /\ mounts < MaxMounts
    /\ mounted' = TRUE
    /\ mounts' = mounts + 1
    /\ ConnectSocket
    /\ UNCHANGED <<published, reconnectTimer, lostTimers, realtime, lastProcessedSequence>>

\* disconnect() closes the socket, whose onclose is still to come.
UnmountApp ==
    /\ mounted /\ mounts < MaxMounts
    /\ mounted' = FALSE
    /\ mounts' = mounts + 1
    /\ reconnectTimer' = None
    /\ sockets' = IF ws = None THEN sockets ELSE [sockets EXCEPT ![ws].state = "closing"]
    /\ ws' = None
    /\ UNCHANGED <<published, lostTimers, realtime, lastProcessedSequence>>

ClientStep ==
    \/ \E s \in DOMAIN sockets : OnMessage(s) \/ OnOpen(s)
    \/ \E s \in DOMAIN sockets : sockets[s].state = "closing" /\ OnClose(s)
    \/ ReconnectSocket

LiveNext ==
    \/ PublishEvent
    \/ \E s \in DOMAIN sockets : OnMessage(s) \/ OnOpen(s) \/ OnClose(s)
    \/ ReconnectSocket
    \/ MountApp \/ UnmountApp

LiveSpec == LiveInit /\ [][LiveNext]_liveVars
-----------------------------------------------------------------------------
\* The state the store shows of a commitment is never replaced by an older one, though
\* for a while two sockets of the page bring the same events (applyEvent, onclose).
StoreNeverAges == [][\A i \in LiveIds : realtime'[i] >= realtime[i]]_liveVars

\* A mounted application gets back to an open socket, if enough connections are left.
\* It need not be the one the client has: a socket that was closed on purpose makes the
\* client forget the next one, whose onopen then cancels the reconnect (onclose, onopen).
StaysConnected ==
    []<>(mounted /\ Len(sockets) < MaxSockets => \E s \in DOMAIN sockets : InState(s, {"open"}))

\* Both feeds follow the contract: what the index shows once it has caught up is whole and
\* current, and it always catches up again; the store never goes back, and never stays
\* without a socket.
FeedsFollowTheContract ==
    /\ []IndexIsCurrent
    /\ []WindowIsIndexed
    /\ IndexCatchesUp
    /\ StoreNeverAges
    /\ StaysConnected

-----------------------------------------------------------------------------
(***************************************************************************)
(* The page that looks an account up (ReputationDashboard.tsx of the       *)
(* dashboard remote): its reputation, checked against a ledger or read     *)
(* from a node (lib/verifiedReputation.ts), and its commitments, a page at *)
(* a time as the reader scrolls.  A step is an event and the renders and   *)
(* effects it causes.                                                      *)
(***************************************************************************)

CONSTANTS
    Addresses, Filters,
    HomeAddress, AllFilter,     \* what the page starts with
    FullPages,                  \* the full pages of commitments there are of each selection
    MaxSelections               \* bound: addresses and filters chosen

ASSUME DashboardAssumption ==
    /\ HomeAddress \in Addresses /\ AllFilter \in Filters
    /\ FullPages \in Nat /\ MaxSelections \in Nat

VARIABLES
    activeAddress, statusFilter,
    shownRows,    \* the pages shown, each with the selection it belongs to
    page, hasMore, isLoading,
    reputation,     \* the account whose reputation is shown and how it was read, or None
    inits,          \* the runs of initializeData that have not ended
    aborted,        \* abortRef holds a controller that was aborted
    more,           \* the page loadMore awaits, or None
    loadMore,       \* what the callback that the observer calls has captured
    observing,      \* the observer watches the foot of the list that is on the page
    chosen

dashVars == <<activeAddress, statusFilter, shownRows, page, hasMore, isLoading,
              reputation, inits, aborted, more, loadMore, observing, chosen>>

ShownRow(a, f, p) == [address |-> a, filter |-> f, page |-> p]
Run(a, f, stage, gone) ==
    [address |-> a, filter |-> f, stage |-> stage, aborted |-> gone]

\* useCallback makes a new loadMore when page, hasMore or the selection changes; isLoading
\* is not among its dependencies, so the callback keeps the value of that render.
Captured(loading) ==
    LET fresh == [page |-> page', hasMore |-> hasMore', isLoading |-> loading,
                  address |-> activeAddress', filter |-> statusFilter']
    IN  IF [fresh EXCEPT !.isLoading = loadMore.isLoading] = loadMore THEN loadMore ELSE fresh

\* The list, whose foot the observer watches, is rendered unless it is empty at rest.
Foot(rows, loading) == rows # <<>> \/ loading

\* The effect of the observer runs when loadMore, hasMore or isFetchingMore has changed;
\* otherwise the observer keeps the element it had, which may have left the page.
Observed(loading) ==
    /\ Foot(shownRows', loading)
    /\ \/ observing
       \/ loadMore' # loadMore \/ (more' = None) # (more = None)

\* Aborting rejects every request that carries the signal; the read from a node does not.
AbortedInits(all) == {[r EXCEPT !.aborted = TRUE] : r \in {r \in all : r.stage = "fallback"}}

\* Mutant: the effect has no cleanup.
Initialize_NoCleanup ==
    /\ inits' = inits \cup {Run(activeAddress', statusFilter', "proof", FALSE)}
    /\ more' = more
    /\ aborted' = FALSE /\ isLoading' = TRUE

\* The effect of the selection: the old controller is aborted, a new run starts.
Initialize ==
    /\ inits' = AbortedInits(inits) \cup {Run(activeAddress', statusFilter', "proof", FALSE)}
    /\ more' = None
    /\ aborted' = FALSE /\ isLoading' = TRUE

DashInit ==
    /\ activeAddress = HomeAddress /\ statusFilter = AllFilter
    /\ shownRows = <<>>
    /\ page = 1 /\ hasMore = TRUE /\ isLoading = TRUE
    /\ reputation = None
    /\ inits = {Run(HomeAddress, AllFilter, "proof", FALSE)}
    /\ more = None /\ aborted = FALSE
    /\ loadMore = [page |-> 1, hasMore |-> TRUE, isLoading |-> FALSE,
                   address |-> HomeAddress, filter |-> AllFilter]
    /\ observing = FALSE    \* the foot was not on the page when the effect ran
    /\ chosen = 0

Chooses == chosen < MaxSelections /\ chosen' = chosen + 1

\* triggerAddressChange.  The effect runs only when the address is another one: a search
\* for the address already shown empties the page and loads nothing.
TriggerAddressChange(a) ==
    /\ Chooses
    /\ activeAddress' = a
    /\ reputation' = None /\ shownRows' = <<>> /\ page' = 1 /\ hasMore' = TRUE
    /\ UNCHANGED statusFilter
    /\ IF a # activeAddress THEN Initialize
       ELSE /\ inits' = AbortedInits(inits) /\ more' = None
            /\ aborted' = TRUE /\ isLoading' = TRUE
    /\ loadMore' = Captured(TRUE)
    /\ observing' = Observed(TRUE)

\* The reader goes back in the history: the parent gives another address, and only the
\* address changes.
InitialAddressChanges(a) ==
    /\ Chooses
    /\ a # activeAddress /\ activeAddress' = a
    /\ UNCHANGED <<statusFilter, reputation, shownRows, page, hasMore>>
    /\ Initialize
    /\ loadMore' = Captured(isLoading)
    /\ observing' = Observed(isLoading)

SetStatusFilter(f) ==
    /\ Chooses
    /\ statusFilter' = f /\ page' = 1
    /\ UNCHANGED <<activeAddress, reputation, shownRows, hasMore>>
    /\ IF f # statusFilter THEN Initialize ELSE UNCHANGED <<inits, more, aborted, isLoading>>
    /\ loadMore' = Captured(isLoading)
    /\ observing' = Observed(isLoading)

\* The continuation of a run: what it sets is rendered, and loadMore captured again.
Renders ==
    /\ UNCHANGED <<activeAddress, statusFilter, page, more, aborted, chosen>>
    /\ loadMore' = Captured(isLoading')
    /\ observing' = Observed(isLoading')

\* fetchVerifiedReputation ends: the proof holds and page 1 is asked for.
ProofVerified(r) ==
    /\ r \in inits /\ r.stage = "proof"
    /\ reputation' = [address |-> r.address, integrity |-> "verified"]
    /\ inits' = (inits \ {r}) \cup {[r EXCEPT !.stage = "page"]}
    /\ UNCHANGED <<shownRows, hasMore, isLoading>>
    /\ Renders

\* The proof is refused, or not answered: the reputation is read from a node.
ProofRefused(r) ==
    /\ r \in inits /\ r.stage = "proof"
    /\ inits' = (inits \ {r}) \cup {[r EXCEPT !.stage = "fallback"]}
    /\ UNCHANGED <<reputation, shownRows, hasMore, isLoading>>
    /\ Renders

FallbackAnswers(r) ==
    /\ r \in inits /\ r.stage = "fallback"
    /\ inits' = inits \ {r}
    /\ IF r.aborted THEN UNCHANGED <<reputation, shownRows, hasMore, isLoading>>
       ELSE /\ reputation' = [address |-> r.address, integrity |-> "rpc-fallback"]
            /\ shownRows' = <<>> /\ hasMore' = FALSE /\ isLoading' = FALSE
    /\ Renders

FirstPageAnswers(r) ==
    /\ r \in inits /\ r.stage = "page"
    /\ inits' = inits \ {r}
    /\ shownRows' = IF FullPages = 0 THEN <<>> ELSE <<ShownRow(r.address, r.filter, 1)>>
    /\ hasMore' = (FullPages >= 1) /\ isLoading' = FALSE
    /\ UNCHANGED reputation
    /\ Renders

\* A request of initializeData fails: only the message and the spinner change.
InitFails(r) ==
    /\ r \in inits
    /\ inits' = inits \ {r}
    /\ isLoading' = IF r.aborted THEN isLoading ELSE FALSE
    /\ UNCHANGED <<reputation, shownRows, hasMore>>
    /\ Renders

\* The foot of the list comes into view.  A request that carries the signal of an aborted
\* controller, which a search for the same address leaves, is refused at once.
ScrollToFoot ==
    /\ observing /\ more = None /\ ~aborted
    /\ ~loadMore.isLoading /\ loadMore.hasMore
    /\ more' = ShownRow(loadMore.address, loadMore.filter, loadMore.page + 1)
    /\ UNCHANGED <<activeAddress, statusFilter, shownRows, page, hasMore, isLoading,
                   reputation, inits, aborted, loadMore, chosen>>
    /\ observing' = Observed(isLoading)

MoreAnswers ==
    /\ more # None
    /\ shownRows' = IF more.page <= FullPages THEN Append(shownRows, more) ELSE shownRows
    /\ hasMore' = (more.page <= FullPages) /\ page' = more.page
    /\ more' = None
    /\ UNCHANGED <<activeAddress, statusFilter, isLoading, reputation, inits, aborted, chosen>>
    /\ loadMore' = Captured(isLoading)
    /\ observing' = Observed(isLoading)

MoreFails ==
    /\ more # None /\ more' = None
    /\ UNCHANGED <<activeAddress, statusFilter, shownRows, page, hasMore, isLoading,
                   reputation, inits, aborted, loadMore, chosen>>
    /\ observing' = Observed(isLoading)

DashNext ==
    \/ \E a \in Addresses : TriggerAddressChange(a) \/ InitialAddressChanges(a)
    \/ \E f \in Filters : SetStatusFilter(f)
    \/ \E r \in inits : \/ ProofVerified(r) \/ ProofRefused(r) \/ FallbackAnswers(r)
                        \/ FirstPageAnswers(r) \/ InitFails(r)
    \/ ScrollToFoot \/ MoreAnswers \/ MoreFails

DashSpec == DashInit /\ [][DashNext]_dashVars
-----------------------------------------------------------------------------
(***************************************************************************)
(* An answer to a question the reader has left behind never reaches the    *)
(* page: what a step adds to the list, or shows as the reputation, is of   *)
(* the account and the filter that are selected by then.                   *)
(***************************************************************************)
LateAnswersAreDropped == [][
    /\ \A r \in Range(shownRows') \ Range(shownRows) :
           r.address = activeAddress' /\ r.filter = statusFilter'
    /\ reputation' \notin {None, reputation} => reputation'.address = activeAddress']_dashVars
=============================================================================
