---------------------------- MODULE OfflineStore ----------------------------
(***************************************************************************)
(* The documents of the frontend that outlive a page: the offline store of *)
(* commitments, and the tabs that keep one document in step.               *)
(***************************************************************************)
EXTENDS EventLoop

-----------------------------------------------------------------------------
(***************************************************************************)
(* The offline cache of commitments (frontend lib/crdt/store.ts, merge.ts, *)
(* hooks/useSyncCache.ts): in every tab a Yjs map next to the query cache, *)
(* both fed by fetches of the backend's list and by the other tabs.        *)
(*                                                                         *)
(* A write to a key of a Yjs map goes after the one its tab sees.  Its     *)
(* place is the sequence of tabs that wrote, and of two places the one     *)
(* that Yjs puts last shows: the longer of two that agree, or else the one *)
(* whose tab has the greater client identifier where they part.            *)
(***************************************************************************)

CONSTANTS
    Clients,        \* tabs, as Yjs client identifiers
    Ids,            \* commitments
    MaxListed,      \* bound: versions of a commitment at the backend
    MaxWrites       \* bound: writes to a key, one after another

ASSUME OfflineAssumption == Clients \subseteq Nat /\ {MaxListed, MaxWrites} \subseteq Nat

VARIABLES
    listed,         \* the backend's list: per commitment its version, 0 if it is not there
    stored,         \* per tab and commitment, the entry of the Y.Map
    fetched,        \* per tab, the list that a fetch carries back, or None
    shown           \* per tab, what the unfiltered query of the query cache holds, or None

offVars == <<listed, stored, fetched, shown>>

NoEntry == [place |-> << >>, gone |-> TRUE, version |-> 0, pending |-> FALSE]

OffInit ==
    /\ listed = [i \in Ids |-> 1]
    /\ stored = [t \in Clients |-> [i \in Ids |-> NoEntry]]
    /\ fetched = [t \in Clients |-> None]
    /\ shown = [t \in Clients |-> None]

Write(t, entry, version, pending) ==
    [place |-> Append(entry.place, t), gone |-> FALSE, version |-> version, pending |-> pending]

\* readCommitments, as the version of each commitment, -1 for a local edit
Reads(entries) == [i \in Ids |-> IF entries[i].gone THEN 0
                                 ELSE IF entries[i].pending THEN -1 ELSE entries[i].version]

\* Mutant: a local edit is kept while the backend's list has the commitment.
Merged_Listed(t, i, list) ==
    LET entry == stored[t][i] IN
    IF list[i] # 0 /\ ~ (entry.pending /\ ~ entry.gone) THEN Write(t, entry, list[i], FALSE)
    ELSE IF list[i] = 0 /\ ~ entry.gone THEN [entry EXCEPT !.gone = TRUE]
    ELSE entry

\* mergeCommitmentsFromCanonical and applyCommitmentMerge for one commitment: a pending
\* entry stays, any other becomes the listed one, and what is not listed is deleted.
Merged(t, i, list) ==
    LET entry == stored[t][i] IN
    IF ~ entry.gone /\ entry.pending THEN entry
    ELSE IF list[i] # 0 THEN Write(t, entry, list[i], FALSE)
    ELSE [entry EXCEPT !.gone = TRUE]

RoomToWrite(t) == \A i \in Ids : Len(stored[t][i].place) < MaxWrites

BackendChanges(i) ==
    /\ listed' \in {[listed EXCEPT ![i] = 0], [listed EXCEPT ![i] = IF @ = 0 THEN 0 ELSE @ + 1]}
    /\ listed'[i] <= MaxListed
    /\ listed' # listed
    /\ UNCHANGED <<stored, fetched, shown>>

\* An event of the full list's query, with the data it then has, merges that data into the
\* store, whose observer puts what the store then holds back into the query cache.
MergeInto(t, list) ==
    LET entries == [i \in Ids |-> Merged(t, i, list)] IN
    /\ RoomToWrite(t)
    /\ stored' = [stored EXCEPT ![t] = entries]
    /\ shown' = [shown EXCEPT ![t] = IF entries = stored[t] THEN list ELSE Reads(entries)]

\* A fetch starts, which is an event of a query that has data, and reads the backend.
Fetch(t) ==
    /\ fetched[t] = None
    /\ fetched' = [fetched EXCEPT ![t] = listed]
    /\ IF shown[t] = None THEN UNCHANGED <<stored, shown>> ELSE MergeInto(t, shown[t])
    /\ UNCHANGED listed

FetchArrives(t) ==
    /\ fetched[t] # None
    /\ MergeInto(t, fetched[t])
    /\ fetched' = [fetched EXCEPT ![t] = None]
    /\ UNCHANGED listed

\* Any other event of the query, its invalidation for one.
QueryTouched(t) ==
    /\ shown[t] # None
    /\ MergeInto(t, shown[t])
    /\ UNCHANGED <<listed, fetched>>

\* A change of the store that is not a fetch: the observer writes the query if it exists.
StoreChanges(t, entries) ==
    /\ stored' = [stored EXCEPT ![t] = entries]
    /\ shown' = [shown EXCEPT ![t] = IF @ = None \/ entries = stored[t] THEN @ ELSE Reads(entries)]

\* markCommitmentPending
EditOffline(t, i) ==
    /\ RoomToWrite(t)
    /\ StoreChanges(t, [stored[t] EXCEPT ![i] = Write(t, @, 0, TRUE)])
    /\ UNCHANGED <<listed, fetched>>

\* ready: the query cache is hydrated from a store that is not empty.
Hydrate(t) ==
    /\ \E i \in Ids : ~ stored[t][i].gone
    /\ shown[t] = None
    /\ shown' = [shown EXCEPT ![t] = Reads(stored[t])]
    /\ UNCHANGED <<listed, stored, fetched>>

\* Where two places part, the greater client comes last.
Later(p, q) ==
    \/ Len(p) > Len(q) /\ SubSeq(p, 1, Len(q)) = q
    \/ \E k \in 1..Len(p) : /\ k <= Len(q) /\ SubSeq(p, 1, k - 1) = SubSeq(q, 1, k - 1)
                            /\ p[k] > q[k]

\* The Yjs merge of one key
Joined(e, f) ==
    IF e.place = f.place THEN [e EXCEPT !.gone = e.gone \/ f.gone]
    ELSE IF Later(e.place, f.place) THEN e ELSE f

\* The document of tab u reaches tab t.
TabUpdate(t, u) ==
    /\ t # u
    /\ StoreChanges(t, [i \in Ids |-> Joined(stored[t][i], stored[u][i])])
    /\ UNCHANGED <<listed, fetched>>

OffNext ==
    \/ \E i \in Ids : BackendChanges(i)
    \/ \E t \in Clients :
           \/ Fetch(t) \/ FetchArrives(t) \/ QueryTouched(t) \/ Hydrate(t)
           \/ \E i \in Ids : EditOffline(t, i)
           \/ \E u \in Clients : TabUpdate(t, u)

OffSpec == OffInit /\ [][OffNext]_offVars
-----------------------------------------------------------------------------
\* The unfiltered query of a tab shows what its store holds, whether the last change
\* came from a fetch, from a local edit or from another tab; only while every commitment
\* of the store is a pending edit may it show the backend's list instead, because the
\* merge then changes nothing and the observer does not run (useSyncCache).
QueryMirrorsStore ==
    \A t \in Clients :
        shown[t] # None =>
            \/ shown[t] = Reads(stored[t])
            \/ \A i \in Ids : ~ stored[t][i].gone => stored[t][i].pending

\* A fetch never takes a pending edit out of the store of its own tab, when it starts and
\* merges what the query had or when it ends, also when the list was read before the edit
\* was made or lacks the commitment (mergeCommitmentsFromCanonical).
FetchKeepsEdits ==
    [][\A t \in Clients, i \in Ids :
          (fetched'[t] # fetched[t] /\ Reads(stored[t])[i] = -1)
              => Reads(stored'[t])[i] = -1]_offVars

-----------------------------------------------------------------------------
(***************************************************************************)
(* Synchronisation of the browser tabs of one origin (frontend             *)
(* lib/crdt/broadcastchannel.ts, store.ts): every message carries its      *)
(* sender's own counter, and a tab skips a message with the number it      *)
(* received last.  A tab asks for what it lacks, but the answer is sent    *)
(* without the type of a sync message, and nobody reads it: what was       *)
(* broadcast before a tab connected reaches it through IndexedDB.          *)
(*                                                                         *)
(* A document is the set of updates it has, those that wait for an earlier *)
(* one included.  IndexedDB (y-indexeddb) keeps an update before it is     *)
(* broadcast, once its tab has loaded.                                     *)
(***************************************************************************)

CONSTANTS
    Tabs, TabEdits,
    MaxUnread       \* bound: messages not received yet while a tab still does something new

VARIABLES
    tabDoc,         \* per tab, the updates in its Y.Doc
    connected,      \* tabs that opened the channel
    loaded,         \* tabs that have loaded IndexedDB
    inDB,           \* updates in IndexedDB
    sendState,      \* per tab, the number of its last message
    lastReceivedPub,
    channel,        \* channel[t][u]: messages of t that u has not received
    skipped,        \* history: per tab, updates in messages it took for ones received before
    early           \* history: updates made in a tab that had not loaded IndexedDB

tabVars == <<tabDoc, connected, loaded, inDB, sendState, lastReceivedPub, channel,
             skipped, early>>

TabInit ==
    /\ tabDoc = [t \in Tabs |-> {}]
    /\ connected = {} /\ loaded = {}
    /\ inDB \in SUBSET TabEdits
    /\ sendState = [t \in Tabs |-> 0]
    /\ lastReceivedPub = [t \in Tabs |-> 0]
    /\ channel = [t \in Tabs |-> [u \in Tabs |-> << >>]]
    /\ skipped = [t \in Tabs |-> {}] /\ early = {}

\* broadcast(), of one message after another: to every other tab that is connected
Broadcast(t, chan, bodies) ==
    /\ sendState' = [sendState EXCEPT ![t] = @ + Len(bodies)]
    /\ channel' = [chan EXCEPT ![t] = [u \in Tabs |->
           IF u \in connected \ {t}
           THEN chan[t][u] \o [n \in 1 .. Len(bodies) |-> [bodies[n] EXCEPT !.pub = sendState[t] + n]]
           ELSE chan[t][u]]]

\* What is broadcast; the number is given then.
Step1 == [pub |-> 0, kind |-> "step1", updates |-> {}]
Step2 == [pub |-> 0, kind |-> "step2", updates |-> {}]
Update(updates) == [pub |-> 0, kind |-> "update", updates |-> updates]

\* The store's constructor connects, and connect() ends with sync().
Connect(t) ==
    /\ t \notin connected
    /\ connected' = connected \cup {t}
    /\ Broadcast(t, channel, <<Step1>>)
    /\ UNCHANGED <<tabDoc, loaded, inDB, lastReceivedPub, skipped, early>>

\* IndexedDB is read, what the tab has is written there, what is new to the tab is an
\* update it broadcasts, and then it syncs once more.
Load(t) ==
    LET news == inDB \ tabDoc[t] IN
    /\ t \in connected \ loaded
    /\ loaded' = loaded \cup {t}
    /\ tabDoc' = [tabDoc EXCEPT ![t] = @ \cup inDB]
    /\ inDB' = inDB \cup tabDoc[t]
    /\ Broadcast(t, channel, IF news = {} THEN <<Step1>> ELSE <<Update(news), Step1>>)
    /\ UNCHANGED <<connected, lastReceivedPub, skipped, early>>

\* A change of the document in this tab: kept, if the tab has loaded, and broadcastUpdate.
EditTab(t, e) ==
    /\ t \in connected
    /\ e \notin inDB /\ \A u \in Tabs : e \notin tabDoc[u]
    /\ tabDoc' = [tabDoc EXCEPT ![t] = @ \cup {e}]
    /\ inDB' = IF t \in loaded THEN inDB \cup {e} ELSE inDB
    /\ early' = IF t \in loaded THEN early ELSE early \cup {e}
    /\ Broadcast(t, channel, <<Update({e})>>)
    /\ UNCHANGED <<connected, loaded, lastReceivedPub, skipped>>

\* readSyncMessage: step 1 is answered, to everybody; an update is merged, and kept.
ReadMessage(u, chan, message) ==
    IF message.kind = "step1"
    THEN Broadcast(u, chan, <<Step2>>) /\ UNCHANGED <<tabDoc, inDB>>
    ELSE /\ channel' = chan /\ UNCHANGED sendState
         /\ tabDoc' = [tabDoc EXCEPT ![u] = @ \cup message.updates]
         /\ inDB' = IF u \in loaded THEN inDB \cup message.updates ELSE inDB

\* onMessage.  The answer to a step 1 has no type before its own, which is read as one, and
\* is not that of a sync message.
Receive(t, u) ==
    LET message == Head(channel[t][u])
        chan == [channel EXCEPT ![t][u] = Tail(@)]
    IN
    /\ channel[t][u] # << >>
    /\ UNCHANGED <<connected, loaded, early>>
    /\ IF message.pub = lastReceivedPub[u]
       THEN /\ skipped' = [skipped EXCEPT ![u] = @ \cup message.updates]
            /\ channel' = chan
            /\ UNCHANGED <<tabDoc, inDB, sendState, lastReceivedPub>>
       ELSE /\ lastReceivedPub' = [lastReceivedPub EXCEPT ![u] = message.pub]
            /\ IF message.kind = "step2"
               THEN channel' = chan /\ UNCHANGED <<tabDoc, inDB, sendState>>
               ELSE ReadMessage(u, chan, message)
            /\ UNCHANGED skipped

FewUnread ==
    Cardinality(UNION {{<<t, u, n>> : n \in DOMAIN channel[t][u]} : t \in Tabs, u \in Tabs})
        <= MaxUnread

TabNext ==
    \/ /\ FewUnread
       /\ \E t \in Tabs : Connect(t) \/ Load(t) \/ \E e \in TabEdits : EditTab(t, e)
    \/ \E t, u \in Tabs : Receive(t, u)

TabSpec == TabInit /\ [][TabNext]_tabVars
-----------------------------------------------------------------------------
\* Tabs that have loaded IndexedDB and received everything sent to them agree, whenever
\* they were opened, but for two kinds of updates that a tab may lack until it is opened
\* again: one that came in a message with the number of the message the tab received
\* before it, from another tab, and one that was made in a tab before that had loaded
\* IndexedDB, and was broadcast before the other one connected (onMessage, broadcastUpdate,
\* SyncStore).
QuietTabsAgree ==
    (\A t, u \in Tabs : channel[t][u] = << >>) =>
        \A t, u \in loaded : tabDoc[t] \subseteq tabDoc[u] \cup skipped[u] \cup early

\* What a user sees is what the stores of the tabs hold: queries follow their store, a
\* fetch spares the edits of its tab, and tabs that are done talking agree.
TabsShowTheirStore == []QueryMirrorsStore /\ []QuietTabsAgree /\ FetchKeepsEdits
=============================================================================
