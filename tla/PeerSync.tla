------------------------------ MODULE PeerSync ------------------------------
(***************************************************************************)
(* Two peers with one document: how they exchange updates, and how they    *)
(* find each other first.                                                  *)
(***************************************************************************)
EXTENDS EventLoop

-----------------------------------------------------------------------------
(***************************************************************************)
(* Authenticated peer-to-peer synchronisation of two Yjs documents         *)
(* (frontend lib/crdt/syncSession.ts and signing.ts): after a certificate  *)
(* exchange every frame carries a sequence number and is signed by an      *)
(* asynchronous call of WebCrypto, and the receiver drops what is not      *)
(* newer than the last frame it took.  A document is the set of updates    *)
(* merged into it.                                                         *)
(***************************************************************************)

CONSTANTS
    Peers,          \* the two ends of the link
    Edits,          \* local updates, each made once by either peer
    MaxReconnects   \* bound: times the link closes and sessions start over

ASSUME PeerAssumption == IsFiniteSet(Peers) /\ Cardinality(Peers) = 2 /\ MaxReconnects \in Nat

VARIABLES
    doc,            \* per peer, the updates in its Y.Doc
    sendSeq,        \* per peer, the number of the last frame it began to sign
    signing,        \* per peer, the frames whose signature is awaited
    link,           \* per peer, the frames it sent, oldest first
    lastSeq,        \* per peer, of the frames it took, or None before the certificate
    expired,        \* the attestations have run out
    reconnects,
    dropped         \* per peer, a frame of this session was rejected

peerVars == <<doc, sendSeq, signing, link, lastSeq, expired, reconnects, dropped>>

Other(p) == CHOOSE q \in Peers : q # p

Attest == [kind |-> "attest", seq |-> 0, body |-> {}]

\* A session begins: the certificate is sent, and sync step 1 is being signed.
FreshSession(p) == [kind |-> "step1", seq |-> 1, body |-> doc[p]]

PeerInit ==
    /\ doc = [p \in Peers |-> {}]
    /\ sendSeq = [p \in Peers |-> 1]
    /\ signing = [p \in Peers |-> {[kind |-> "step1", seq |-> 1, body |-> {}]}]
    /\ link = [p \in Peers |-> <<Attest>>]
    /\ lastSeq = [p \in Peers |-> None]
    /\ expired = FALSE
    /\ reconnects = 0
    /\ dropped = [p \in Peers |-> FALSE]

\* sendSyncBytes: the number is taken before the signature is awaited.
Sends(p, kind, body) ==
    /\ sendSeq' = [sendSeq EXCEPT ![p] = @ + 1]
    /\ signing' = [signing EXCEPT ![p] =
           @ \cup {[kind |-> kind, seq |-> sendSeq[p] + 1, body |-> body]}]

\* onDocUpdate for an edit of this tab
EditDoc(p, e) ==
    /\ \A q \in Peers : e \notin doc[q]
    /\ doc' = [doc EXCEPT ![p] = @ \cup {e}]
    /\ Sends(p, "update", {e})
    /\ UNCHANGED <<link, lastSeq, expired, reconnects, dropped>>

\* Signatures end in any order.
Signed(p, frame) ==
    /\ frame \in signing[p]
    /\ signing' = [signing EXCEPT ![p] = @ \ {frame}]
    /\ link' = [link EXCEPT ![p] = Append(@, frame)]
    /\ UNCHANGED <<doc, sendSeq, lastSeq, expired, reconnects, dropped>>

\* handleAttestFrame
TakeAttest(p) ==
    /\ link[Other(p)] # << >>
    /\ Head(link[Other(p)]).kind = "attest"
    /\ link' = [link EXCEPT ![Other(p)] = Tail(@)]
    /\ IF expired THEN dropped' = [dropped EXCEPT ![p] = TRUE] /\ UNCHANGED lastSeq
       ELSE lastSeq' = [lastSeq EXCEPT ![p] = 0] /\ UNCHANGED dropped
    /\ UNCHANGED <<doc, sendSeq, signing, expired, reconnects>>

Accepts(p, frame) == lastSeq[p] # None /\ ~ expired /\ frame.seq > lastSeq[p]

\* Mutant: what step 2 answers is lost when the two documents share a part.
ReadSync_Step1IfEmpty(p, frame) ==
    IF frame.kind = "step1"
    THEN /\ IF frame.body = {} THEN Sends(p, "step2", doc[p]) ELSE UNCHANGED <<sendSeq, signing>>
         /\ UNCHANGED doc
    ELSE /\ doc' = [doc EXCEPT ![p] = @ \cup frame.body]
         /\ UNCHANGED <<sendSeq, signing>>

\* readSyncMessage: step 1 is answered by what the sender lacks, the others are merged.
ReadSync(p, frame) ==
    IF frame.kind = "step1"
    THEN Sends(p, "step2", doc[p] \ frame.body) /\ UNCHANGED doc
    ELSE /\ doc' = [doc EXCEPT ![p] = @ \cup frame.body]
         /\ UNCHANGED <<sendSeq, signing>>

\* handleSyncFrame, one frame at a time and in the order of the link
TakeFrame(p) ==
    LET frame == Head(link[Other(p)]) IN
    /\ link[Other(p)] # << >>
    /\ frame.kind # "attest"
    /\ link' = [link EXCEPT ![Other(p)] = Tail(@)]
    /\ IF Accepts(p, frame)
       THEN /\ lastSeq' = [lastSeq EXCEPT ![p] = frame.seq]
            /\ ReadSync(p, frame)
            /\ UNCHANGED dropped
       ELSE /\ dropped' = [dropped EXCEPT ![p] = TRUE]
            /\ UNCHANGED <<doc, sendSeq, signing, lastSeq>>
    /\ UNCHANGED <<expired, reconnects>>

\* The certificates of the ten-minute session run out; the provider renews none.
AttestationsExpire ==
    /\ ~ expired
    /\ expired' = TRUE
    /\ UNCHANGED <<doc, sendSeq, signing, link, lastSeq, reconnects, dropped>>

\* The channel closes: both sessions are destroyed, and a new pair begins.
Reconnect ==
    /\ reconnects < MaxReconnects
    /\ reconnects' = reconnects + 1
    /\ sendSeq' = [p \in Peers |-> 1]
    /\ signing' = [p \in Peers |-> {FreshSession(p)}]
    /\ link' = [p \in Peers |-> <<Attest>>]
    /\ lastSeq' = [p \in Peers |-> None]
    /\ dropped' = [p \in Peers |-> FALSE]
    /\ UNCHANGED <<doc, expired>>

PeerNext ==
    \/ \E p \in Peers :
           \/ \E e \in Edits : EditDoc(p, e)
           \/ \E frame \in signing[p] : Signed(p, frame)
           \/ TakeAttest(p) \/ TakeFrame(p)
    \/ AttestationsExpire \/ Reconnect

PeerSpec == PeerInit /\ [][PeerNext]_peerVars
-----------------------------------------------------------------------------
Quiet == \A p \in Peers : signing[p] = {} /\ link[p] = << >>

\* When nothing is being signed or is on its way, and the session rejected no frame,
\* the documents are equal: edits made before the connection, during the handshake and
\* across a reconnection all reach the other side (sync steps 1 and 2 after every
\* connection, onDocUpdate in between).
QuietPeersConverged ==
    Quiet /\ (\A p \in Peers : ~ dropped[p]) => \A p, q \in Peers : doc[p] = doc[q]

-----------------------------------------------------------------------------
(***************************************************************************)
(* How the tabs that synchronise documents find each other (frontend       *)
(* lib/crdt/webrtc.ts, store.ts): a provider asks the wallet for a         *)
(* signature, joins the signalling room, announces itself and answers      *)
(* announcements; of two providers the one with the lower identifier makes *)
(* the offer.  Every provider is used once.                                *)
(***************************************************************************)

CONSTANT Providers      \* peer identifiers: numbers, compared as the strings are

ASSUME DiscoveryAssumption == Providers \subseteq Nat

VARIABLES
    phase,          \* "idle", "popup", "joined", "left", "rejected", "leaving" (left while
                    \* the wallet asks), or "ghost" (joined the room after it left)
    entry,          \* per provider and peer, how far the connection is
    room,           \* per provider, signalling messages on their way, in order
    broken          \* pairs whose connection failed

roomVars == <<phase, entry, room, broken>>

DiscoveryInit ==
    /\ phase = [p \in Providers |-> "idle"]
    /\ entry = [p \in Providers |-> [q \in Providers |-> "none"]]
    /\ room = [p \in Providers |-> << >>]
    /\ broken = {}

Message(type, from) == [type |-> type, from |-> from]

\* A message reaches everyone who has the room open when it is sent.
Announced(p, type, rooms) ==
    [q \in Providers |-> IF q # p /\ phase[q] \in {"joined", "ghost"}
                         THEN Append(rooms[q], Message(type, p)) ELSE rooms[q]]

Sent(p, q, type, rooms) ==
    IF phase[q] \in {"joined", "ghost"} THEN [rooms EXCEPT ![q] = Append(@, Message(type, p))]
    ELSE rooms

\* connect() up to the wallet's popup
BeginConnect(p) ==
    /\ phase[p] = "idle"
    /\ phase' = [phase EXCEPT ![p] = "popup"]
    /\ UNCHANGED <<entry, room, broken>>

\* The user signs: the provider joins the room, whether or not it still should.
WalletSigns(p) ==
    /\ phase[p] \in {"popup", "leaving"}
    /\ phase' = [phase EXCEPT ![p] = IF @ = "popup" THEN "joined" ELSE "ghost"]
    /\ room' = Announced(p, "announce", room)
    /\ UNCHANGED <<entry, broken>>

WalletRefuses(p) ==
    /\ phase[p] \in {"popup", "leaving"}
    /\ phase' = [phase EXCEPT ![p] = "rejected"]
    /\ UNCHANGED <<entry, room, broken>>

\* disconnect(): the address changed or the component is gone.
LeaveRoom(p) ==
    /\ phase[p] \in {"popup", "joined"}
    /\ phase' = [phase EXCEPT ![p] = IF @ = "popup" THEN "leaving" ELSE "left"]
    /\ entry' = [entry EXCEPT ![p] = [q \in Providers |-> "none"]]
    /\ room' = IF phase[p] = "joined"
               THEN [Announced(p, "bye", room) EXCEPT ![p] = << >>] ELSE room
    /\ UNCHANGED broken

HandleAnnounce(p, q, rooms) ==
    IF entry[p][q] # "none" THEN UNCHANGED entry /\ room' = rooms
    ELSE /\ entry' = [entry EXCEPT ![p][q] = IF p < q THEN "offering" ELSE "waiting"]
         /\ room' = Sent(p, q, "announce", rooms)

\* onSignal up to the first await of what it calls; a provider that left ignores it.
OnSignal(p) ==
    LET message == Head(room[p])
        q == message.from
        rest == [room EXCEPT ![p] = Tail(@)]
    IN
    /\ room[p] # << >>
    /\ IF phase[p] = "ghost" THEN UNCHANGED entry /\ room' = rest
       ELSE CASE message.type = "announce" -> HandleAnnounce(p, q, rest)
              [] message.type = "offer" ->
                     entry' = [entry EXCEPT ![p][q] = "answering"] /\ room' = rest
              [] message.type = "answer" ->
                     /\ entry' = IF entry[p][q] = "offered"
                                 THEN [entry EXCEPT ![p][q] = "described"] ELSE entry
                     /\ room' = rest
              [] message.type = "bye" ->
                     entry' = [entry EXCEPT ![p][q] = "none"] /\ room' = rest
    /\ UNCHANGED <<phase, broken>>

\* The description an await was for; there is none for a connection closed meanwhile.
Described(p, q) ==
    /\ \/ /\ entry[p][q] = "offering"
          /\ entry' = [entry EXCEPT ![p][q] = "offered"]
          /\ room' = Sent(p, q, "offer", room)
       \/ /\ entry[p][q] = "answering"
          /\ entry' = [entry EXCEPT ![p][q] = "described"]
          /\ room' = Sent(p, q, "answer", room)
    /\ UNCHANGED <<phase, broken>>

\* handlePeerGone: the connection fails, or the other end closed it.
PeerConnectionFails(p, q) ==
    /\ entry[p][q] = "described"
    /\ entry' = [entry EXCEPT ![p][q] = "none"]
    /\ broken' = broken \cup {{p, q}}
    /\ UNCHANGED <<phase, room>>

DiscoveryNext ==
    \/ \E p \in Providers : \/ BeginConnect(p) \/ WalletSigns(p) \/ WalletRefuses(p)
                            \/ LeaveRoom(p) \/ OnSignal(p)
    \/ \E p, q \in Providers : Described(p, q) \/ PeerConnectionFails(p, q)

DiscoverySpec == DiscoveryInit /\ [][DiscoveryNext]_roomVars
-----------------------------------------------------------------------------
RoomIsQuiet ==
    \A p \in Providers : room[p] = << >> /\ \A q \in Providers : entry[p][q] \notin {"offering", "answering"}

\* Two providers never make offers to each other, in whatever order their
\* announcements, the answers to them and the wallets' signatures come
\* (handleAnnounce: "Glare-free initiator selection").
GlareFree ==
    \A p, q \in Providers :
        entry[p][q] \in {"offering", "offered"} => entry[q][p] \notin {"offering", "offered"}

\* Once the room is quiet any two providers in it are connected, at both ends, unless
\* their connection failed.
JoinedMeet ==
    RoomIsQuiet => \A p, q \in Providers :
        p # q /\ phase[p] = "joined" /\ phase[q] = "joined" /\ {p, q} \notin broken
            => entry[p][q] = "described"

\* Two tabs that look for each other end up connected, once, and with one document, in
\* whatever order their messages are signed, sent and taken.
PeersMeetAndAgree == QuietPeersConverged /\ GlareFree /\ JoinedMeet
=============================================================================
