----------------------------- MODULE MeshGossip -----------------------------
(***************************************************************************)
(* The gossip mesh of browsers: how they connect, how messages spread, and *)
(* how neighbours are scored.                                              *)
(***************************************************************************)
EXTENDS EventLoop

-----------------------------------------------------------------------------
(***************************************************************************)
(* How the browsers of the gossip mesh find each other (frontend           *)
(* lib/mesh/webrtcTransport.ts): a tab announces itself once on a          *)
(* BroadcastChannel, and the tabs that hear it and have the lower peer     *)
(* identifier open a WebRTC connection to it.                              *)
(***************************************************************************)

CONSTANTS
    MeshPeers,      \* peer identifiers: numbers, compared as the strings are
    maxPeers

ASSUME MeshAssumption ==
    IsFiniteSet(MeshPeers) /\ MeshPeers \subseteq Nat /\ maxPeers \in Nat \ {0}

VARIABLES
    listening,      \* peers whose channel is open
    announced,
    connections,    \* per peer and remote peer, how far the connection is
    inbox,          \* signalling messages on their way, in order
    heard,          \* <<p, q>>: p was listening when q announced itself
    lost            \* pairs that gave a connection up: an error, a closed channel, a
                    \* missed heartbeat, or no room to offer it

meshVars == <<listening, announced, connections, inbox, heard, lost>>

Pair(p, q) == {p, q}
Signal(type, from) == [type |-> type, from |-> from]

MeshInit ==
    /\ listening = {}
    /\ announced = {}
    /\ connections = [p \in MeshPeers |-> [q \in MeshPeers |-> "none"]]
    /\ inbox = [p \in MeshPeers |-> << >>]
    /\ heard = {}
    /\ lost = {}

Connections(p) == {q \in MeshPeers : connections[p][q] # "none"}

\* initSignaling, in two steps: another tab may do the same in between.
Listen(p) ==
    /\ p \notin listening
    /\ listening' = listening \cup {p}
    /\ UNCHANGED <<announced, connections, inbox, heard, lost>>

Announce(p) ==
    LET others == listening \ {p} IN
    /\ p \in listening \ announced
    /\ announced' = announced \cup {p}
    /\ inbox' = [q \in MeshPeers |-> IF q \in others THEN Append(inbox[q], Signal("DISCOVER", p))
                                     ELSE inbox[q]]
    /\ heard' = heard \cup {<<q, p>> : q \in others}
    /\ UNCHANGED <<listening, connections, lost>>

Offers(p, q) ==
    /\ connections[p][q] = "none"
    /\ Cardinality(Connections(p)) < maxPeers
    /\ p < q

Crowded(p, q) ==
    connections[p][q] = "none" /\ Cardinality(Connections(p)) >= maxPeers /\ p < q

\* handleSignalingMessage up to the first await of what it calls
HandleSignal(p) ==
    LET signal == Head(inbox[p])
        q == signal.from
    IN
    /\ inbox[p] # << >>
    /\ inbox' = [inbox EXCEPT ![p] = Tail(@)]
    /\ connections' =
           CASE signal.type = "DISCOVER" /\ Offers(p, q) -> [connections EXCEPT ![p][q] = "offering"]
             [] signal.type = "OFFER" -> [connections EXCEPT ![p][q] = "answering"]
             [] signal.type = "ANSWER" /\ connections[p][q] = "offered"
                    -> [connections EXCEPT ![p][q] = "described"]
             [] OTHER -> connections
    /\ lost' = IF signal.type = "DISCOVER" /\ Crowded(p, q) THEN lost \cup {Pair(p, q)} ELSE lost
    /\ UNCHANGED <<listening, announced, heard>>

\* The description is ready and sent, or the browser throws and the entry is removed.
DescriptionReady(p, q, before, after, type) ==
    /\ connections[p][q] = before
    /\ \/ /\ connections' = [connections EXCEPT ![p][q] = after]
          /\ inbox' = [inbox EXCEPT ![q] = Append(@, Signal(type, p))]
          /\ UNCHANGED lost
       \/ /\ connections' = [connections EXCEPT ![p][q] = "none"]
          /\ lost' = lost \cup {Pair(p, q)}
          /\ UNCHANGED inbox
    /\ UNCHANGED <<listening, announced, heard>>

OfferReady(p, q) == DescriptionReady(p, q, "offering", "offered", "OFFER")
AnswerReady(p, q) == DescriptionReady(p, q, "answering", "described", "ANSWER")

\* Both descriptions are set at both ends: each end sees its data channel open.
ChannelOpens(p, q) ==
    /\ connections[p][q] = "described"
    /\ connections[q][p] \in {"described", "open"}
    /\ connections' = [connections EXCEPT ![p][q] = "open"]
    /\ UNCHANGED <<listening, announced, inbox, heard, lost>>

\* disconnectPeer: the connection fails, or three heartbeats are missed.
DisconnectPeer(p, q) ==
    /\ connections[p][q] \in {"described", "open"}
    /\ connections' = [connections EXCEPT ![p][q] = "none"]
    /\ lost' = lost \cup {Pair(p, q)}
    /\ UNCHANGED <<listening, announced, inbox, heard>>

MeshNext ==
    \/ \E p \in MeshPeers : Listen(p) \/ Announce(p) \/ HandleSignal(p)
    \/ \E p, q \in MeshPeers :
           OfferReady(p, q) \/ AnswerReady(p, q) \/ ChannelOpens(p, q) \/ DisconnectPeer(p, q)

MeshSpec == MeshInit /\ [][MeshNext]_meshVars
-----------------------------------------------------------------------------
NoSignals ==
    \A p \in MeshPeers :
        /\ inbox[p] = << >>
        /\ \A q \in MeshPeers : connections[p][q] \notin {"offering", "answering"}

\* Two tabs never offer to each other, even when each hears the other's announcement:
\* an entry is not replaced by the answering side of another one (handleOffer overwrites
\* what it finds).
OneSideOffers ==
    \A p, q \in MeshPeers :
        connections[p][q] \in {"offering", "offered"}
            => connections[q][p] \notin {"offering", "offered"}

\* Once signalling is quiet, a tab that was heard by one with a lower identifier is
\* connected to it, and the two ends agree, unless the pair gave the connection up.
NewcomersAreMet ==
    NoSignals => \A p, q \in MeshPeers :
        Pair(p, q) \notin lost =>
            /\ <<p, q>> \in heard /\ p < q => q \in Connections(p)
            /\ q \in Connections(p) <=> p \in Connections(q)

-----------------------------------------------------------------------------
(***************************************************************************)
(* The gossip of indexed events between browsers (frontend                 *)
(* lib/mesh/plumtreeEngine.ts over webrtcTransport.ts): messages are pushed*)
(* to eager neighbours and announced to lazy ones.  Peers are honest, so   *)
(* scoring refuses nobody (PeerScoring models it), and a message identifier*)
(* is not forgotten while copies of the message are about.                 *)
(***************************************************************************)

CONSTANTS
    Gossipers,
    Gossip,             \* messages, each published once
    targetEagerFanout,
    minEagerFanout,
    MaxDisconnects      \* bound

ASSUME PlumtreeAssumption == {targetEagerFanout, minEagerFanout, MaxDisconnects} \subseteq Nat

VARIABLES
    linked,             \* pairs of peers with an open data channel
    eagerNeighbors, lazyNeighbors,
    seenMessages,
    graftTimers,        \* per peer and message, the peer to graft, or None
    pendingIHave,
    wires,              \* per link end, messages on their way to the other end
    delivered,          \* per peer and message, times onDeliver was called
    disconnects

gossipVars == <<linked, eagerNeighbors, lazyNeighbors, seenMessages, graftTimers,
                pendingIHave, wires, delivered, disconnects>>

GossipInit ==
    /\ linked = {}
    /\ eagerNeighbors = [n \in Gossipers |-> {}]
    /\ lazyNeighbors = [n \in Gossipers |-> {}]
    /\ seenMessages = [n \in Gossipers |-> {}]
    /\ graftTimers = [n \in Gossipers |-> [m \in Gossip |-> None]]
    /\ pendingIHave = [n \in Gossipers |-> {}]
    /\ wires = [n \in Gossipers |-> [k \in Gossipers |-> << >>]]
    /\ delivered = [n \in Gossipers |-> [m \in Gossip |-> 0]]
    /\ disconnects = 0

\* sendToPeer, to each of a set of peers: a closed channel sends nothing.
SendAll(w, n, targets, message) ==
    [w EXCEPT ![n] = [k \in Gossipers |-> IF k \in targets /\ {n, k} \in linked
                                          THEN Append(w[n][k], message) ELSE w[n][k]]]

Data(m) == [type |-> "GOSSIP_DATA", ids |-> {m}]
IHave(ids) == [type |-> "IHAVE", ids |-> ids]
Control(type) == [type |-> type, ids |-> {}]

\* addPeer at the end n of a new link
AddsEager(n) == Cardinality(eagerNeighbors[n]) < targetEagerFanout

\* onopen at both ends
Link(n, k) ==
    LET newPeer(p) == IF p = n THEN {k} ELSE IF p = k THEN {n} ELSE {}
        known(p) == eagerNeighbors[p] \cup lazyNeighbors[p]
    IN
    /\ n # k /\ {n, k} \notin linked
    /\ linked' = linked \cup {{n, k}}
    /\ eagerNeighbors' = [p \in Gossipers |-> eagerNeighbors[p] \cup
           {x \in newPeer(p) : x \notin known(p) /\ AddsEager(p)}]
    /\ lazyNeighbors' = [p \in Gossipers |-> lazyNeighbors[p] \cup
           {x \in newPeer(p) : x \notin known(p) /\ ~ AddsEager(p)}]
    /\ UNCHANGED <<seenMessages, graftTimers, pendingIHave, wires, delivered, disconnects>>

\* What removePeer at the end p leaves, and whom its rebalancing may graft
Rebalanced(p, gone) ==
    LET lazy == lazyNeighbors[p] \ {gone} IN
    IF Cardinality(eagerNeighbors[p] \ {gone}) < minEagerFanout /\ lazy # {} THEN lazy ELSE {None}

\* The channel closes: disconnectPeer and removePeer at both ends.
Unlink(n, k) ==
    /\ {n, k} \in linked /\ n # k
    /\ disconnects < MaxDisconnects
    /\ disconnects' = disconnects + 1
    /\ linked' = linked \ {{n, k}}
    /\ \E x \in Rebalanced(n, k), y \in Rebalanced(k, n) :
           LET promoted(p) == (IF p = n THEN {x} ELSE IF p = k THEN {y} ELSE {}) \ {None}
               gone(p) == IF p = n THEN {k} ELSE IF p = k THEN {n} ELSE {}
               cut == [wires EXCEPT ![n][k] = << >>, ![k][n] = << >>]
           IN
           /\ eagerNeighbors' = [p \in Gossipers |-> (eagerNeighbors[p] \ gone(p)) \cup promoted(p)]
           /\ lazyNeighbors' = [p \in Gossipers |-> lazyNeighbors[p] \ (gone(p) \cup promoted(p))]
           /\ wires' = SendAll(SendAll(cut, n, promoted(n), Control("GRAFT")), k, promoted(k),
                               Control("GRAFT"))
    /\ UNCHANGED <<seenMessages, graftTimers, pendingIHave, delivered>>
-----------------------------------------------------------------------------
publishEvent(n, m) ==
    /\ \A k \in Gossipers : m \notin seenMessages[k]
    /\ seenMessages' = [seenMessages EXCEPT ![n] = @ \cup {m}]
    /\ wires' = SendAll(wires, n, eagerNeighbors[n], Data(m))
    /\ pendingIHave' = [pendingIHave EXCEPT ![n] = @ \cup {m}]
    /\ UNCHANGED <<linked, eagerNeighbors, lazyNeighbors, graftTimers, delivered, disconnects>>

\* handleGossipData: a new message is delivered and pushed on.
Novel(n, k, m, rest) ==
    LET eager == IF k \in lazyNeighbors[n] THEN eagerNeighbors[n] \cup {k} ELSE eagerNeighbors[n] IN
    /\ seenMessages' = [seenMessages EXCEPT ![n] = @ \cup {m}]
    /\ eagerNeighbors' = [eagerNeighbors EXCEPT ![n] = eager]
    /\ lazyNeighbors' = [lazyNeighbors EXCEPT ![n] = @ \ {k}]
    /\ delivered' = [delivered EXCEPT ![n][m] = IF @ < 2 THEN @ + 1 ELSE @]
    /\ wires' = SendAll(rest, n, eager \ {k}, Data(m))
    /\ pendingIHave' = [pendingIHave EXCEPT ![n] = @ \cup {m}]

\* ... and one that was seen prunes the link it came over.
Duplicate(n, k, rest) ==
    /\ UNCHANGED <<seenMessages, delivered, pendingIHave>>
    /\ IF k \in eagerNeighbors[n]
       THEN /\ eagerNeighbors' = [eagerNeighbors EXCEPT ![n] = @ \ {k}]
            /\ lazyNeighbors' = [lazyNeighbors EXCEPT ![n] = @ \cup {k}]
            /\ wires' = SendAll(rest, n, {k}, Control("PRUNE"))
       ELSE wires' = rest /\ UNCHANGED <<eagerNeighbors, lazyNeighbors>>

\* Mutant: a grafted peer stays in the lazy overlay.
OnGraft_StaysLazy(n, k) ==
    /\ lazyNeighbors' = lazyNeighbors
    /\ eagerNeighbors' = [eagerNeighbors EXCEPT ![n] = @ \cup {k}]

\* handleGraft: the message that was asked for is not sent.
OnGraft(n, k) ==
    /\ lazyNeighbors' = [lazyNeighbors EXCEPT ![n] = @ \ {k}]
    /\ eagerNeighbors' = [eagerNeighbors EXCEPT ![n] = @ \cup {k}]

OnPrune(n, k) ==
    IF k \in eagerNeighbors[n]
    THEN /\ eagerNeighbors' = [eagerNeighbors EXCEPT ![n] = @ \ {k}]
         /\ lazyNeighbors' = [lazyNeighbors EXCEPT ![n] = @ \cup {k}]
    ELSE UNCHANGED <<eagerNeighbors, lazyNeighbors>>

\* handleMessage, for the next message of the link from k to n
HandleMessage(n, k) ==
    LET msg == Head(wires[k][n])
        rest == [wires EXCEPT ![k][n] = Tail(@)]
        wanted == {m \in msg.ids : m \notin seenMessages[n] /\ graftTimers[n][m] = None}
    IN
    /\ wires[k][n] # << >>
    /\ UNCHANGED <<linked, disconnects>>
    /\ \/ /\ msg.type = "GOSSIP_DATA"
          /\ graftTimers' = [graftTimers EXCEPT ![n] =
                 [m \in Gossip |-> IF m \in msg.ids THEN None ELSE @[m]]]
          /\ \E m \in msg.ids : IF m \in seenMessages[n] THEN Duplicate(n, k, rest)
                                ELSE Novel(n, k, m, rest)
       \/ /\ msg.type = "IHAVE"
          /\ graftTimers' = [graftTimers EXCEPT ![n] =
                 [m \in Gossip |-> IF m \in wanted THEN k ELSE @[m]]]
          /\ wires' = rest
          /\ UNCHANGED <<eagerNeighbors, lazyNeighbors, seenMessages, pendingIHave, delivered>>
       \/ /\ msg.type \in {"GRAFT", "PRUNE"}
          /\ IF msg.type = "GRAFT" THEN OnGraft(n, k) ELSE OnPrune(n, k)
          /\ wires' = rest
          /\ UNCHANGED <<seenMessages, graftTimers, pendingIHave, delivered>>

\* The timer of handleIHave; removePeer does not clear it.
GraftTimer(n, m) ==
    LET k == graftTimers[n][m] IN
    /\ k # None
    /\ graftTimers' = [graftTimers EXCEPT ![n][m] = None]
    /\ IF m \in seenMessages[n] THEN UNCHANGED <<eagerNeighbors, lazyNeighbors, wires>>
       ELSE /\ lazyNeighbors' = [lazyNeighbors EXCEPT ![n] = @ \ {k}]
            /\ eagerNeighbors' = [eagerNeighbors EXCEPT ![n] = @ \cup {k}]
            /\ wires' = SendAll(wires, n, {k}, Control("GRAFT"))
    /\ UNCHANGED <<linked, seenMessages, pendingIHave, delivered, disconnects>>

IHaveLoop(n) ==
    /\ pendingIHave[n] # {} /\ lazyNeighbors[n] # {}
    /\ pendingIHave' = [pendingIHave EXCEPT ![n] = {}]
    /\ wires' = SendAll(wires, n, lazyNeighbors[n], IHave(pendingIHave[n]))
    /\ UNCHANGED <<linked, eagerNeighbors, lazyNeighbors, seenMessages, graftTimers, delivered,
                   disconnects>>

GossipNext ==
    \E n \in Gossipers :
        \/ \E m \in Gossip : publishEvent(n, m) \/ GraftTimer(n, m)
        \/ \E k \in Gossipers : Link(n, k) \/ Unlink(n, k) \/ HandleMessage(n, k)
        \/ IHaveLoop(n)

GossipSpec == GossipInit /\ [][GossipNext]_gossipVars
-----------------------------------------------------------------------------
\* No peer's indexer is given a message twice, along however many paths, grafts and
\* reconnections copies of it arrive (seenMessages).
DeliveredOnce == \A n \in Gossipers, m \in Gossip : delivered[n][m] <= 1

\* A peer has everyone it is linked to in exactly one of the overlays: no order of
\* prunes, grafts, timers and reconnections makes a link neither eager nor lazy, so that
\* nothing would be pushed or announced over it any more.
LinksAreUsed ==
    \A n, k \in Gossipers :
        {n, k} \in linked /\ n # k => (k \in eagerNeighbors[n]) # (k \in lazyNeighbors[n])

-----------------------------------------------------------------------------
(***************************************************************************)
(* The reputation a browser of the gossip mesh keeps of its neighbours     *)
(* (frontend lib/mesh/peerScoring.ts), as the transport and the Plumtree   *)
(* engine drive it.  Scores are in hundredths, as decayScores rounds them. *)
(***************************************************************************)

CONSTANTS
    Rated,              \* neighbours
    MaxRatings,         \* bound: messages and decays
    MaxScoreTime        \* bound: the clock, in minutes

ASSUME ScoringAssumption == {MaxRatings, MaxScoreTime} \subseteq Nat

validMessageReward == 500
duplicateMessagePenalty == 200
invalidMessagePenalty == 4000
byzantineAttackPenalty == 8000
quarantineThreshold == -2500
banThreshold == -5000
banDuration == 5

VARIABLES
    scoreTime,
    ratings,            \* messages and decays so far
    reputations         \* per neighbour, its record

scoreVars == <<scoreTime, ratings, reputations>>

ScoreInit ==
    /\ scoreTime = 0
    /\ ratings = 0
    /\ reputations = [p \in Rated |->
           [score |-> 0, isQuarantined |-> FALSE, isBanned |-> FALSE, banExpiry |-> 0]]

\* A ban that has expired is lifted when the record is next looked at.
getReputation(p) ==
    LET rep == reputations[p] IN
    IF rep.isBanned /\ scoreTime >= rep.banExpiry
    THEN [score |-> quarantineThreshold + 500, isQuarantined |-> FALSE,
          isBanned |-> FALSE, banExpiry |-> 0]
    ELSE rep

updateFlags(rep) ==
    IF rep.score <= banThreshold
    THEN [rep EXCEPT !.isBanned = TRUE, !.isQuarantined = TRUE,
                     !.banExpiry = scoreTime + banDuration]
    ELSE [rep EXCEPT !.isBanned = FALSE, !.isQuarantined = rep.score <= quarantineThreshold]

Clamped(score) == IF score > 10000 THEN 10000 ELSE IF score < -10000 THEN -10000 ELSE score

adjustScore(rep, delta) == updateFlags([rep EXCEPT !.score = Clamped(@ + delta)])

Rate(p, rep) ==
    /\ ratings < MaxRatings
    /\ ratings' = ratings + 1
    /\ reputations' = [reputations EXCEPT ![p] = rep]
    /\ UNCHANGED scoreTime

\* Mutant: messages of a banned neighbour are still rated.
Heeds_Everyone(rep) == TRUE

\* handleMessage hears nobody who is banned.
Heeds(rep) == ~ rep.isBanned

\* A gossiped event: new, seen before, malformed, or provably wrong.
RateEvent(p, delta) ==
    /\ delta \in {validMessageReward, -duplicateMessagePenalty,
                  -invalidMessagePenalty, -byzantineAttackPenalty}
    /\ Heeds(getReputation(p))
    /\ Rate(p, adjustScore(getReputation(p), delta))

\* Text that is not JSON is held against the neighbour before anything else.
Undecodable(p) == Rate(p, adjustScore(getReputation(p), -invalidMessagePenalty))

\* Math.round: halves are rounded towards plus infinity.
Rounded(n) == (n + 50) \div 100

Decayed(rep) == IF rep.isBanned THEN rep ELSE updateFlags([rep EXCEPT !.score = Rounded(@ * 95)])

\* A heartbeat: the bans of connected neighbours are looked at, then scores decay.
Heartbeat ==
    /\ ratings < MaxRatings
    /\ ratings' = ratings + 1
    /\ \E connected \in SUBSET Rated :
           reputations' = [p \in Rated |->
               Decayed(IF p \in connected THEN getReputation(p) ELSE reputations[p])]
    /\ UNCHANGED scoreTime

ScoreClock ==
    /\ scoreTime < MaxScoreTime
    /\ scoreTime' = scoreTime + 1
    /\ UNCHANGED <<ratings, reputations>>

ScoreNext ==
    \/ \E p \in Rated :
           \/ \E delta \in {validMessageReward, -duplicateMessagePenalty,
                            -invalidMessagePenalty, -byzantineAttackPenalty} : RateEvent(p, delta)
           \/ Undecodable(p)
    \/ Heartbeat \/ ScoreClock

ScoreSpec == ScoreInit /\ [][ScoreNext]_scoreVars
-----------------------------------------------------------------------------
\* A ban lasts its five minutes: nothing the neighbour sends in the meantime, and no
\* decay of its score, lifts it (recordValidMessage raises the score of whoever it is
\* called for and recomputes the flags; only the checks before it keep a ban in force).
BanLastsItsTerm ==
    [][\A p \in Rated :
          reputations[p].isBanned /\ scoreTime < reputations[p].banExpiry
              => reputations'[p].isBanned]_scoreVars

\* The flags are those of the score, through rewards, penalties, decay and the new start
\* of a neighbour whose ban is over, which is just above the quarantine (updateFlags is
\* called from each of them by hand).
FlagsFollowScore ==
    \A p \in Rated :
        LET rep == reputations[p] IN
        /\ rep.isBanned <=> rep.score <= banThreshold
        /\ rep.isQuarantined <=> rep.score <= quarantineThreshold

\* The mesh as a whole: one connection per pair that both ends know of, used by the
\* overlay in one way, bringing every message once, and judged by what came over it.
MeshIsSound ==
    /\ OneSideOffers /\ NewcomersAreMet
    /\ DeliveredOnce /\ LinksAreUsed
    /\ FlagsFollowScore
=============================================================================
