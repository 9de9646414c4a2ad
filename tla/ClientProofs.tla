---------------------------- MODULE ClientProofs ----------------------------
(***************************************************************************)
(* What a user of the frontend relies on, for any accounts, neighbours,    *)
(* slices, mutations, tabs and pages: the wallet session, the optimistic   *)
(* cache, the peers and the mesh, the offline store and its tabs, the page *)
(* that looks an account up, and the submissions of a page to the ledger.  *)
(***************************************************************************)
EXTENDS OptimisticCache, WalletSession, MeshGossip, PeerSync, OfflineStore, ClientFeeds,
        ContractCalls, SequenceTheorems, FiniteSetTheorems, TLAPS

-----------------------------------------------------------------------------
(***************************************************************************)
(* The wallet session for any accounts and any number of reloads: what a   *)
(* disconnection ends, what a reload goes back to, and whose key signs.    *)
(***************************************************************************)

\* What a disconnection leaves: neither a session, nor one to restore, nor a call that
\* could still bring one.
NothingPends ==
    /\ session = None /\ persisted = None
    /\ connecting = None /\ restoring = None

\* As long as nobody connects during a restore, the two never meet: a page that is
\* restoring has no session and no connection under way.
Apart ==
    ~ hasty =>
        /\ restoring # None => session = None /\ connecting = None /\ persisted = restoring
        /\ connecting # None => session = None

WalletInv ==
    /\ signedOut => NothingPends
    /\ Apart
    /\ SocialSessionSigns
    /\ SessionIsPersisted

\* The first state of the wallet session satisfies the invariant.
LEMMA WalletInitially == WalletInit => WalletInv
BY DEF WalletInit, WalletInv, NothingPends, Apart, SocialSessionSigns, SessionIsPersisted

\* Every step of the wallet session keeps it.
LEMMA WalletStep == WalletInv /\ [WalletNext]_walletVars => WalletInv'
<1> SUFFICES ASSUME WalletInv, [WalletNext]_walletVars PROVE WalletInv'
  OBVIOUS
<1> USE DEF WalletInv, NothingPends, Apart, SocialSessionSigns, SessionIsPersisted
<1>1. CASE Mount
  BY <1>1 DEF Mount, Restored
<1>2. CASE RestoreFreighter
  <2>1. PICK s \in {session} \cup {Wallet("freighter", a) : a \in WalletAccounts} :
            session' = s
    BY <1>2 DEF RestoreFreighter
  <2>2. CASE s = session
    BY <1>2, <2>1, <2>2 DEF RestoreFreighter
  <2>3. CASE \E a \in WalletAccounts : s = Wallet("freighter", a)
    BY <1>2, <2>1, <2>3 DEF RestoreFreighter, Wallet
  <2> QED
    BY <2>1, <2>2, <2>3
<1>3. CASE ClientReady
  BY <1>3 DEF ClientReady
<1>4. CASE RestoreSocial
  BY <1>4 DEF RestoreSocial
<1>5. ASSUME NEW p \in WalletProviders, ConnectWallet(p) PROVE WalletInv'
  BY <1>5 DEF ConnectWallet, MayConnect
<1>6. CASE ConnectionFails
  BY <1>6 DEF ConnectionFails
<1>7. ASSUME NEW a \in WalletAccounts, WalletConnects(a) PROVE WalletInv'
  <2>1. connecting # None /\ connecting # "web3auth"
    BY <1>7, WalletAssumption DEF WalletConnects, WalletProviders
  <2> QED
    BY <1>7, <2>1 DEF WalletConnects, SignedIn, Wallet, WalletProviders
<1>8. ASSUME NEW a \in WalletAccounts, SocialConnects(a) PROVE WalletInv'
  <2>1. connecting # None
    BY <1>8, WalletAssumption DEF SocialConnects, WalletProviders
  <2> QED
    BY <1>8, <2>1 DEF SocialConnects, SignedIn, Wallet
<1>9. CASE DisconnectWallet
  BY <1>9 DEF DisconnectWallet
<1>10. CASE LoggedOut
  BY <1>10 DEF LoggedOut
<1>11. CASE UNCHANGED walletVars
  BY <1>11 DEF walletVars
<1> QED
  BY <1>1, <1>2, <1>3, <1>4, <1>5, <1>6, <1>7, <1>8, <1>9, <1>10, <1>11 DEF WalletNext

\* So it always holds.
THEOREM WalletInvariant == WalletSpec => []WalletInv
  BY WalletInitially, WalletStep, PTL DEF WalletSpec

\* Who disconnects while nothing is pending has no session any more, after any number
\* of reloads, until asking for a connection again (disconnectWallet, restoreSession).
THEOREM DisconnectionsLast == WalletSpec => []DisconnectIsForGood
<1>1. WalletInv => DisconnectIsForGood
  BY DEF WalletInv, NothingPends, DisconnectIsForGood
<1> QED
  BY <1>1, WalletInvariant, PTL

\* A social session signs with the key of the address it shows, as long as nobody
\* connects while the page restores its session (restoreWeb3AuthSession).
THEOREM SocialSessionsSign == WalletSpec => []SocialSessionSigns
<1>1. WalletInv => SocialSessionSigns
  BY DEF WalletInv
<1> QED
  BY <1>1, WalletInvariant, PTL

\* The session of the page is the one a reload goes back to, as long as nobody connects
\* while the page restores its session (connectWallet, restoreSession).
THEOREM SessionsArePersisted == WalletSpec => []SessionIsPersisted
<1>1. WalletInv => SessionIsPersisted
  BY DEF WalletInv
<1> QED
  BY <1>1, WalletInvariant, PTL

\* A session is what it shows, for any accounts and any number of reloads.
THEOREM SessionStaysTheUsers == WalletSpec => []SessionIsTheUsers
<1>1. SocialSessionSigns /\ SessionIsPersisted /\ DisconnectIsForGood => SessionIsTheUsers
  BY DEF SessionIsTheUsers
<1> QED
  BY <1>1, SocialSessionsSign, SessionsArePersisted, DisconnectionsLast, PTL

-----------------------------------------------------------------------------
(***************************************************************************)
(* The scores of neighbours, for any number of neighbours, messages and    *)
(* decays: the flags go with the score, and so a ban lasts its term.       *)
(***************************************************************************)

PeerReputation ==
    [score : Int, isQuarantined : BOOLEAN, isBanned : BOOLEAN, banExpiry : Int]

\* A record whose flags are those of its score
Settled(rep) ==
    /\ rep \in PeerReputation
    /\ rep.isBanned <=> rep.score <= banThreshold
    /\ rep.isQuarantined <=> rep.score <= quarantineThreshold

ScoreInv ==
    /\ scoreTime \in Int
    /\ reputations \in [Rated -> PeerReputation]
    /\ FlagsFollowScore
-----------------------------------------------------------------------------
\* The reputation of a peer has flags that follow its score.
LEMMA InvSettles == ASSUME ScoreInv, NEW p \in Rated PROVE Settled(reputations[p])
  BY DEF ScoreInv, FlagsFollowScore, Settled

\* updateFlags leaves a reputation with flags that follow its score, and the score as it was.
LEMMA FlagsAreUpdated ==
    ASSUME scoreTime \in Int, NEW rep \in PeerReputation
    PROVE  Settled(updateFlags(rep)) /\ updateFlags(rep).score = rep.score
<1>1. CASE rep.score <= banThreshold
  <2> DEFINE end == scoreTime + banDuration
             new == [rep EXCEPT !.isBanned = TRUE, !.isQuarantined = TRUE,
                                !.banExpiry = end]
  <2>1. updateFlags(rep) = new
    BY <1>1, Zenon DEF updateFlags
  <2>2. end \in Int
    BY DEF banDuration
  <2> HIDE DEF end
  <2>3. new \in PeerReputation
    BY <2>2 DEF PeerReputation
  <2>4. new.score = rep.score /\ new.isBanned = TRUE /\ new.isQuarantined = TRUE
    BY DEF PeerReputation
  <2>5. rep.score <= quarantineThreshold /\ rep.score \in Int
    BY <1>1 DEF PeerReputation, banThreshold, quarantineThreshold
  <2> QED
    BY <1>1, <2>1, <2>3, <2>4, <2>5 DEF Settled
<1>2. CASE ~ rep.score <= banThreshold
  <2> DEFINE low == rep.score <= quarantineThreshold
             new == [rep EXCEPT !.isBanned = FALSE, !.isQuarantined = low]
  <2>1. updateFlags(rep) = new
    BY <1>2, Zenon DEF updateFlags
  <2>2. low \in BOOLEAN
    OBVIOUS
  <2> HIDE DEF low
  <2>3. new \in PeerReputation
    BY <2>2 DEF PeerReputation
  <2>4. new.score = rep.score /\ new.isBanned = FALSE /\ new.isQuarantined = low
    BY DEF PeerReputation
  <2>5. low <=> rep.score <= quarantineThreshold
    BY DEF low
  <2> HIDE DEF new
  <2>6. Settled(new)
    BY <1>2, <2>3, <2>4, <2>5, Zenon DEF Settled
  <2> QED
    BY <2>1, <2>4, <2>6
<1> QED
  BY <1>1, <1>2

\* adjustScore does so too, and bans who falls to the threshold.
LEMMA AdjustingSettles ==
    ASSUME scoreTime \in Int, NEW rep \in PeerReputation, NEW delta \in Int
    PROVE  /\ Settled(adjustScore(rep, delta))
           /\ delta < 0 /\ rep.score <= banThreshold => adjustScore(rep, delta).isBanned
<1> DEFINE moved == [rep EXCEPT !.score = Clamped(rep.score + delta)]
<1>1. Clamped(rep.score + delta) \in Int
  BY DEF Clamped, PeerReputation
<1>2. moved \in PeerReputation /\ moved.score = Clamped(rep.score + delta)
  BY <1>1 DEF PeerReputation
<1>3. adjustScore(rep, delta) = updateFlags(moved)
  BY DEF adjustScore
<1>4. Settled(updateFlags(moved)) /\ updateFlags(moved).score = moved.score
  BY <1>2, FlagsAreUpdated
<1>5. ASSUME delta < 0, rep.score <= banThreshold PROVE moved.score <= banThreshold
  BY <1>2, <1>5 DEF Clamped, banThreshold, PeerReputation
<1> QED
  BY <1>3, <1>4, <1>5 DEF Settled

\* getReputation lifts a ban that is over, and none that is not.
LEMMA LiftingSettles ==
    ASSUME ScoreInv, NEW p \in Rated
    PROVE  /\ Settled(getReputation(p))
           /\ reputations[p].isBanned /\ scoreTime < reputations[p].banExpiry
                  => getReputation(p) = reputations[p]
<1>1. Settled(reputations[p]) /\ scoreTime \in Int
  BY InvSettles DEF ScoreInv
<1> QED
  BY <1>1 DEF getReputation, Settled, PeerReputation, banThreshold, quarantineThreshold

\* Decay does so too, and leaves who is banned alone.
LEMMA DecaySettles ==
    ASSUME scoreTime \in Int, NEW rep, Settled(rep)
    PROVE  Settled(Decayed(rep)) /\ (rep.isBanned => Decayed(rep) = rep)
<1>1. CASE rep.isBanned
  BY <1>1 DEF Decayed
<1>2. CASE ~ rep.isBanned
  <2> DEFINE faded == [rep EXCEPT !.score = Rounded(rep.score * 95)]
  <2>1. Rounded(rep.score * 95) \in Int
    BY DEF Rounded, Settled, PeerReputation
  <2>2. faded \in PeerReputation
    BY <2>1 DEF Settled, PeerReputation
  <2>3. Decayed(rep) = updateFlags(faded)
    BY <1>2 DEF Decayed
  <2> QED
    BY <1>2, <2>2, <2>3, FlagsAreUpdated
<1> QED
  BY <1>1, <1>2

\* What a step makes of the record of one neighbour
Kept(p) ==
    /\ Settled(reputations'[p])
    /\ reputations[p].isBanned /\ scoreTime < reputations[p].banExpiry
           => reputations'[p].isBanned

\* Every step keeps the invariant, and keeps a ban until it is over.
LEMMA ScoreStep ==
    ASSUME ScoreInv, [ScoreNext]_scoreVars
    PROVE  ScoreInv' /\ \A p \in Rated : Kept(p)
<1>1. /\ scoreTime \in Int /\ reputations \in [Rated -> PeerReputation]
      /\ \A p \in Rated : Settled(reputations[p]) /\ Settled(getReputation(p))
  BY InvSettles, LiftingSettles DEF ScoreInv
<1>2. ASSUME scoreTime' \in Int, reputations' = [p \in Rated |-> reputations'[p]],
             \A p \in Rated : Kept(p)
      PROVE  ScoreInv' /\ \A p \in Rated : Kept(p)
  BY <1>2 DEF ScoreInv, FlagsFollowScore, Settled, Kept
<1>3. ASSUME NEW p \in Rated, NEW delta \in Int,
             Rate(p, adjustScore(getReputation(p), delta)),
             Heeds(getReputation(p)) \/ delta < 0
      PROVE  ScoreInv' /\ \A q \in Rated : Kept(q)
  <2>1. /\ scoreTime' = scoreTime
        /\ reputations' = [reputations EXCEPT ![p] = adjustScore(getReputation(p), delta)]
    BY <1>3 DEF Rate
  <2>2. getReputation(p) \in PeerReputation
    BY <1>1 DEF Settled
  <2>3. /\ Settled(adjustScore(getReputation(p), delta))
        /\ delta < 0 /\ getReputation(p).score <= banThreshold
               => adjustScore(getReputation(p), delta).isBanned
    BY <1>1, <2>2, AdjustingSettles
  <2>4. Kept(p)
    <3>1. ASSUME reputations[p].isBanned, scoreTime < reputations[p].banExpiry
          PROVE  reputations'[p].isBanned
      <4>1. getReputation(p) = reputations[p]
        BY <3>1, LiftingSettles
      <4>2. delta < 0
        BY <1>3, <3>1, <4>1 DEF Heeds
      <4> QED
        BY <1>1, <2>1, <2>3, <3>1, <4>1, <4>2 DEF Settled
    <3> QED
      BY <1>1, <2>1, <2>3, <3>1 DEF Kept
  <2>5. ASSUME NEW q \in Rated, q # p PROVE Kept(q)
    <3>1. reputations'[q] = reputations[q]
      BY <1>1, <2>1, <2>5
    <3>2. Settled(reputations[q])
      BY <1>1
    <3> QED
      BY <3>1, <3>2 DEF Kept
  <2>6. scoreTime' \in Int /\ reputations' = [q \in Rated |-> reputations'[q]]
    BY <1>1, <2>1
  <2> QED
    BY <1>2, <2>4, <2>5, <2>6
<1>4. ASSUME NEW p \in Rated,
             NEW delta \in {validMessageReward, -duplicateMessagePenalty,
                            -invalidMessagePenalty, -byzantineAttackPenalty},
             RateEvent(p, delta)
      PROVE  ScoreInv' /\ \A q \in Rated : Kept(q)
  <2>1. delta \in Int
    BY DEF validMessageReward, duplicateMessagePenalty, invalidMessagePenalty,
           byzantineAttackPenalty
  <2> QED
    BY <1>3, <1>4, <2>1 DEF RateEvent
<1>5. ASSUME NEW p \in Rated, Undecodable(p)
      PROVE  ScoreInv' /\ \A q \in Rated : Kept(q)
  <2>1. -invalidMessagePenalty \in Int /\ -invalidMessagePenalty < 0
    BY DEF invalidMessagePenalty
  <2> QED
    BY <1>3, <1>5, <2>1 DEF Undecodable
<1>6. CASE Heartbeat
  <2>1. PICK reached \in SUBSET Rated :
            reputations' = [p \in Rated |->
                Decayed(IF p \in reached THEN getReputation(p) ELSE reputations[p])]
    BY <1>6 DEF Heartbeat
  <2>2. scoreTime' = scoreTime
    BY <1>6 DEF Heartbeat
  <2>3. ASSUME NEW p \in Rated PROVE Kept(p)
    <3> DEFINE seen == IF p \in reached THEN getReputation(p) ELSE reputations[p]
    <3>1. Settled(seen) /\ reputations'[p] = Decayed(seen)
      BY <1>1, <2>1
    <3>2. Settled(Decayed(seen)) /\ (seen.isBanned => Decayed(seen) = seen)
      BY <1>1, <3>1, DecaySettles
    <3>3. reputations[p].isBanned /\ scoreTime < reputations[p].banExpiry
              => seen = reputations[p]
      BY LiftingSettles
    <3> QED
      BY <3>1, <3>2, <3>3 DEF Kept
  <2>4. scoreTime' \in Int /\ reputations' = [p \in Rated |-> reputations'[p]]
    BY <1>1, <2>1, <2>2
  <2> QED
    BY <1>2, <2>3, <2>4
<1>7. CASE ScoreClock \/ UNCHANGED scoreVars
  <2>1. scoreTime' \in Int /\ reputations' = reputations
    BY <1>1, <1>7 DEF ScoreClock, scoreVars
  <2>2. reputations' = [p \in Rated |-> reputations'[p]] /\ \A p \in Rated : Kept(p)
    BY <1>1, <2>1 DEF Kept
  <2> QED
    BY <1>2, <2>1, <2>2
<1> QED
  BY <1>4, <1>5, <1>6, <1>7 DEF ScoreNext

\* The first scores satisfy the invariant.
LEMMA ScoreInitially == ScoreInit => ScoreInv
  BY DEF ScoreInit, ScoreInv, FlagsFollowScore, PeerReputation, banThreshold,
         quarantineThreshold

\* So it always holds: flags follow scores.
THEOREM ScoreInvariant == ScoreSpec => []ScoreInv
<1>1. ScoreInv /\ [ScoreNext]_scoreVars => ScoreInv'
  BY ScoreStep
<1> QED
  BY <1>1, ScoreInitially, PTL DEF ScoreSpec

\* The flags are those of the score, through rewards, penalties, decay and the new start
\* after a ban (updateFlags, which every one of them calls by hand).
THEOREM FlagsAlwaysFollow == ScoreSpec => []FlagsFollowScore
<1>1. ScoreInv => FlagsFollowScore
  BY DEF ScoreInv
<1> QED
  BY <1>1, ScoreInvariant, PTL

\* A ban lasts its term: neither what the neighbour sends meanwhile nor the decay of its
\* score lifts it (handleMessage, decayScores).
THEOREM BansLast == ScoreSpec => BanLastsItsTerm
<1>1. ScoreInv /\ [ScoreNext]_scoreVars =>
          [\A p \in Rated :
              reputations[p].isBanned /\ scoreTime < reputations[p].banExpiry
                  => reputations'[p].isBanned]_scoreVars
  BY ScoreStep DEF Kept
<1> QED
  BY <1>1, ScoreInvariant, PTL DEF ScoreSpec, BanLastsItsTerm

-----------------------------------------------------------------------------
(***************************************************************************)
(* The queues of messages the peers and the mesh are made of.              *)
(***************************************************************************)

\* What waits in a queue.
Waiting(queue) == {queue[i] : i \in 1 .. Len(queue)}

\* What an append does to those who wait.
LEMMA WaitingAppend ==
    ASSUME NEW S, NEW queue \in Seq(S), NEW x \in S
    PROVE  /\ Append(queue, x) \in Seq(S)
           /\ Waiting(Append(queue, x)) = Waiting(queue) \cup {x}
  BY AppendProperties, LenProperties DEF Waiting

\* The one who is taken is the head, and the others go on waiting.
LEMMA WaitingTail ==
    ASSUME NEW S, NEW queue \in Seq(S), queue # << >>
    PROVE  /\ Head(queue) \in S /\ Tail(queue) \in Seq(S)
           /\ Waiting(queue) = Waiting(Tail(queue)) \cup {Head(queue)}
<1>1. /\ Head(queue) \in S /\ Tail(queue) \in Seq(S)
      /\ Len(queue) \in Nat \ {0} /\ Len(Tail(queue)) = Len(queue) - 1
      /\ \A i \in 1 .. Len(Tail(queue)) : Tail(queue)[i] = queue[i + 1]
      /\ Head(queue) = queue[1]
  BY HeadTailProperties, EmptySeq
<1>2. ASSUME NEW i \in 1 .. Len(queue), i # 1
      PROVE  i - 1 \in 1 .. Len(Tail(queue)) /\ Tail(queue)[i - 1] = queue[i]
  BY <1>1, <1>2
<1>3. Waiting(queue) \subseteq Waiting(Tail(queue)) \cup {Head(queue)}
  BY <1>1, <1>2 DEF Waiting
<1>4. Waiting(Tail(queue)) \cup {Head(queue)} \subseteq Waiting(queue)
  BY <1>1 DEF Waiting
<1> QED
  BY <1>1, <1>3, <1>4

\* Who waits is of the kind that is queued, and in an empty queue nobody does.
LEMMA WaitingBasics ==
    /\ \A S : \A queue \in Seq(S) : Waiting(queue) \subseteq S
    /\ Waiting(<< >>) = {}
    /\ \A S, x : x \in S => <<x>> \in Seq(S) /\ Waiting(<<x>>) = {x}
<1>1. ASSUME NEW S, NEW queue \in Seq(S) PROVE Waiting(queue) \subseteq S
  BY ElementOfSeq DEF Waiting
<1>2. Waiting(<< >>) = {}
  BY DEF Waiting
<1>3. ASSUME NEW S, NEW x \in S PROVE <<x>> \in Seq(S) /\ Waiting(<<x>>) = {x}
  BY DEF Waiting
<1> QED
  BY <1>1, <1>2, <1>3

-----------------------------------------------------------------------------
(***************************************************************************)
(* Two peers and their documents, for any edits and reconnections: every   *)
(* update is still on its way, or will be asked for, until it has arrived. *)
(***************************************************************************)

Frame == [kind : {"attest", "step1", "step2", "update"}, seq : Nat, body : SUBSET Edits]

PeerTypeOK ==
    /\ doc \in [Peers -> SUBSET Edits]
    /\ sendSeq \in [Peers -> Nat]
    /\ signing \in [Peers -> SUBSET Frame]
    /\ link \in [Peers -> Seq(Frame)]
    /\ dropped \in [Peers -> BOOLEAN]

\* The frames of p that its peer has not taken yet
Unread(p) == signing[p] \cup Waiting(link[p])

\* Nobody sends what it does not have: so a step 1 that is unread asks for all the peer
\* lacks when it is read, though more may have come since it was written.
FramesAreOfTheDoc == \A p \in Peers : \A frame \in Unread(p) : frame.body \subseteq doc[p]

\* An update that p has and q has not is in a frame q will read, or p will read a step 1
\* of q, unless a frame was rejected.
MissingIsOnItsWay ==
    \A p, q \in Peers : \A e \in doc[p] \ doc[q] :
        \/ \E frame \in Unread(p) : frame.kind \in {"step2", "update"} /\ e \in frame.body
        \/ \E frame \in Unread(q) : frame.kind = "step1"
        \/ dropped[p] \/ dropped[q]

PeerInv == PeerTypeOK /\ FramesAreOfTheDoc /\ MissingIsOnItsWay

\* The other end of the link is the only one there is.
LEMMA PeersAreTwo ==
    ASSUME NEW p \in Peers
    PROVE  Other(p) \in Peers /\ Other(p) # p /\ \A q \in Peers : q = p \/ q = Other(p)
<1>1. IsFiniteSet(Peers \ {p}) /\ Cardinality(Peers \ {p}) = 1
  BY PeerAssumption, FS_RemoveElement
<1>2. PICK x : Peers \ {p} = {x}
  BY <1>1, FS_Singleton
<1> QED
  BY <1>2 DEF Other

\* The first state of the two sessions satisfies the invariant.
LEMMA PeerInitially == PeerInit => PeerInv
<1> SUFFICES ASSUME PeerInit PROVE PeerInv
  OBVIOUS
<1>1. Attest \in Frame /\ [kind |-> "step1", seq |-> 1, body |-> {}] \in Frame
  BY DEF Attest, Frame
<1>2. <<Attest>> \in Seq(Frame) /\ Waiting(<<Attest>>) = {Attest}
  BY <1>1, WaitingBasics
<1>3. PeerTypeOK
  BY <1>1, <1>2 DEF PeerInit, PeerTypeOK
<1>4. FramesAreOfTheDoc
  BY <1>2 DEF PeerInit, FramesAreOfTheDoc, Unread, Attest
<1>5. MissingIsOnItsWay
  BY DEF PeerInit, MissingIsOnItsWay
<1> QED
  BY <1>3, <1>4, <1>5 DEF PeerInv

\* Steps that forget no unread frame, and send only what the documents have, keep the
\* invariant, if what they add to a document is sent or came from the other one.
LEMMA EditKeepsPeers ==
    ASSUME PeerInv, NEW p \in Peers, NEW e \in Edits, EditDoc(p, e)
    PROVE  PeerInv'
<1> DEFINE frame == [kind |-> "update", seq |-> sendSeq[p] + 1, body |-> {e}]
<1>0. PeerTypeOK /\ frame \in Frame
  <2>1. PeerTypeOK
    BY DEF PeerInv
  <2>2. frame \in Frame
    BY <2>1 DEF PeerTypeOK, Frame
  <2> QED
    BY <2>1, <2>2
<1>1. /\ doc' = [doc EXCEPT ![p] = @ \cup {e}]
      /\ signing' = [signing EXCEPT ![p] = @ \cup {frame}]
      /\ sendSeq' = [sendSeq EXCEPT ![p] = @ + 1]
      /\ link' = link /\ dropped' = dropped
  BY DEF EditDoc, Sends
<1>2. frame.kind = "update" /\ frame.body = {e}
  OBVIOUS
<1> HIDE DEF frame
<1>3. PeerTypeOK'
  BY <1>0, <1>1 DEF PeerTypeOK
<1>4. /\ Unread(p)' = Unread(p) \cup {frame} /\ doc'[p] = doc[p] \cup {e}
      /\ \A q \in Peers \ {p} : Unread(q)' = Unread(q) /\ doc'[q] = doc[q]
  BY <1>0, <1>1 DEF PeerTypeOK, Unread
<1>5. FramesAreOfTheDoc'
  BY <1>2, <1>4 DEF PeerInv, FramesAreOfTheDoc
<1>6. ASSUME NEW a \in Peers, NEW b \in Peers, NEW x \in doc'[a] \ doc'[b]
      PROVE  \/ \E f \in Unread(a)' : f.kind \in {"step2", "update"} /\ x \in f.body
             \/ \E f \in Unread(b)' : f.kind = "step1"
             \/ dropped'[a] \/ dropped'[b]
  <2>1. CASE a = p /\ x = e
    BY <1>2, <1>4, <2>1
  <2>2. CASE ~ (a = p /\ x = e)
    <3>1. x \in doc[a] \ doc[b] /\ Unread(a) \subseteq Unread(a)' /\ Unread(b) \subseteq Unread(b)'
      BY <1>4, <1>6, <2>2
    <3> QED
      BY <1>1, <3>1 DEF PeerInv, MissingIsOnItsWay
  <2> QED
    BY <2>1, <2>2
<1> QED
  BY <1>3, <1>5, <1>6 DEF PeerInv, MissingIsOnItsWay

\* A signature that ends puts its frame on the link: it stays unread.
LEMMA SignedKeepsPeers ==
    ASSUME PeerInv, NEW p \in Peers, NEW frame \in signing[p], Signed(p, frame)
    PROVE  PeerInv'
<1>1. /\ PeerTypeOK /\ frame \in Frame
      /\ signing' = [signing EXCEPT ![p] = @ \ {frame}]
      /\ link' = [link EXCEPT ![p] = Append(@, frame)]
      /\ UNCHANGED <<doc, sendSeq, dropped>>
  BY DEF Signed, PeerInv, PeerTypeOK
<1>2. /\ Append(link[p], frame) \in Seq(Frame)
      /\ Waiting(Append(link[p], frame)) = Waiting(link[p]) \cup {frame}
  BY <1>1, WaitingAppend DEF PeerTypeOK
<1>3. PeerTypeOK'
  BY <1>1, <1>2 DEF PeerTypeOK
<1>4. \A q \in Peers : Unread(q)' = Unread(q)
  BY <1>1, <1>2 DEF PeerTypeOK, Unread
<1> QED
  BY <1>1, <1>3, <1>4 DEF PeerInv, FramesAreOfTheDoc, MissingIsOnItsWay

\* The certificate is taken: it is no part of any document.
LEMMA AttestKeepsPeers ==
    ASSUME PeerInv, NEW p \in Peers, TakeAttest(p)
    PROVE  PeerInv'
<1> DEFINE q == Other(p)
           frame == Head(link[q])
<1>0. q \in Peers /\ q # p
  BY PeersAreTwo
<1>1. /\ PeerTypeOK /\ link[q] \in Seq(Frame) /\ link[q] # << >> /\ frame.kind = "attest"
      /\ link' = [link EXCEPT ![q] = Tail(@)]
      /\ UNCHANGED <<doc, sendSeq, signing>>
      /\ dropped' \in [Peers -> BOOLEAN] /\ \A a \in Peers : dropped[a] => dropped'[a]
  BY <1>0 DEF TakeAttest, PeerInv, PeerTypeOK
<1>2. /\ frame \in Frame /\ Tail(link[q]) \in Seq(Frame)
      /\ Waiting(link[q]) = Waiting(Tail(link[q])) \cup {frame}
  BY <1>1, WaitingTail
<1> HIDE DEF frame
<1>3. PeerTypeOK'
  BY <1>1, <1>2 DEF PeerTypeOK
<1>4. \A a \in Peers : \A f \in Unread(a) : f # frame => f \in Unread(a)'
  BY <1>0, <1>1, <1>2 DEF PeerTypeOK, Unread
<1>5. \A a \in Peers : Unread(a)' \subseteq Unread(a)
  BY <1>0, <1>1, <1>2 DEF PeerTypeOK, Unread
<1>6. FramesAreOfTheDoc'
  BY <1>1, <1>5 DEF PeerInv, FramesAreOfTheDoc
<1>7. MissingIsOnItsWay'
  BY <1>1, <1>4 DEF PeerInv, MissingIsOnItsWay
<1> QED
  BY <1>3, <1>6, <1>7 DEF PeerInv

\* A frame is taken: what a step 1 asks for is being signed, and what an update or a
\* step 2 brings is merged.
LEMMA FrameKeepsPeers ==
    ASSUME PeerInv, NEW p \in Peers, TakeFrame(p)
    PROVE  PeerInv'
<1> DEFINE q == Other(p)
           frame == Head(link[q])
           answer == [kind |-> "step2", seq |-> sendSeq[p] + 1, body |-> doc[p] \ frame.body]
<1>0. q \in Peers /\ q # p /\ \A a \in Peers : a = p \/ a = q
  BY PeersAreTwo
<1>1. /\ PeerTypeOK /\ link[q] \in Seq(Frame) /\ link[q] # << >>
      /\ link' = [link EXCEPT ![q] = Tail(@)]
  BY <1>0 DEF TakeFrame, PeerInv, PeerTypeOK
<1>2. /\ frame \in Frame /\ Tail(link[q]) \in Seq(Frame)
      /\ Waiting(link[q]) = Waiting(Tail(link[q])) \cup {frame}
  BY <1>1, WaitingTail
<1>3. frame \in Unread(q) /\ frame.body \subseteq doc[q]
  BY <1>0, <1>2 DEF Unread, PeerInv, FramesAreOfTheDoc
<1>4. \/ /\ ~ Accepts(p, frame)
         /\ dropped' = [dropped EXCEPT ![p] = TRUE] /\ UNCHANGED <<doc, sendSeq, signing>>
      \/ /\ frame.kind = "step1"
         /\ sendSeq' = [sendSeq EXCEPT ![p] = @ + 1]
         /\ signing' = [signing EXCEPT ![p] = @ \cup {answer}]
         /\ UNCHANGED <<doc, dropped>>
      \/ /\ frame.kind # "step1"
         /\ doc' = [doc EXCEPT ![p] = @ \cup frame.body]
         /\ UNCHANGED <<sendSeq, signing, dropped>>
  BY DEF TakeFrame, ReadSync, Sends
<1>5. answer \in Frame /\ answer.kind = "step2" /\ answer.body = doc[p] \ frame.body
  BY <1>1 DEF PeerTypeOK, Frame
<1>6. Unread(q) = {frame} \cup signing[q] \cup Waiting(Tail(link[q]))
  BY <1>2 DEF Unread
<1> HIDE DEF frame, answer
<1>7. frame.body \subseteq Edits
  BY <1>2 DEF Frame
<1>8. PeerTypeOK'
  <2>1. link' \in [Peers -> Seq(Frame)]
    BY <1>1, <1>2 DEF PeerTypeOK
  <2>2. doc' \in [Peers -> SUBSET Edits]
    BY <1>1, <1>4, <1>7 DEF PeerTypeOK
  <2>3. sendSeq' \in [Peers -> Nat]
    BY <1>1, <1>4 DEF PeerTypeOK
  <2>4. signing' \in [Peers -> SUBSET Frame]
    BY <1>1, <1>4, <1>5 DEF PeerTypeOK
  <2>5. dropped' \in [Peers -> BOOLEAN]
    BY <1>1, <1>4 DEF PeerTypeOK
  <2> QED
    BY <2>1, <2>2, <2>3, <2>4, <2>5 DEF PeerTypeOK
<1>9. CASE /\ dropped' = [dropped EXCEPT ![p] = TRUE] /\ UNCHANGED <<doc, sendSeq, signing>>
  <2>1. \A a \in Peers : Unread(a)' \subseteq Unread(a)
    BY <1>0, <1>1, <1>2, <1>9 DEF PeerTypeOK, Unread
  <2>2. FramesAreOfTheDoc'
    BY <1>9, <2>1 DEF PeerInv, FramesAreOfTheDoc
  <2>3. dropped'[p]
    BY <1>1, <1>9 DEF PeerTypeOK
  <2>4. MissingIsOnItsWay'
    BY <1>0, <1>9, <2>3 DEF MissingIsOnItsWay
  <2> QED
    BY <1>8, <2>2, <2>4 DEF PeerInv
<1>10. CASE /\ frame.kind = "step1"
            /\ signing' = [signing EXCEPT ![p] = @ \cup {answer}]
            /\ UNCHANGED <<doc, dropped>>
  <2>1. /\ Unread(p)' = Unread(p) \cup {answer}
        /\ Unread(q)' \subseteq Unread(q)
        /\ \A f \in Unread(q) : f # frame => f \in Unread(q)'
    BY <1>0, <1>1, <1>2, <1>10 DEF PeerTypeOK, Unread
  <2>2. FramesAreOfTheDoc'
    BY <1>0, <1>5, <1>10, <2>1 DEF PeerInv, FramesAreOfTheDoc
  <2>3. ASSUME NEW x \in doc[p] \ doc[q]
        PROVE  \E f \in Unread(p)' : f.kind \in {"step2", "update"} /\ x \in f.body
    BY <1>3, <1>5, <2>1, <2>3
  <2>4. ASSUME NEW x \in doc[q] \ doc[p]
        PROVE  \/ \E f \in Unread(q)' : f.kind \in {"step2", "update"} /\ x \in f.body
               \/ \E f \in Unread(p)' : f.kind = "step1"
               \/ dropped[p] \/ dropped[q]
    BY <1>0, <1>10, <2>1, <2>4 DEF PeerInv, MissingIsOnItsWay
  <2>5. MissingIsOnItsWay'
    BY <1>0, <1>10, <2>3, <2>4 DEF MissingIsOnItsWay
  <2> QED
    BY <1>8, <2>2, <2>5 DEF PeerInv
<1>11. CASE /\ frame.kind # "step1"
            /\ doc' = [doc EXCEPT ![p] = @ \cup frame.body]
            /\ UNCHANGED <<sendSeq, signing, dropped>>
  <2>1. /\ Unread(p)' = Unread(p)
        /\ Unread(q)' \subseteq Unread(q)
        /\ \A f \in Unread(q) : f # frame => f \in Unread(q)'
        /\ doc'[p] = doc[p] \cup frame.body /\ doc'[q] = doc[q]
    BY <1>0, <1>1, <1>2, <1>11 DEF PeerTypeOK, Unread
  <2>2. FramesAreOfTheDoc'
    BY <1>0, <2>1 DEF PeerInv, FramesAreOfTheDoc
  <2>3. ASSUME NEW x \in doc'[p] \ doc'[q]
        PROVE  \/ \E f \in Unread(p)' : f.kind \in {"step2", "update"} /\ x \in f.body
               \/ \E f \in Unread(q)' : f.kind = "step1"
               \/ dropped'[p] \/ dropped'[q]
    <3>1. x \in doc[p] \ doc[q]
      BY <1>3, <2>1, <2>3
    <3> QED
      BY <1>0, <1>11, <2>1, <3>1 DEF PeerInv, MissingIsOnItsWay
  <2>4. ASSUME NEW x \in doc'[q] \ doc'[p]
        PROVE  \/ \E f \in Unread(q)' : f.kind \in {"step2", "update"} /\ x \in f.body
               \/ \E f \in Unread(p)' : f.kind = "step1"
               \/ dropped'[p] \/ dropped'[q]
    <3>1. x \in doc[q] \ doc[p] /\ x \notin frame.body
      BY <2>1, <2>4
    <3> QED
      BY <1>0, <1>11, <2>1, <3>1 DEF PeerInv, MissingIsOnItsWay
  <2>5. MissingIsOnItsWay'
    BY <1>0, <2>3, <2>4 DEF MissingIsOnItsWay
  <2> QED
    BY <1>8, <2>2, <2>5 DEF PeerInv
<1> QED
  BY <1>4, <1>9, <1>10, <1>11

\* A new pair of sessions begins with the question that covers all that is missing.
LEMMA ReconnectKeepsPeers ==
    ASSUME PeerInv, Reconnect
    PROVE  PeerInv'
<1>1. /\ PeerTypeOK /\ doc' = doc /\ sendSeq' = [p \in Peers |-> 1]
      /\ signing' = [p \in Peers |-> {FreshSession(p)}]
      /\ link' = [p \in Peers |-> <<Attest>>]
      /\ dropped' = [p \in Peers |-> FALSE]
  BY DEF Reconnect, PeerInv
<1>2. /\ Attest \in Frame /\ Attest.body = {}
      /\ \A p \in Peers : /\ FreshSession(p) \in Frame
                          /\ FreshSession(p).kind = "step1" /\ FreshSession(p).body = doc[p]
  BY <1>1 DEF Attest, FreshSession, Frame, PeerTypeOK
<1>3. <<Attest>> \in Seq(Frame) /\ Waiting(<<Attest>>) = {Attest}
  BY <1>2, WaitingBasics
<1>4. PeerTypeOK'
  BY <1>1, <1>2, <1>3 DEF PeerTypeOK
<1>5. \A p \in Peers : Unread(p)' = {FreshSession(p), Attest}
  BY <1>1, <1>3 DEF Unread
<1>6. FramesAreOfTheDoc'
  BY <1>1, <1>2, <1>5 DEF FramesAreOfTheDoc
<1>7. MissingIsOnItsWay'
  BY <1>2, <1>5 DEF MissingIsOnItsWay
<1> QED
  BY <1>4, <1>6, <1>7 DEF PeerInv

\* So every step of the two sessions keeps it.
LEMMA PeerStep == PeerInv /\ [PeerNext]_peerVars => PeerInv'
<1> SUFFICES ASSUME PeerInv, [PeerNext]_peerVars PROVE PeerInv'
  OBVIOUS
<1>1. CASE AttestationsExpire \/ UNCHANGED peerVars
  BY <1>1 DEF AttestationsExpire, peerVars, PeerInv, PeerTypeOK, FramesAreOfTheDoc,
              MissingIsOnItsWay, Unread
<1> QED
  BY <1>1, EditKeepsPeers, SignedKeepsPeers, AttestKeepsPeers, FrameKeepsPeers,
     ReconnectKeepsPeers DEF PeerNext

\* Two documents whose peers have nothing left to read are equal, unless a session rejected
\* a frame: whatever was edited before, during and between the sessions, and in whatever
\* order the signatures end (SyncSession).
THEOREM PeersConverge == PeerSpec => []QuietPeersConverged
<1>1. PeerInv => QuietPeersConverged
  <2> SUFFICES ASSUME PeerInv, Quiet, \A p \in Peers : ~ dropped[p],
                      NEW p \in Peers, NEW q \in Peers
               PROVE  doc[p] = doc[q]
    BY DEF QuietPeersConverged
  <2>1. \A a \in Peers : Unread(a) = {}
    BY WaitingBasics DEF Quiet, Unread
  <2>2. doc[p] \subseteq doc[q] /\ doc[q] \subseteq doc[p]
    BY <2>1 DEF PeerInv, MissingIsOnItsWay
  <2> QED
    BY <2>2
<1> QED
  BY <1>1, PeerInitially, PeerStep, PTL DEF PeerSpec

-----------------------------------------------------------------------------
(***************************************************************************)
(* How any number of providers of a room find each other, in whatever      *)
(* order their messages are signed, posted and read.                       *)
(***************************************************************************)

\* What is posted in a room
RoomMessage == [type : {"announce", "offer", "answer", "bye"}, from : Providers]

DiscoveryTypeOK ==
    /\ phase \in [Providers -> {"idle", "popup", "joined", "left", "rejected", "leaving", "ghost"}]
    /\ entry \in [Providers -> [Providers ->
           {"none", "waiting", "offering", "offered", "answering", "described"}]]
    /\ room \in [Providers -> Seq(RoomMessage)]

\* p has a message of q to read
Hears(p, type, q) == Message(type, q) \in Waiting(room[p])

\* Nobody knows of a provider that never joined, and it knows of nobody.
Stranger(p) ==
    /\ room[p] = << >>
    /\ \A q \in Providers :
           /\ entry[p][q] = "none" /\ entry[q][p] = "none"
           /\ \A message \in Waiting(room[q]) : message.from # p

StrangersAreUnknown ==
    \A p \in Providers : phase[p] \in {"idle", "popup", "leaving", "rejected"} => Stranger(p)

ByesAreOfThoseWhoLeft == \A p, q \in Providers : Hears(p, "bye", q) => phase[q] = "left"

\* Only the lower identifier of a pair makes an offer.
LowerOffers ==
    \A p, q \in Providers :
        /\ entry[p][q] \in {"offering", "offered"} => p < q
        /\ entry[p][q] \in {"waiting", "answering"} => ~ (p < q)
        /\ Hears(p, "offer", q) => q < p

\* How far p, which is to make the offer, and q are: one side has an announcement of the
\* other to read until the offer is being made, and from then on the two entries follow
\* each other by the messages between them.
Negotiates(p, q) ==
    /\ entry[p][q] = "none" =>
           \/ Hears(p, "announce", q)
           \/ Hears(q, "announce", p) /\ entry[q][p] = "none"
    /\ entry[p][q] = "offered" =>
           \/ Hears(q, "offer", p) \/ entry[q][p] = "answering"
           \/ Hears(p, "answer", q) /\ entry[q][p] = "described"
    /\ Hears(q, "offer", p) \/ Hears(p, "answer", q) \/ entry[q][p] \in {"answering", "described"}
           => entry[p][q] \in {"offered", "described"}
    /\ Hears(p, "answer", q) \/ entry[p][q] = "described"
           => entry[q][p] \in {"answering", "described"}

PairsNegotiate ==
    \A p, q \in Providers :
        p < q /\ phase[p] = "joined" /\ phase[q] = "joined" /\ {p, q} \notin broken
            => Negotiates(p, q)

DiscoveryInv ==
    /\ DiscoveryTypeOK
    /\ StrangersAreUnknown /\ ByesAreOfThoseWhoLeft /\ LowerOffers /\ PairsNegotiate

\* Messages are equal when their type and sender are.
LEMMA MessagesDiffer ==
    \A t, u, p, q : Message(t, p) = Message(u, q) <=> t = u /\ p = q
<1> SUFFICES ASSUME NEW t, NEW u, NEW p, NEW q, Message(t, p) = Message(u, q)
             PROVE  t = u /\ p = q
  OBVIOUS
<1>1. Message(t, p).type = t /\ Message(t, p).from = p
  BY DEF Message
<1>2. Message(u, q).type = u /\ Message(u, q).from = q
  BY DEF Message
<1> QED
  BY <1>1, <1>2

\* Where a message that is sent arrives
Open(x) == phase[x] \in {"joined", "ghost"}

\* The rooms after a message was put into some of them
Posted(after, rooms, to, message) ==
    /\ after \in [Providers -> Seq(RoomMessage)]
    /\ \A x \in to : Waiting(after[x]) = Waiting(rooms[x]) \cup {message}
    /\ \A x \in Providers \ to : after[x] = rooms[x]

\* A message that is sent to one waits there, if the room is open there.
LEMMA SentIsHeard ==
    ASSUME NEW rooms, rooms \in [Providers -> Seq(RoomMessage)],
           NEW p, p \in Providers, NEW q, q \in Providers,
           NEW type, type \in {"announce", "offer", "answer", "bye"}
    PROVE  Posted(Sent(p, q, type, rooms), rooms, {x \in {q} : Open(x)}, Message(type, p))
<1>1. Message(type, p) \in RoomMessage
  BY DEF Message, RoomMessage
<1>2. /\ Append(rooms[q], Message(type, p)) \in Seq(RoomMessage)
      /\ Waiting(Append(rooms[q], Message(type, p))) = Waiting(rooms[q]) \cup {Message(type, p)}
  BY <1>1, WaitingAppend
<1> QED
  BY <1>2 DEF Sent, Open, Posted

\* One that is sent to all waits wherever the room is open, but not at its sender's.
LEMMA AnnouncedIsHeard ==
    ASSUME NEW rooms, rooms \in [Providers -> Seq(RoomMessage)],
           NEW p, p \in Providers,
           NEW type, type \in {"announce", "offer", "answer", "bye"}
    PROVE  Posted(Announced(p, type, rooms), rooms, {x \in Providers : x # p /\ Open(x)},
                  Message(type, p))
<1>1. Message(type, p) \in RoomMessage
  BY DEF Message, RoomMessage
<1>2. \A x \in Providers :
          /\ Append(rooms[x], Message(type, p)) \in Seq(RoomMessage)
          /\ Waiting(Append(rooms[x], Message(type, p))) = Waiting(rooms[x]) \cup {Message(type, p)}
  BY <1>1, WaitingAppend
<1> QED
  BY <1>2 DEF Announced, Open, Posted

\* The first state of the room satisfies the invariant.
LEMMA DiscoveryInitially == DiscoveryInit => DiscoveryInv
<1> SUFFICES ASSUME DiscoveryInit PROVE DiscoveryInv
  OBVIOUS
<1>1. \A p \in Providers : room[p] = << >> /\ Waiting(room[p]) = {} /\ phase[p] = "idle"
  BY WaitingBasics DEF DiscoveryInit
<1>2. << >> \in Seq(RoomMessage)
  OBVIOUS
<1>3. \A p, q \in Providers : entry[p][q] = "none"
  BY DEF DiscoveryInit
<1>4. DiscoveryTypeOK
  BY <1>2 DEF DiscoveryInit, DiscoveryTypeOK
<1> QED
  BY <1>1, <1>3, <1>4 DEF DiscoveryInv, StrangersAreUnknown, Stranger, ByesAreOfThoseWhoLeft,
     LowerOffers, PairsNegotiate, Hears

\* Connecting up to the wallet's question, and its refusal, keep the invariant.
LEMMA PopupKeepsRoom ==
    ASSUME DiscoveryInv, NEW p \in Providers, BeginConnect(p) \/ WalletRefuses(p)
    PROVE  DiscoveryInv'
<1> USE DEF DiscoveryInv, BeginConnect, WalletRefuses
<1>1. DiscoveryTypeOK'
  BY DEF DiscoveryTypeOK
<1>2. /\ phase[p] \in {"idle", "popup", "leaving"} /\ phase'[p] \in {"popup", "rejected"}
      /\ \A q \in Providers \ {p} : phase'[q] = phase[q]
  BY DEF DiscoveryTypeOK
<1>3. StrangersAreUnknown'
  BY <1>2 DEF StrangersAreUnknown, Stranger
<1>4. ByesAreOfThoseWhoLeft'
  BY <1>2 DEF ByesAreOfThoseWhoLeft, Hears
<1>5. LowerOffers'
  BY DEF LowerOffers, Hears
<1>6. PairsNegotiate'
  BY <1>2 DEF PairsNegotiate, Negotiates, Hears
<1> QED
  BY <1>1, <1>3, <1>4, <1>5, <1>6

\* The wallet's signature does: a provider that joins is a stranger whom all hear of.
LEMMA SignatureKeepsRoom ==
    ASSUME DiscoveryInv, NEW p \in Providers, WalletSigns(p)
    PROVE  DiscoveryInv'
<1> USE DEF DiscoveryInv
<1>1. /\ phase[p] \in {"popup", "leaving"} /\ phase'[p] \in {"joined", "ghost"}
      /\ \A q \in Providers \ {p} : phase'[q] = phase[q]
      /\ room' = Announced(p, "announce", room) /\ entry' = entry /\ broken' = broken
      /\ phase' \in [Providers ->
             {"idle", "popup", "joined", "left", "rejected", "leaving", "ghost"}]
  BY DEF WalletSigns, DiscoveryTypeOK
<1>2. /\ room' \in [Providers -> Seq(RoomMessage)]
      /\ \A x \in Providers : \A m : m \in Waiting(room'[x]) <=>
             m \in Waiting(room[x]) \/ (x # p /\ Open(x) /\ m = Message("announce", p))
      /\ \A x \in Providers : ~ (x # p /\ Open(x)) => room'[x] = room[x]
  <2>1. room \in [Providers -> Seq(RoomMessage)]
    BY DEF DiscoveryTypeOK
  <2>2. Posted(Announced(p, "announce", room), room, {x \in Providers : x # p /\ Open(x)},
               Message("announce", p))
    BY <2>1, AnnouncedIsHeard
  <2> QED
    BY <1>1, <2>2 DEF Posted
<1>3. DiscoveryTypeOK'
  BY <1>1, <1>2 DEF DiscoveryTypeOK
<1>4. Stranger(p)
  BY <1>1 DEF StrangersAreUnknown
<1>5. StrangersAreUnknown'
  <2> SUFFICES ASSUME NEW s \in Providers,
                      phase'[s] \in {"idle", "popup", "leaving", "rejected"}
               PROVE  Stranger(s)'
    BY DEF StrangersAreUnknown
  <2>1. s # p /\ Stranger(s) /\ room'[s] = room[s]
    BY <1>1, <1>2 DEF StrangersAreUnknown, Open
  <2>2. Message("announce", p).from = p
    BY DEF Message
  <2> QED
    BY <1>1, <1>2, <2>1, <2>2 DEF Stranger
<1>6. /\ \A x, y \in Providers : \A t : Hears(x, t, y)' <=>
             Hears(x, t, y) \/ (t = "announce" /\ y = p /\ x # p /\ Open(x))
      /\ \A x \in Providers : \A t : ~ Hears(x, t, p) /\ ~ Hears(p, t, x)
  <2>1. \A x, y \in Providers : \A t : Hears(x, t, y)' <=>
            Hears(x, t, y) \/ (t = "announce" /\ y = p /\ x # p /\ Open(x))
    BY <1>2, MessagesDiffer DEF Hears
  <2>2. \A t, y : Message(t, y).from = y
    BY DEF Message
  <2>3. \A x \in Providers : \A t : ~ Hears(x, t, p)
    BY <1>4, <2>2 DEF Hears, Stranger
  <2>4. \A x \in Providers : \A t : ~ Hears(p, t, x)
    BY <1>4, WaitingBasics DEF Hears, Stranger
  <2> QED
    BY <2>1, <2>3, <2>4
<1>7. ByesAreOfThoseWhoLeft'
  BY <1>1, <1>6 DEF ByesAreOfThoseWhoLeft
<1>8. LowerOffers'
  BY <1>1, <1>6 DEF LowerOffers
<1>9. ASSUME NEW a \in Providers, NEW b \in Providers, a < b,
             phase'[a] = "joined", phase'[b] = "joined", {a, b} \notin broken
      PROVE  Negotiates(a, b)'
  <2>1. CASE a # p /\ b # p
    BY <1>1, <1>6, <1>9, <2>1 DEF PairsNegotiate, Negotiates
  <2>2. CASE a = p \/ b = p
    <3>1. a # b /\ entry[a][b] = "none" /\ entry[b][a] = "none"
      <4>1. a \in Nat /\ b \in Nat /\ a < b
        BY <1>9, DiscoveryAssumption
      <4>2. entry[a][b] = "none" /\ entry[b][a] = "none"
        BY <1>4, <2>2 DEF Stranger
      <4> QED
        BY <4>1, <4>2
    <3>2. Hears(b, "announce", a)' \/ Hears(a, "announce", b)'
      BY <1>1, <1>6, <1>9, <2>2, <3>1 DEF Open
    <3>3. ~ Hears(b, "offer", a)' /\ ~ Hears(a, "answer", b)'
      BY <1>6, <2>2
    <3> QED
      BY <1>1, <3>1, <3>2, <3>3 DEF Negotiates
  <2> QED
    BY <2>1, <2>2
<1> QED
  BY <1>1, <1>3, <1>5, <1>7, <1>8, <1>9 DEF PairsNegotiate

\* Leaving does: what is said of it is said by those who are still there.
LEMMA LeavingKeepsRoom ==
    ASSUME DiscoveryInv, NEW p \in Providers, LeaveRoom(p)
    PROVE  DiscoveryInv'
<1> USE DEF DiscoveryInv
<1> DEFINE rooms == Announced(p, "bye", room)
<1>1. /\ \/ phase[p] = "popup" /\ phase'[p] = "leaving" /\ room' = room
         \/ phase[p] = "joined" /\ phase'[p] = "left" /\ room' = [rooms EXCEPT ![p] = << >>]
      /\ \A q \in Providers \ {p} : phase'[q] = phase[q]
      /\ entry' = [entry EXCEPT ![p] = [q \in Providers |-> "none"]] /\ broken' = broken
      /\ phase' \in [Providers ->
             {"idle", "popup", "joined", "left", "rejected", "leaving", "ghost"}]
  BY DEF LeaveRoom, DiscoveryTypeOK
<1>0. rooms = Announced(p, "bye", room)
  OBVIOUS
<1> HIDE DEF rooms
<1>2. /\ rooms \in [Providers -> Seq(RoomMessage)]
      /\ \A x \in Providers : \A m : m \in Waiting(rooms[x]) <=>
             m \in Waiting(room[x]) \/ (x # p /\ Open(x) /\ m = Message("bye", p))
      /\ \A x \in Providers : ~ (x # p /\ Open(x)) => rooms[x] = room[x]
  <2>1. room \in [Providers -> Seq(RoomMessage)]
    BY DEF DiscoveryTypeOK
  <2>2. Posted(rooms, room, {x \in Providers : x # p /\ Open(x)}, Message("bye", p))
    BY <1>0, <2>1, AnnouncedIsHeard
  <2> QED
    BY <2>2 DEF Posted
<1>3. /\ room' \in [Providers -> Seq(RoomMessage)]
      /\ \A x \in Providers \ {p} :
             /\ Waiting(room'[x]) \subseteq Waiting(room[x]) \cup {Message("bye", p)}
             /\ Waiting(room[x]) \subseteq Waiting(room'[x])
             /\ ~ Open(x) => room'[x] = room[x]
      /\ phase[p] = "popup" => room' = room
      /\ Waiting(room'[p]) \subseteq Waiting(room[p])
  <2>1. CASE room' = room /\ phase[p] # "joined"
    BY <2>1 DEF DiscoveryTypeOK
  <2>2. CASE room' = [rooms EXCEPT ![p] = << >>] /\ phase[p] = "joined"
    <3>1. /\ room' \in [Providers -> Seq(RoomMessage)] /\ room'[p] = << >>
          /\ \A x \in Providers \ {p} : room'[x] = rooms[x]
      BY <1>2, <2>2
    <3> QED
      BY <1>2, <2>2, <3>1, WaitingBasics
  <2> QED
    BY <1>1, <2>1, <2>2
<1>4. /\ \A q \in Providers : entry'[p][q] = "none"
      /\ \A x \in Providers \ {p} : \A q \in Providers : entry'[x][q] = entry[x][q]
  BY <1>1 DEF DiscoveryTypeOK
<1>5. DiscoveryTypeOK'
  BY <1>1, <1>3 DEF DiscoveryTypeOK
<1>6. StrangersAreUnknown'
  <2> SUFFICES ASSUME NEW s \in Providers,
                      phase'[s] \in {"idle", "popup", "leaving", "rejected"}
               PROVE  Stranger(s)'
    BY DEF StrangersAreUnknown
  <2>1. Stranger(s) /\ room'[s] = room[s]
    BY <1>1, <1>3 DEF StrangersAreUnknown, Open
  <2>2. ASSUME NEW q \in Providers, NEW m \in Waiting(room'[q]) PROVE m.from # s
    <3>1. CASE s = p
      BY <1>1, <2>1, <3>1, <2>2 DEF Stranger
    <3>2. CASE s # p
      <4>1. Message("bye", p).from = p
        BY DEF Message
      <4> QED
        BY <1>3, <2>1, <2>2, <3>2, <4>1 DEF Stranger
    <3> QED
      BY <3>1, <3>2
  <2> QED
    BY <1>4, <2>1, <2>2 DEF Stranger
<1>7. /\ \A x, y \in Providers : \A t : Hears(x, t, y)' =>
             Hears(x, t, y) \/ (t = "bye" /\ y = p /\ phase'[p] = "left")
      /\ \A x, y \in Providers : \A t : x # p /\ Hears(x, t, y) => Hears(x, t, y)'
  BY <1>1, <1>3, MessagesDiffer DEF Hears
<1>8. ByesAreOfThoseWhoLeft'
  BY <1>1, <1>7 DEF ByesAreOfThoseWhoLeft
<1>9. LowerOffers'
  BY <1>4, <1>7 DEF LowerOffers
<1>10. PairsNegotiate'
  <2> SUFFICES ASSUME NEW a \in Providers, NEW b \in Providers, a < b,
                      phase'[a] = "joined", phase'[b] = "joined", {a, b} \notin broken
               PROVE  Negotiates(a, b)'
    BY <1>1 DEF PairsNegotiate
  <2>1. a # p /\ b # p
    BY <1>1
  <2> QED
    BY <1>1, <1>4, <1>7, <2>1 DEF PairsNegotiate, Negotiates
<1> QED
  BY <1>5, <1>6, <1>8, <1>9, <1>10

\* A provider takes the next message: an announcement it did not know of is answered by one
\* of its own, and the lower identifier begins to make the offer; the offer and its answer
\* move the entry on.
LEMMA SignalKeepsRoom ==
    ASSUME DiscoveryInv, NEW p \in Providers, OnSignal(p)
    PROVE  DiscoveryInv'
<1> USE DEF DiscoveryInv
<1> DEFINE message == Head(room[p])
           q == message.from
           rest == [room EXCEPT ![p] = Tail(@)]
           new == phase[p] # "ghost" /\ message.type = "announce" /\ entry[p][q] = "none"
<1>1. /\ room[p] \in Seq(RoomMessage) /\ room[p] # << >>
      /\ UNCHANGED <<phase, broken>>
      /\ entry \in [Providers -> [Providers ->
             {"none", "waiting", "offering", "offered", "answering", "described"}]]
  BY DEF OnSignal, DiscoveryTypeOK
<1>2. /\ message \in RoomMessage /\ Tail(room[p]) \in Seq(RoomMessage)
      /\ Waiting(room[p]) = Waiting(Tail(room[p])) \cup {message}
  BY <1>1, WaitingTail
<1>3. /\ q \in Providers /\ message = Message(message.type, q)
      /\ message.type \in {"announce", "offer", "answer", "bye"}
  BY <1>2 DEF RoomMessage, Message
<1>4. /\ rest \in [Providers -> Seq(RoomMessage)] /\ rest[p] = Tail(room[p])
      /\ \A x \in Providers \ {p} : rest[x] = room[x]
  BY <1>2 DEF DiscoveryTypeOK
<1> DEFINE moved(v) == entry' = [entry EXCEPT ![p][q] = v]
<1>5. /\ \/ phase[p] = "ghost" /\ entry' = entry
         \/ message.type = "announce" /\ ~ new /\ entry[p][q] # "none" /\ entry' = entry
         \/ new /\ moved(IF p < q THEN "offering" ELSE "waiting")
         \/ message.type = "offer" /\ moved("answering")
         \/ message.type = "answer" /\ entry[p][q] = "offered" /\ moved("described")
         \/ message.type = "answer" /\ entry[p][q] # "offered" /\ entry' = entry
         \/ message.type = "bye" /\ moved("none")
      /\ room' = IF new THEN Sent(p, q, "announce", rest) ELSE rest
      /\ new => message.type = "announce" /\ entry[p][q] = "none"
  <2>1. CASE phase[p] = "ghost"
    BY <2>1 DEF OnSignal
  <2>2. CASE phase[p] # "ghost" /\ message.type = "announce"
    BY <2>2 DEF OnSignal, HandleAnnounce
  <2>3. CASE phase[p] # "ghost" /\ message.type # "announce"
    BY <1>3, <2>3 DEF OnSignal
  <2> QED
    BY <2>1, <2>2, <2>3
<1> HIDE DEF message, rest, new
<1>6. /\ room' \in [Providers -> Seq(RoomMessage)]
      /\ \A x \in Providers : \A m : m \in Waiting(room'[x]) <=>
             m \in Waiting(rest[x]) \/ (new /\ x = q /\ Open(q) /\ m = Message("announce", p))
      /\ \A x \in Providers : ~ (x = q /\ Open(q)) => room'[x] = rest[x]
  <2>1. CASE new
    <3>1. room' = Sent(p, q, "announce", rest)
      BY <1>5, <2>1
    <3>2. Posted(Sent(p, q, "announce", rest), rest, {x \in {q} : Open(x)}, Message("announce", p))
      BY <1>3, <1>4, SentIsHeard
    <3> QED
      BY <1>3, <2>1, <3>1, <3>2 DEF Posted
  <2>2. CASE ~ new
    <3>1. room' = rest
      BY <1>5, <2>2
    <3> QED
      BY <1>4, <2>2, <3>1
  <2> QED
    BY <2>1, <2>2
<1>7. Hears(p, message.type, q)
  BY <1>2, <1>3 DEF Hears
<1>8. ASSUME NEW x \in Providers, NEW t, NEW y
      PROVE  /\ Hears(x, t, y)' =>
                    \/ Hears(x, t, y)
                    \/ /\ new /\ x = q /\ t = "announce" /\ y = p
             /\ Hears(x, t, y) => Hears(x, t, y)' \/ (x = p /\ t = message.type /\ y = q)
             /\ new /\ x = q /\ t = "announce" /\ y = p /\ Open(q)
                    => Hears(x, t, y)'
  <2>1. Hears(x, t, y)' <=> \/ Message(t, y) \in Waiting(rest[x])
                            \/ /\ new /\ x = q /\ Open(q)
                               /\ t = "announce" /\ y = p
    BY <1>6, MessagesDiffer DEF Hears
  <2>2. CASE x = p
    <3>1. Message(t, y) = message <=> t = message.type /\ y = q
      BY <1>3, MessagesDiffer
    <3>2. Hears(x, t, y) <=> Message(t, y) \in Waiting(rest[x]) \/ (t = message.type /\ y = q)
      BY <1>2, <1>4, <2>2, <3>1 DEF Hears
    <3> QED
      BY <2>1, <2>2, <3>2
  <2>3. CASE x # p
    BY <1>4, <2>1, <2>3 DEF Hears
  <2> QED
    BY <2>2, <2>3
<1>9. /\ \A x, y \in Providers : x # p \/ y # q => entry'[x][y] = entry[x][y]
      /\ \/ phase[p] = "ghost" /\ entry'[p][q] = entry[p][q]
         \/ message.type = "announce" /\ ~ new /\ entry[p][q] # "none" /\ entry'[p][q] = entry[p][q]
         \/ new /\ entry'[p][q] = IF p < q THEN "offering" ELSE "waiting"
         \/ message.type = "offer" /\ entry'[p][q] = "answering"
         \/ message.type = "answer" /\ entry[p][q] = "offered" /\ entry'[p][q] = "described"
         \/ message.type = "answer" /\ entry[p][q] # "offered" /\ entry'[p][q] = entry[p][q]
         \/ message.type = "bye" /\ entry'[p][q] = "none"
      /\ entry' \in [Providers -> [Providers ->
             {"none", "waiting", "offering", "offered", "answering", "described"}]]
  <2>1. ASSUME NEW v \in {"none", "waiting", "offering", "offered", "answering", "described"},
               moved(v)
        PROVE  /\ entry'[p][q] = v
               /\ \A x, y \in Providers : x # p \/ y # q => entry'[x][y] = entry[x][y]
               /\ entry' \in [Providers -> [Providers ->
                      {"none", "waiting", "offering", "offered", "answering", "described"}]]
    BY <1>1, <1>3, <2>1
  <2> HIDE DEF moved
  <2>2. CASE entry' = entry
    BY <1>1, <1>5, <2>1, <2>2
  <2>3. CASE entry' # entry
    BY <1>5, <2>1, <2>3
  <2> QED
    BY <2>2, <2>3
<1>10. DiscoveryTypeOK'
  BY <1>1, <1>6, <1>9 DEF DiscoveryTypeOK
<1>11. StrangersAreUnknown'
  <2> SUFFICES ASSUME NEW s \in Providers,
                      phase[s] \in {"idle", "popup", "leaving", "rejected"}
               PROVE  Stranger(s)'
    BY <1>1 DEF StrangersAreUnknown
  <2>1. Stranger(s) /\ s # p /\ s # q
    BY <1>1, <1>2, <1>3 DEF StrangersAreUnknown, Stranger
  <2>2. room'[s] = room[s]
    BY <1>4, <1>6, <2>1
  <2>3. Message("announce", p).from = p
    BY DEF Message
  <2>4. ASSUME NEW x \in Providers, NEW m \in Waiting(room'[x]) PROVE m.from # s
    <3>1. m \in Waiting(room[x]) \/ m = Message("announce", p)
      BY <1>2, <1>4, <1>6, <2>4
    <3> QED
      BY <2>1, <2>3, <3>1 DEF Stranger
  <2> QED
    BY <1>9, <2>1, <2>2, <2>4 DEF Stranger
<1>12. ByesAreOfThoseWhoLeft'
  BY <1>1, <1>8 DEF ByesAreOfThoseWhoLeft
<1>13. LowerOffers'
  <2>1. \A x, y \in Providers : Hears(x, "offer", y)' => y < x
    BY <1>8 DEF LowerOffers
  <2>2. /\ entry'[p][q] \in {"offering", "offered"} => p < q
        /\ entry'[p][q] \in {"waiting", "answering"} => ~ (p < q)
    <3>1. message.type = "offer" => q < p
      BY <1>3, <1>7 DEF LowerOffers
    <3>2. p \in Nat /\ q \in Nat
      BY <1>3, DiscoveryAssumption
    <3> QED
      BY <1>3, <1>9, <3>1, <3>2 DEF LowerOffers
  <2> QED
    BY <1>9, <2>1, <2>2 DEF LowerOffers
<1>14. ASSUME NEW a \in Providers, NEW b \in Providers, a < b,
              phase[a] = "joined", phase[b] = "joined", {a, b} \notin broken
       PROVE  Negotiates(a, b)'
  <2>0. Negotiates(a, b) /\ a # b /\ a \in Nat /\ b \in Nat
    BY <1>14, DiscoveryAssumption DEF PairsNegotiate
  <2>1. CASE ~ (p = a /\ q = b) /\ ~ (p = b /\ q = a)
    <3>1. entry'[a][b] = entry[a][b] /\ entry'[b][a] = entry[b][a]
      BY <1>9, <2>1
    <3>2. \A t : (Hears(a, t, b)' <=> Hears(a, t, b)) /\ (Hears(b, t, a)' <=> Hears(b, t, a))
      BY <1>8, <2>1
    <3> QED
      BY <2>0, <3>1, <3>2 DEF Negotiates
  <2>2. CASE p = a /\ q = b
    <3>1. /\ \A t : (Hears(b, t, a)' <=> Hears(b, t, a) \/ (new /\ t = "announce"))
          /\ \A t : Hears(a, t, b)' => Hears(a, t, b)
          /\ \A t : t # message.type /\ Hears(a, t, b) => Hears(a, t, b)'
          /\ Hears(a, message.type, b)
          /\ message.type # "bye" /\ message.type # "offer"
          /\ entry'[b][a] = entry[b][a]
      BY <1>3, <1>7, <1>8, <1>9, <1>14, <2>0, <2>2 DEF ByesAreOfThoseWhoLeft, LowerOffers, Open
    <3>2. CASE message.type = "announce"
      BY <1>5, <1>9, <1>14, <2>0, <2>2, <3>1, <3>2 DEF Negotiates
    <3>3. CASE message.type = "answer"
      BY <1>5, <1>9, <1>14, <2>0, <2>2, <3>1, <3>3 DEF Negotiates
    <3> QED
      BY <1>3, <3>1, <3>2, <3>3
  <2>3. CASE p = b /\ q = a
    <3>1. /\ \A t : (Hears(a, t, b)' <=> Hears(a, t, b) \/ (new /\ t = "announce"))
          /\ \A t : Hears(b, t, a)' => Hears(b, t, a)
          /\ \A t : t # message.type /\ Hears(b, t, a) => Hears(b, t, a)'
          /\ Hears(b, message.type, a)
          /\ message.type # "bye" /\ entry[b][a] # "offered"
          /\ entry'[a][b] = entry[a][b]
      BY <1>3, <1>7, <1>8, <1>9, <1>14, <2>0, <2>3 DEF ByesAreOfThoseWhoLeft, LowerOffers, Open
    <3>2. CASE message.type = "announce"
      BY <1>5, <1>9, <1>14, <2>0, <2>3, <3>1, <3>2 DEF Negotiates
    <3>3. CASE message.type = "offer"
      BY <1>5, <1>9, <1>14, <2>0, <2>3, <3>1, <3>3 DEF Negotiates
    <3>4. CASE message.type = "answer"
      BY <1>5, <1>9, <1>14, <2>0, <2>3, <3>1, <3>4 DEF Negotiates
    <3> QED
      BY <1>3, <3>1, <3>2, <3>3, <3>4
  <2> QED
    BY <2>1, <2>2, <2>3
<1> QED
  BY <1>1, <1>10, <1>11, <1>12, <1>13, <1>14 DEF PairsNegotiate

\* A description is ready: the offer, or the answer to one, is on its way.
LEMMA DescriptionKeepsRoom ==
    ASSUME DiscoveryInv, NEW p \in Providers, NEW q \in Providers, Described(p, q)
    PROVE  DiscoveryInv'
<1> USE DEF DiscoveryInv
<1> DEFINE type == IF entry[p][q] = "offering" THEN "offer" ELSE "answer"
<1>1. /\ entry[p][q] \in {"offering", "answering"}
      /\ entry' = [entry EXCEPT ![p][q] =
             IF entry[p][q] = "offering" THEN "offered" ELSE "described"]
      /\ room' = Sent(p, q, type, room)
      /\ UNCHANGED <<phase, broken>>
      /\ type \in {"announce", "offer", "answer", "bye"}
  BY DEF Described
<1>2. /\ type = IF entry[p][q] = "offering" THEN "offer" ELSE "answer"
      /\ entry \in [Providers -> [Providers ->
             {"none", "waiting", "offering", "offered", "answering", "described"}]]
      /\ room \in [Providers -> Seq(RoomMessage)]
  BY DEF DiscoveryTypeOK
<1> HIDE DEF type
<1>3. /\ room' \in [Providers -> Seq(RoomMessage)]
      /\ \A x \in Providers : \A m : m \in Waiting(room'[x]) <=>
             m \in Waiting(room[x]) \/ (x = q /\ Open(q) /\ m = Message(type, p))
      /\ \A x \in Providers : ~ (x = q /\ Open(q)) => room'[x] = room[x]
  <2>1. Posted(Sent(p, q, type, room), room, {x \in {q} : Open(x)}, Message(type, p))
    BY <1>1, <1>2, SentIsHeard
  <2> QED
    BY <1>1, <2>1 DEF Posted
<1>4. /\ \A x, y \in Providers : x # p \/ y # q => entry'[x][y] = entry[x][y]
      /\ entry'[p][q] = IF entry[p][q] = "offering" THEN "offered" ELSE "described"
      /\ entry' \in [Providers -> [Providers ->
             {"none", "waiting", "offering", "offered", "answering", "described"}]]
  BY <1>1, <1>2
<1>5. DiscoveryTypeOK'
  BY <1>1, <1>3, <1>4 DEF DiscoveryTypeOK
<1>6. \A x, y, t : x \in Providers =>
          (Hears(x, t, y)' <=> \/ Hears(x, t, y)
                               \/ x = q /\ y = p /\ t = type /\ Open(q))
  BY <1>3, MessagesDiffer DEF Hears
<1>7. StrangersAreUnknown'
  <2> SUFFICES ASSUME NEW s \in Providers,
                      phase[s] \in {"idle", "popup", "leaving", "rejected"}
               PROVE  Stranger(s)'
    BY <1>1 DEF StrangersAreUnknown
  <2>1. Stranger(s) /\ s # p /\ s # q
    BY <1>1 DEF StrangersAreUnknown, Stranger
  <2>2. room'[s] = room[s]
    BY <1>3, <2>1
  <2>3. Message(type, p).from = p
    BY DEF Message
  <2> QED
    BY <1>3, <1>4, <2>1, <2>2, <2>3 DEF Stranger
<1>8. ByesAreOfThoseWhoLeft'
  BY <1>1, <1>2, <1>6 DEF ByesAreOfThoseWhoLeft
<1>9. LowerOffers'
  <2>1. ASSUME NEW x \in Providers, NEW y \in Providers, Hears(x, "offer", y)'
        PROVE  y < x
    BY <1>1, <1>2, <1>6, <2>1 DEF LowerOffers
  <2> QED
    BY <1>1, <1>4, <2>1 DEF LowerOffers
<1>10. ASSUME NEW a \in Providers, NEW b \in Providers, a < b,
              phase[a] = "joined", phase[b] = "joined", {a, b} \notin broken
       PROVE  Negotiates(a, b)'
  <2>0. Negotiates(a, b) /\ a # b /\ ~ (b < a)
    BY <1>10, DiscoveryAssumption DEF PairsNegotiate
  <2>1. CASE ~ (p = a /\ q = b) /\ ~ (p = b /\ q = a)
    <3>1. entry'[a][b] = entry[a][b] /\ entry'[b][a] = entry[b][a]
      BY <1>4, <2>1
    <3>2. \A t : (Hears(a, t, b)' <=> Hears(a, t, b)) /\ (Hears(b, t, a)' <=> Hears(b, t, a))
      BY <1>6, <2>1
    <3> QED
      BY <2>0, <3>1, <3>2 DEF Negotiates
  <2>2. CASE p = a /\ q = b
    <3>1. entry[a][b] = "offering" /\ type = "offer"
      BY <1>1, <1>2, <1>10, <2>2 DEF LowerOffers
    <3>2. /\ \A t : (Hears(b, t, a)' <=> Hears(b, t, a) \/ t = "offer")
          /\ \A t : Hears(a, t, b)' <=> Hears(a, t, b)
          /\ entry'[b][a] = entry[b][a] /\ entry'[a][b] = "offered"
      BY <1>4, <1>6, <1>10, <2>0, <2>2, <3>1 DEF Open
    <3> QED
      BY <2>0, <3>1, <3>2 DEF Negotiates
  <2>3. CASE p = b /\ q = a
    <3>1. entry[b][a] = "answering" /\ type = "answer"
      BY <1>1, <1>2, <2>0, <2>3 DEF LowerOffers
    <3>2. /\ \A t : (Hears(a, t, b)' <=> Hears(a, t, b) \/ t = "answer")
          /\ \A t : Hears(b, t, a)' <=> Hears(b, t, a)
          /\ entry'[a][b] = entry[a][b] /\ entry'[b][a] = "described"
      BY <1>4, <1>6, <1>10, <2>0, <2>3, <3>1 DEF Open
    <3> QED
      BY <2>0, <3>1, <3>2 DEF Negotiates
  <2> QED
    BY <2>1, <2>2, <2>3
<1> QED
  BY <1>1, <1>5, <1>7, <1>8, <1>9, <1>10 DEF PairsNegotiate

\* A connection that fails is no longer claimed.
LEMMA FailureKeepsRoom ==
    ASSUME DiscoveryInv, NEW p \in Providers, NEW q \in Providers, PeerConnectionFails(p, q)
    PROVE  DiscoveryInv'
<1> USE DEF DiscoveryInv
<1>1. /\ entry[p][q] = "described"
      /\ UNCHANGED <<phase, room>> /\ broken' = broken \cup {{p, q}}
      /\ entry'[p][q] = "none"
      /\ \A x, y \in Providers : x # p \/ y # q => entry'[x][y] = entry[x][y]
      /\ DiscoveryTypeOK'
  BY DEF PeerConnectionFails, DiscoveryTypeOK
<1>2. \A x, t, y : Hears(x, t, y)' <=> Hears(x, t, y)
  BY <1>1 DEF Hears
<1>3. StrangersAreUnknown'
  BY <1>1 DEF StrangersAreUnknown, Stranger
<1>4. ByesAreOfThoseWhoLeft' /\ LowerOffers'
  BY <1>1, <1>2 DEF ByesAreOfThoseWhoLeft, LowerOffers
<1>5. ASSUME NEW a \in Providers, NEW b \in Providers, a < b,
              phase[a] = "joined", phase[b] = "joined", {a, b} \notin broken'
      PROVE  Negotiates(a, b)'
  <2>1. Negotiates(a, b) /\ ~ (p = a /\ q = b) /\ ~ (p = b /\ q = a)
    BY <1>1, <1>5 DEF PairsNegotiate
  <2>2. entry'[a][b] = entry[a][b] /\ entry'[b][a] = entry[b][a]
    BY <1>1, <2>1
  <2> QED
    BY <1>2, <2>1, <2>2 DEF Negotiates
<1> QED
  BY <1>1, <1>3, <1>4, <1>5 DEF PairsNegotiate

\* So every step of the room keeps the invariant.
LEMMA DiscoveryStep == DiscoveryInv /\ [DiscoveryNext]_roomVars => DiscoveryInv'
<1> SUFFICES ASSUME DiscoveryInv, [DiscoveryNext]_roomVars PROVE DiscoveryInv'
  OBVIOUS
<1>1. CASE UNCHANGED roomVars
  BY <1>1 DEF roomVars, DiscoveryInv, DiscoveryTypeOK, StrangersAreUnknown, Stranger,
     ByesAreOfThoseWhoLeft, LowerOffers, PairsNegotiate, Negotiates, Hears
<1> QED
  BY <1>1, PopupKeepsRoom, SignatureKeepsRoom, LeavingKeepsRoom, SignalKeepsRoom,
     DescriptionKeepsRoom, FailureKeepsRoom DEF DiscoveryNext

\* And it always holds.
THEOREM DiscoveryInvariant == DiscoverySpec => []DiscoveryInv
  BY DiscoveryInitially, DiscoveryStep, PTL DEF DiscoverySpec

\* Whatever the identifiers, and in whatever order wallets sign and messages are read, two
\* providers never make offers to each other, and once the room is quiet those in it are
\* connected at both ends (onSignal, handleAnnounce).
THEOREM ProvidersMeet == DiscoverySpec => [](GlareFree /\ JoinedMeet)
<1>1. DiscoveryInv => GlareFree
  <2> SUFFICES ASSUME DiscoveryInv, NEW p \in Providers, NEW q \in Providers,
                      entry[p][q] \in {"offering", "offered"},
                      entry[q][p] \in {"offering", "offered"}
               PROVE  FALSE
    BY DEF GlareFree
  <2>1. p < q /\ q < p /\ p \in Nat /\ q \in Nat
    BY DiscoveryAssumption DEF DiscoveryInv, LowerOffers
  <2> QED
    BY <2>1
<1>2. DiscoveryInv => JoinedMeet
  <2> SUFFICES ASSUME DiscoveryInv, RoomIsQuiet PROVE JoinedMeet
    BY DEF JoinedMeet
  <2>1. ASSUME NEW a \in Providers, NEW b \in Providers, a < b,
               phase[a] = "joined", phase[b] = "joined", {a, b} \notin broken
        PROVE  entry[a][b] = "described" /\ entry[b][a] = "described"
    <3>1. Negotiates(a, b)
      BY <2>1 DEF DiscoveryInv, PairsNegotiate
    <3>2. \A t : ~ Hears(a, t, b) /\ ~ Hears(b, t, a)
      BY WaitingBasics DEF RoomIsQuiet, Hears
    <3>3. entry[a][b] \in {"none", "offered", "described"}
      BY <2>1 DEF DiscoveryInv, DiscoveryTypeOK, LowerOffers, RoomIsQuiet
    <3> QED
      BY <3>1, <3>2, <3>3 DEF Negotiates, RoomIsQuiet
  <2>2. ASSUME NEW p \in Providers, NEW q \in Providers, p # q,
               phase[p] = "joined", phase[q] = "joined", {p, q} \notin broken
        PROVE  entry[p][q] = "described"
    <3>1. (p < q \/ q < p) /\ {p, q} = {q, p}
      BY <2>2, DiscoveryAssumption
    <3> QED
      BY <2>1, <2>2, <3>1
  <2> QED
    BY <2>2 DEF JoinedMeet
<1> QED
  BY <1>1, <1>2, DiscoveryInvariant, PTL

\* Two tabs that look for each other end up connected, once, and with one document, in
\* whatever order their messages are signed, sent and taken (syncSession, signaling).
THEOREM PeersAlwaysMeet == PeerSpec /\ DiscoverySpec => []PeersMeetAndAgree
<1>1. QuietPeersConverged /\ GlareFree /\ JoinedMeet => PeersMeetAndAgree
  BY DEF PeersMeetAndAgree
<1> QED
  BY <1>1, PeersConverge, ProvidersMeet, PTL

-----------------------------------------------------------------------------
(***************************************************************************)
(* How the tabs of the mesh connect, however many there are.               *)
(***************************************************************************)

\* What is posted on the channel
MeshSignal == [type : {"DISCOVER", "OFFER", "ANSWER"}, from : MeshPeers]

MeshTypeOK ==
    /\ connections \in [MeshPeers -> [MeshPeers ->
           {"none", "offering", "offered", "answering", "described", "open"}]]
    /\ inbox \in [MeshPeers -> Seq(MeshSignal)]

\* p has a signal of q to handle
HasSignal(p, type, q) == Signal(type, q) \in Waiting(inbox[p])

LowerPeersOffer ==
    \A p, q \in MeshPeers :
        /\ connections[p][q] \in {"offering", "offered"} => p < q
        /\ HasSignal(p, "OFFER", q) => q < p

\* Of two peers the higher has an entry from the moment it has, or will have, the offer of
\* the lower, and until one of them gives the connection up.
EntriesGoTogether ==
    \A p, q \in MeshPeers :
        p < q /\ Pair(p, q) \notin lost =>
            /\ <<p, q>> \in heard => HasSignal(p, "DISCOVER", q) \/ connections[p][q] # "none"
            /\ connections[p][q] \notin {"none", "offering"}
                   <=> HasSignal(q, "OFFER", p) \/ connections[q][p] # "none"

MeshInv == MeshTypeOK /\ LowerPeersOffer /\ EntriesGoTogether

\* Signals are equal when their type and sender are.
LEMMA SignalsDiffer ==
    \A t, u, p, q : Signal(t, p) = Signal(u, q) <=> t = u /\ p = q
<1> SUFFICES ASSUME NEW t, NEW u, NEW p, NEW q, Signal(t, p) = Signal(u, q)
             PROVE  t = u /\ p = q
  OBVIOUS
<1>1. Signal(t, p).type = t /\ Signal(t, p).from = p
  BY DEF Signal
<1>2. Signal(u, q).type = u /\ Signal(u, q).from = q
  BY DEF Signal
<1> QED
  BY <1>1, <1>2

\* The first state of the mesh satisfies the invariant.
LEMMA MeshInitially == MeshInit => MeshInv
<1> SUFFICES ASSUME MeshInit PROVE MeshInv
  OBVIOUS
<1>1. \A p \in MeshPeers : inbox[p] = << >> /\ Waiting(inbox[p]) = {}
  BY WaitingBasics DEF MeshInit
<1>2. \A p, q \in MeshPeers : connections[p][q] = "none"
  BY DEF MeshInit
<1>3. << >> \in Seq(MeshSignal) /\ heard = {}
  BY DEF MeshInit
<1>4. MeshTypeOK
  BY <1>3 DEF MeshInit, MeshTypeOK
<1> QED
  BY <1>1, <1>2, <1>3, <1>4 DEF MeshInv, LowerPeersOffer, EntriesGoTogether, HasSignal

\* An announcement keeps it: those who listen will handle it.
LEMMA AnnounceKeepsMesh ==
    ASSUME MeshInv, NEW p \in MeshPeers, Announce(p)
    PROVE  MeshInv'
<1> DEFINE others == listening \ {p}
<1>1. /\ MeshTypeOK
      /\ inbox' = [q \in MeshPeers |-> IF q \in others THEN Append(inbox[q], Signal("DISCOVER", p))
                                       ELSE inbox[q]]
      /\ heard' = heard \cup {<<q, p>> : q \in others}
      /\ UNCHANGED <<connections, lost>>
  BY DEF Announce, MeshInv
<1> HIDE DEF others
<1>2. Signal("DISCOVER", p) \in MeshSignal
  BY DEF Signal, MeshSignal
<1>3. \A q \in MeshPeers :
          /\ Append(inbox[q], Signal("DISCOVER", p)) \in Seq(MeshSignal)
          /\ Waiting(Append(inbox[q], Signal("DISCOVER", p))) =
                 Waiting(inbox[q]) \cup {Signal("DISCOVER", p)}
  BY <1>1, <1>2, WaitingAppend DEF MeshTypeOK
<1>4. MeshTypeOK'
  BY <1>1, <1>3 DEF MeshTypeOK
<1>5. ASSUME NEW q \in MeshPeers, NEW t, NEW r
      PROVE  HasSignal(q, t, r)' <=> HasSignal(q, t, r) \/ (q \in others /\ t = "DISCOVER" /\ r = p)
  <2>1. Signal(t, r) = Signal("DISCOVER", p) <=> t = "DISCOVER" /\ r = p
    BY SignalsDiffer
  <2>2. CASE q \in others
    <3>1. inbox'[q] = Append(inbox[q], Signal("DISCOVER", p))
      BY <1>1, <2>2
    <3>2. Waiting(inbox'[q]) = Waiting(inbox[q]) \cup {Signal("DISCOVER", p)}
      BY <1>3, <3>1
    <3> QED
      BY <2>1, <2>2, <3>2 DEF HasSignal
  <2>3. CASE q \notin others
    BY <1>1, <2>3 DEF HasSignal
  <2> QED
    BY <2>2, <2>3
<1>6. LowerPeersOffer'
  BY <1>1, <1>5 DEF MeshInv, LowerPeersOffer
<1>7. EntriesGoTogether'
  BY <1>1, <1>5 DEF MeshInv, EntriesGoTogether, Pair
<1> QED
  BY <1>4, <1>6, <1>7 DEF MeshInv

\* So does a signal that is handled: an announcement makes the lower peer offer, unless it
\* has an entry or no room, and an offer makes the higher one answer.
LEMMA SignalKeepsMesh ==
    ASSUME MeshInv, NEW p \in MeshPeers, HandleSignal(p)
    PROVE  MeshInv'
<1> DEFINE signal == Head(inbox[p])
           q == signal.from
           moved(v) == connections' = [connections EXCEPT ![p][q] = v]
<1>0. MeshTypeOK /\ inbox[p] \in Seq(MeshSignal) /\ inbox[p] # << >>
  BY DEF HandleSignal, MeshInv, MeshTypeOK
<1>1. /\ signal \in MeshSignal /\ Tail(inbox[p]) \in Seq(MeshSignal)
      /\ Waiting(inbox[p]) = Waiting(Tail(inbox[p])) \cup {signal}
  BY <1>0, WaitingTail
<1>2. /\ q \in MeshPeers /\ signal = Signal(signal.type, q)
      /\ signal.type \in {"DISCOVER", "OFFER", "ANSWER"}
  BY <1>1 DEF MeshSignal, Signal
<1>3. /\ \/ signal.type = "DISCOVER" /\ connections[p][q] = "none" /\ p < q
            /\ moved("offering") /\ lost' = lost
         \/ signal.type = "DISCOVER" /\ (connections[p][q] # "none" \/ ~ (p < q))
            /\ connections' = connections /\ lost' = lost
         \/ signal.type = "DISCOVER" /\ connections' = connections
            /\ lost' = lost \cup {Pair(p, q)}
         \/ signal.type = "OFFER" /\ moved("answering") /\ lost' = lost
         \/ signal.type = "ANSWER" /\ connections[p][q] = "offered" /\ moved("described")
            /\ lost' = lost
         \/ signal.type = "ANSWER" /\ connections' = connections /\ lost' = lost
      /\ inbox' = [inbox EXCEPT ![p] = Tail(@)] /\ heard' = heard
  <2>1. CASE signal.type = "DISCOVER"
    <3>0. Cardinality(Connections(p)) \in Nat /\ maxPeers \in Nat
      BY MeshAssumption, FS_Subset, FS_CardinalityType DEF Connections
    <3>1. CASE Crowded(p, q)
      <4>1. ~ Offers(p, q)
        BY <3>0, <3>1 DEF Crowded, Offers
      <4>2. connections' = connections /\ lost' = lost \cup {Pair(p, q)}
        BY <2>1, <3>1, <4>1 DEF HandleSignal
      <4> QED
        BY <2>1, <4>2 DEF HandleSignal
    <3>2. CASE ~ Crowded(p, q) /\ Offers(p, q)
      BY <2>1, <3>2 DEF HandleSignal, Offers
    <3>3. CASE ~ Crowded(p, q) /\ ~ Offers(p, q)
      <4>1. connections[p][q] # "none" \/ ~ (p < q)
        BY <3>0, <3>3 DEF Crowded, Offers
      <4> QED
        BY <2>1, <3>3, <4>1 DEF HandleSignal
    <3> QED
      BY <3>1, <3>2, <3>3
  <2>2. CASE signal.type = "OFFER"
    BY <2>2 DEF HandleSignal
  <2>3. CASE signal.type = "ANSWER"
    BY <2>3 DEF HandleSignal
  <2> QED
    BY <1>2, <2>1, <2>2, <2>3
<1> HIDE DEF signal
<1>4. ASSUME NEW v \in {"offering", "answering", "described"}, moved(v)
      PROVE  /\ connections'[p][q] = v
             /\ \A x, y \in MeshPeers : x # p \/ y # q => connections'[x][y] = connections[x][y]
             /\ connections' \in [MeshPeers -> [MeshPeers ->
                    {"none", "offering", "offered", "answering", "described", "open"}]]
  BY <1>0, <1>2, <1>4 DEF MeshTypeOK
<1> HIDE DEF moved
<1>5. /\ \A x, y \in MeshPeers : x # p \/ y # q => connections'[x][y] = connections[x][y]
      /\ \/ /\ signal.type = "DISCOVER" /\ lost' = lost /\ connections[p][q] = "none" /\ p < q
            /\ connections'[p][q] = "offering"
         \/ /\ signal.type = "DISCOVER" /\ lost' = lost /\ (connections[p][q] # "none" \/ ~ (p < q))
            /\ connections'[p][q] = connections[p][q]
         \/ /\ signal.type = "DISCOVER" /\ lost' = lost \cup {Pair(p, q)}
            /\ connections'[p][q] = connections[p][q]
         \/ signal.type = "OFFER" /\ connections'[p][q] = "answering" /\ lost' = lost
         \/ signal.type = "ANSWER" /\ connections[p][q] = "offered"
            /\ connections'[p][q] = "described" /\ lost' = lost
         \/ signal.type = "ANSWER" /\ connections'[p][q] = connections[p][q] /\ lost' = lost
  BY <1>3, <1>4
<1>6. MeshTypeOK'
  <2>1. inbox' \in [MeshPeers -> Seq(MeshSignal)]
    BY <1>0, <1>1, <1>3 DEF MeshTypeOK
  <2>2. connections' \in [MeshPeers -> [MeshPeers ->
            {"none", "offering", "offered", "answering", "described", "open"}]]
    BY <1>0, <1>3, <1>4 DEF MeshTypeOK
  <2> QED
    BY <2>1, <2>2 DEF MeshTypeOK
<1>7. HasSignal(p, signal.type, q)
  BY <1>1, <1>2 DEF HasSignal
<1>8. ASSUME NEW x \in MeshPeers, NEW t, NEW y
      PROVE  /\ HasSignal(x, t, y)' => HasSignal(x, t, y)
             /\ HasSignal(x, t, y) => HasSignal(x, t, y)' \/ (x = p /\ t = signal.type /\ y = q)
  <2>1. CASE x = p
    <3>1. Signal(t, y) = signal <=> t = signal.type /\ y = q
      BY <1>2, SignalsDiffer
    <3>2. inbox'[x] = Tail(inbox[p])
      BY <1>0, <1>3, <2>1 DEF MeshTypeOK
    <3> QED
      BY <1>1, <2>1, <3>1, <3>2 DEF HasSignal
  <2>2. CASE x # p
    BY <1>0, <1>3, <2>2 DEF HasSignal, MeshTypeOK
  <2> QED
    BY <2>1, <2>2
<1>9. LowerPeersOffer'
  <2>1. signal.type = "OFFER" => q < p
    BY <1>2, <1>7 DEF MeshInv, LowerPeersOffer
  <2>2. connections'[p][q] \in {"offering", "offered"} => p < q
    BY <1>2, <1>5 DEF MeshInv, LowerPeersOffer
  <2> QED
    BY <1>5, <1>8, <2>2 DEF MeshInv, LowerPeersOffer
<1>10. ASSUME NEW a \in MeshPeers, NEW b \in MeshPeers, a < b, Pair(a, b) \notin lost'
       PROVE  /\ <<a, b>> \in heard' => HasSignal(a, "DISCOVER", b)' \/ connections'[a][b] # "none"
              /\ connections'[a][b] \notin {"none", "offering"}
                     <=> HasSignal(b, "OFFER", a)' \/ connections'[b][a] # "none"
  <2>0. /\ Pair(a, b) \notin lost /\ a # b /\ ~ (b < a) /\ heard' = heard
        /\ <<a, b>> \in heard => HasSignal(a, "DISCOVER", b) \/ connections[a][b] # "none"
        /\ connections[a][b] \notin {"none", "offering"}
               <=> HasSignal(b, "OFFER", a) \/ connections[b][a] # "none"
    BY <1>3, <1>10, MeshAssumption DEF MeshInv, EntriesGoTogether
  <2>1. CASE ~ (p = a /\ q = b) /\ ~ (p = b /\ q = a)
    <3>1. connections'[a][b] = connections[a][b] /\ connections'[b][a] = connections[b][a]
      BY <1>5, <2>1
    <3>2. \A t : (HasSignal(a, t, b)' <=> HasSignal(a, t, b)) /\ (HasSignal(b, t, a)' <=> HasSignal(b, t, a))
      BY <1>8, <2>1
    <3> QED
      BY <2>0, <3>1, <3>2
  <2>2. CASE p = a /\ q = b
    <3>1. /\ \A t : HasSignal(b, t, a)' <=> HasSignal(b, t, a)
          /\ \A t : t # signal.type => (HasSignal(a, t, b)' <=> HasSignal(a, t, b))
          /\ connections'[b][a] = connections[b][a]
          /\ signal.type # "OFFER"
      BY <1>5, <1>7, <1>8, <2>0, <2>2 DEF MeshInv, LowerPeersOffer
    <3>2. Pair(p, q) \notin lost' /\ p < q
      BY <1>10, <2>2
    <3> QED
      BY <1>5, <2>0, <2>2, <3>1, <3>2
  <2>3. CASE p = b /\ q = a
    <3>1. /\ \A t : HasSignal(a, t, b)' <=> HasSignal(a, t, b)
          /\ \A t : t # signal.type => (HasSignal(b, t, a)' <=> HasSignal(b, t, a))
          /\ connections'[a][b] = connections[a][b]
          /\ HasSignal(b, signal.type, a)
          /\ connections[b][a] # "offered"
      BY <1>5, <1>7, <1>8, <2>0, <2>3 DEF MeshInv, LowerPeersOffer
    <3>2. CASE signal.type = "OFFER"
      BY <1>5, <2>0, <2>3, <3>1, <3>2
    <3>3. CASE signal.type # "OFFER"
      <4>1. connections'[b][a] = connections[b][a]
        BY <1>5, <2>0, <2>3, <3>1, <3>3
      <4> QED
        BY <2>0, <3>1, <3>3, <4>1
    <3> QED
      BY <3>2, <3>3
  <2> QED
    BY <2>1, <2>2, <2>3
<1> QED
  BY <1>6, <1>9, <1>10 DEF MeshInv, EntriesGoTogether

\* So does a description that is ready or cannot be made, offer or answer.
LEMMA DescriptionKeepsMesh ==
    ASSUME MeshInv, NEW p \in MeshPeers, NEW q \in MeshPeers,
           OfferReady(p, q) \/ AnswerReady(p, q)
    PROVE  MeshInv'
<1> DEFINE type == IF connections[p][q] = "offering" THEN "OFFER" ELSE "ANSWER"
           after == IF connections[p][q] = "offering" THEN "offered" ELSE "described"
<1>1. /\ MeshTypeOK /\ connections[p][q] \in {"offering", "answering"} /\ heard' = heard
      /\ \/ /\ connections' = [connections EXCEPT ![p][q] = after]
            /\ inbox' = [inbox EXCEPT ![q] = Append(@, Signal(type, p))]
            /\ lost' = lost
         \/ /\ connections' = [connections EXCEPT ![p][q] = "none"]
            /\ inbox' = inbox
            /\ lost' = lost \cup {Pair(p, q)}
  BY DEF OfferReady, AnswerReady, DescriptionReady, MeshInv
<1>2. /\ type = IF connections[p][q] = "offering" THEN "OFFER" ELSE "ANSWER"
      /\ after = IF connections[p][q] = "offering" THEN "offered" ELSE "described"
  OBVIOUS
<1> HIDE DEF type, after
<1>3. Signal(type, p) \in MeshSignal
  BY <1>2 DEF Signal, MeshSignal
<1>4. /\ Append(inbox[q], Signal(type, p)) \in Seq(MeshSignal)
      /\ Waiting(Append(inbox[q], Signal(type, p))) = Waiting(inbox[q]) \cup {Signal(type, p)}
  BY <1>1, <1>3, WaitingAppend DEF MeshTypeOK
<1>5. /\ \A x, y \in MeshPeers : x # p \/ y # q => connections'[x][y] = connections[x][y]
      /\ connections'[p][q] \in {"none", after}
      /\ connections'[p][q] = "none" <=> lost' = lost \cup {Pair(p, q)} /\ inbox' = inbox
      /\ connections'[p][q] # "none" => lost' = lost
      /\ MeshTypeOK'
  <2>1. CASE /\ connections' = [connections EXCEPT ![p][q] = after]
             /\ inbox' = [inbox EXCEPT ![q] = Append(@, Signal(type, p))]
             /\ lost' = lost
    <3>1. inbox'[q] # inbox[q]
      BY <1>1, <1>3, <2>1, AppendProperties DEF MeshTypeOK
    <3> QED
      BY <1>1, <1>2, <1>4, <2>1, <3>1 DEF MeshTypeOK
  <2>2. CASE /\ connections' = [connections EXCEPT ![p][q] = "none"]
             /\ inbox' = inbox
             /\ lost' = lost \cup {Pair(p, q)}
    BY <1>1, <2>2 DEF MeshTypeOK
  <2> QED
    BY <1>1, <2>1, <2>2
<1>6. ASSUME NEW x \in MeshPeers, NEW t, NEW y
      PROVE  /\ HasSignal(x, t, y)' => HasSignal(x, t, y) \/ (x = q /\ t = type /\ y = p)
             /\ HasSignal(x, t, y) => HasSignal(x, t, y)'
             /\ connections'[p][q] # "none" /\ x = q /\ t = type /\ y = p => HasSignal(x, t, y)'
  <2>1. Signal(t, y) = Signal(type, p) <=> t = type /\ y = p
    BY SignalsDiffer
  <2>2. CASE connections'[p][q] # "none"
    <3>1. inbox'[q] = Append(inbox[q], Signal(type, p)) /\ (x # q => inbox'[x] = inbox[x])
      BY <1>1, <1>5, <2>2 DEF MeshTypeOK
    <3> QED
      BY <1>4, <2>1, <2>2, <3>1 DEF HasSignal
  <2>3. CASE connections'[p][q] = "none"
    BY <1>5, <2>3 DEF HasSignal
  <2> QED
    BY <2>2, <2>3
<1>7. LowerPeersOffer'
  <2>1. ASSUME NEW x \in MeshPeers, NEW y \in MeshPeers, HasSignal(x, "OFFER", y)' PROVE y < x
    BY <1>1, <1>2, <1>6, <2>1 DEF MeshInv, LowerPeersOffer
  <2> QED
    BY <1>1, <1>2, <1>5, <2>1 DEF MeshInv, LowerPeersOffer
<1>8. ASSUME NEW a \in MeshPeers, NEW b \in MeshPeers, a < b, Pair(a, b) \notin lost'
      PROVE  /\ <<a, b>> \in heard' => HasSignal(a, "DISCOVER", b)' \/ connections'[a][b] # "none"
             /\ connections'[a][b] \notin {"none", "offering"}
                    <=> HasSignal(b, "OFFER", a)' \/ connections'[b][a] # "none"
  <2>0. /\ Pair(a, b) \notin lost /\ a # b /\ ~ (b < a) /\ heard' = heard
        /\ <<a, b>> \in heard => HasSignal(a, "DISCOVER", b) \/ connections[a][b] # "none"
        /\ connections[a][b] \notin {"none", "offering"}
               <=> HasSignal(b, "OFFER", a) \/ connections[b][a] # "none"
    BY <1>1, <1>8, MeshAssumption DEF MeshInv, EntriesGoTogether
  <2>1. CASE ~ (p = a /\ q = b) /\ ~ (p = b /\ q = a)
    <3>1. connections'[a][b] = connections[a][b] /\ connections'[b][a] = connections[b][a]
      BY <1>5, <2>1
    <3>2. \A t : (HasSignal(a, t, b)' <=> HasSignal(a, t, b)) /\ (HasSignal(b, t, a)' <=> HasSignal(b, t, a))
      BY <1>6, <2>1
    <3> QED
      BY <2>0, <3>1, <3>2
  <2>2. CASE p = a /\ q = b
    <3>1. connections'[a][b] = after /\ Pair(p, q) = Pair(a, b)
      BY <1>5, <1>8, <2>2
    <3>2. connections'[b][a] = connections[b][a]
      BY <1>5, <2>0, <2>2
    <3> QED
      BY <1>1, <1>2, <1>6, <2>0, <2>2, <3>1, <3>2
  <2>3. CASE p = b /\ q = a
    <3>1. connections'[b][a] = after /\ connections[b][a] = "answering"
      BY <1>1, <1>5, <1>8, <2>0, <2>3 DEF MeshInv, LowerPeersOffer, Pair
    <3>2. connections'[a][b] = connections[a][b]
      BY <1>5, <2>0, <2>3
    <3> QED
      BY <1>2, <1>6, <2>0, <2>3, <3>1, <3>2
  <2> QED
    BY <2>1, <2>2, <2>3
<1> QED
  BY <1>5, <1>7, <1>8 DEF MeshInv, EntriesGoTogether

\* So do a channel that opens, and a connection that is given up.
LEMMA ChannelKeepsMesh ==
    ASSUME MeshInv, NEW p \in MeshPeers, NEW q \in MeshPeers,
           ChannelOpens(p, q) \/ DisconnectPeer(p, q)
    PROVE  MeshInv'
<1> DEFINE opens == ChannelOpens(p, q)
<1>1. /\ MeshTypeOK /\ connections[p][q] \in {"described", "open"}
      /\ connections' = [connections EXCEPT ![p][q] = IF opens THEN "open" ELSE "none"]
      /\ lost' = IF opens THEN lost ELSE lost \cup {Pair(p, q)}
      /\ UNCHANGED <<inbox, heard>>
  BY DEF ChannelOpens, DisconnectPeer, MeshInv
<1> HIDE DEF opens
<1>2. /\ \A x, y \in MeshPeers : x # p \/ y # q => connections'[x][y] = connections[x][y]
      /\ connections'[p][q] = IF opens THEN "open" ELSE "none"
      /\ MeshTypeOK'
  BY <1>1 DEF MeshTypeOK
<1>3. \A x, t, y : HasSignal(x, t, y)' <=> HasSignal(x, t, y)
  BY <1>1 DEF HasSignal
<1>4. LowerPeersOffer'
  BY <1>1, <1>2, <1>3 DEF MeshInv, LowerPeersOffer
<1>5. EntriesGoTogether'
  BY <1>1, <1>2, <1>3 DEF MeshInv, EntriesGoTogether, Pair
<1> QED
  BY <1>2, <1>4, <1>5 DEF MeshInv

\* So every step of the mesh keeps the invariant.
LEMMA MeshStep == MeshInv /\ [MeshNext]_meshVars => MeshInv'
<1> SUFFICES ASSUME MeshInv, [MeshNext]_meshVars PROVE MeshInv'
  OBVIOUS
<1>1. CASE (\E p \in MeshPeers : Listen(p)) \/ UNCHANGED meshVars
  BY <1>1 DEF Listen, meshVars, MeshInv, MeshTypeOK, LowerPeersOffer, EntriesGoTogether, HasSignal
<1> QED
  BY <1>1, AnnounceKeepsMesh, SignalKeepsMesh, DescriptionKeepsMesh, ChannelKeepsMesh DEF MeshNext

\* And it always holds.
THEOREM MeshInvariant == MeshSpec => []MeshInv
  BY MeshInitially, MeshStep, PTL DEF MeshSpec

\* Whatever the identifiers and the limit, two tabs never offer to each other, and once
\* signalling is quiet a tab that was heard by a lower one is connected to it, and both
\* ends agree, unless the pair gave the connection up (handleSignalingMessage).
THEOREM TabsAreMet == MeshSpec => [](OneSideOffers /\ NewcomersAreMet)
<1>1. MeshInv => OneSideOffers
  <2> SUFFICES ASSUME MeshInv, NEW p \in MeshPeers, NEW q \in MeshPeers,
                      connections[p][q] \in {"offering", "offered"},
                      connections[q][p] \in {"offering", "offered"}
               PROVE  FALSE
    BY DEF OneSideOffers
  <2>1. p < q /\ q < p /\ p \in Nat /\ q \in Nat
    BY MeshAssumption DEF MeshInv, LowerPeersOffer
  <2> QED
    BY <2>1
<1>2. MeshInv => NewcomersAreMet
  <2> SUFFICES ASSUME MeshInv, NoSignals PROVE NewcomersAreMet
    BY DEF NewcomersAreMet
  <2>1. \A a, b \in MeshPeers : \A t : ~ HasSignal(a, t, b)
    BY WaitingBasics DEF NoSignals, HasSignal
  <2>2. ASSUME NEW a \in MeshPeers, NEW b \in MeshPeers, a < b, Pair(a, b) \notin lost
        PROVE  /\ <<a, b>> \in heard => connections[a][b] # "none"
               /\ connections[a][b] # "none" <=> connections[b][a] # "none"
    BY <2>1, <2>2 DEF MeshInv, EntriesGoTogether, NoSignals
  <2>3. ASSUME NEW p \in MeshPeers, NEW q \in MeshPeers, Pair(p, q) \notin lost
        PROVE  /\ <<p, q>> \in heard /\ p < q => connections[p][q] # "none"
               /\ connections[p][q] # "none" <=> connections[q][p] # "none"
    <3>1. p < q \/ q < p \/ p = q
      BY MeshAssumption
    <3>2. Pair(p, q) = Pair(q, p)
      BY DEF Pair
    <3> QED
      BY <2>2, <2>3, <3>1, <3>2
  <2> QED
    BY <2>3 DEF NewcomersAreMet, Connections
<1> QED
  BY <1>1, <1>2, MeshInvariant, PTL

-----------------------------------------------------------------------------
(***************************************************************************)
(* The gossip over those connections: what is delivered once is remembered, *)
(* and a link is moved between the overlays, never out of both.            *)
(***************************************************************************)

\* What is sent over a link
GossipMessage == [type : {"GOSSIP_DATA", "IHAVE", "GRAFT", "PRUNE"}, ids : SUBSET Gossip]

\* What is on the wires of the mesh
Queues == [Gossipers -> [Gossipers -> Seq(GossipMessage)]]

GossipTypeOK ==
    /\ eagerNeighbors \in [Gossipers -> SUBSET Gossipers]
    /\ lazyNeighbors \in [Gossipers -> SUBSET Gossipers]
    /\ seenMessages \in [Gossipers -> SUBSET Gossip]
    /\ graftTimers \in [Gossipers -> [Gossip -> Gossipers \cup {None}]]
    /\ pendingIHave \in [Gossipers -> SUBSET Gossip]
    /\ wires \in Queues
    /\ delivered \in [Gossipers -> [Gossip -> 0 .. 1]]

\* What was not seen was not delivered.
UnseenIsUndelivered ==
    \A n \in Gossipers : \A m \in Gossip \ seenMessages[n] : delivered[n][m] = 0

\* Nobody is in both overlays of a peer.
OverlaysAreApart == \A n \in Gossipers : eagerNeighbors[n] \cap lazyNeighbors[n] = {}

GossipInv == GossipTypeOK /\ UnseenIsUndelivered /\ OverlaysAreApart /\ LinksAreUsed

\* What is sent over the links that are open is queued there.
LEMMA SendAllKeepsQueues ==
    ASSUME NEW w, w \in Queues,
           NEW n, NEW targets, NEW message, message \in GossipMessage
    PROVE  SendAll(w, n, targets, message) \in Queues
<1>1. \A k \in Gossipers : n \in Gossipers => Append(w[n][k], message) \in Seq(GossipMessage)
  BY WaitingAppend DEF Queues
<1>2. n \in Gossipers =>
          [k \in Gossipers |-> IF k \in targets /\ {n, k} \in linked
                               THEN Append(w[n][k], message) ELSE w[n][k]]
              \in [Gossipers -> Seq(GossipMessage)]
  BY <1>1 DEF Queues
<1> QED
  BY <1>2 DEF SendAll, Queues

\* The messages of the protocol are messages.
LEMMA MessagesAreMessages ==
    /\ \A m \in Gossip : Data(m) \in GossipMessage
    /\ \A ids \in SUBSET Gossip : IHave(ids) \in GossipMessage
    /\ Control("GRAFT") \in GossipMessage /\ Control("PRUNE") \in GossipMessage
  BY DEF Data, IHave, Control, GossipMessage

\* The first state of the overlays satisfies the invariant.
LEMMA GossipInitially == GossipInit => GossipInv
<1> SUFFICES ASSUME GossipInit PROVE GossipInv
  OBVIOUS
<1>1. GossipTypeOK
  BY DEF GossipInit, GossipTypeOK, Queues
<1>2. UnseenIsUndelivered /\ OverlaysAreApart /\ LinksAreUsed
  BY DEF GossipInit, UnseenIsUndelivered, OverlaysAreApart, LinksAreUsed
<1> QED
  BY <1>1, <1>2 DEF GossipInv

\* A link that opens puts each end into one overlay of the other.
LEMMA LinkKeepsGossip ==
    ASSUME GossipInv, NEW n \in Gossipers, NEW k \in Gossipers, Link(n, k)
    PROVE  GossipInv'
<1> DEFINE newPeer(p) == IF p = n THEN {k} ELSE IF p = k THEN {n} ELSE {}
           known(p) == eagerNeighbors[p] \cup lazyNeighbors[p]
<1>1. /\ n # k /\ GossipTypeOK /\ linked' = linked \cup {{n, k}}
      /\ eagerNeighbors' = [p \in Gossipers |-> eagerNeighbors[p] \cup
             {x \in newPeer(p) : x \notin known(p) /\ AddsEager(p)}]
      /\ lazyNeighbors' = [p \in Gossipers |-> lazyNeighbors[p] \cup
             {x \in newPeer(p) : x \notin known(p) /\ ~ AddsEager(p)}]
      /\ UNCHANGED <<seenMessages, graftTimers, pendingIHave, wires, delivered>>
  BY DEF Link, GossipInv
<1> HIDE DEF known
<1>2. GossipTypeOK'
  BY <1>1 DEF GossipTypeOK
<1>3. UnseenIsUndelivered'
  BY <1>1 DEF GossipInv, UnseenIsUndelivered
<1> USE DEF known
<1>4. OverlaysAreApart'
  BY <1>1 DEF GossipInv, OverlaysAreApart, GossipTypeOK
<1>5. ASSUME NEW a \in Gossipers, NEW b \in Gossipers, {a, b} \in linked', a # b
      PROVE  (b \in eagerNeighbors'[a]) # (b \in lazyNeighbors'[a])
  <2>1. CASE {a, b} \in linked
    <3>1. (b \in eagerNeighbors[a]) # (b \in lazyNeighbors[a])
      BY <1>5, <2>1 DEF GossipInv, LinksAreUsed
    <3> QED
      BY <1>1, <1>4, <3>1 DEF OverlaysAreApart
  <2>2. CASE {a, b} = {n, k}
    <3>1. b \in newPeer(a)
      BY <1>1, <1>5, <2>2
    <3>2. b \in eagerNeighbors'[a] \/ b \in lazyNeighbors'[a]
      BY <1>1, <3>1
    <3> QED
      BY <1>4, <3>2 DEF OverlaysAreApart
  <2> QED
    BY <1>1, <1>5, <2>1, <2>2
<1> QED
  BY <1>2, <1>3, <1>4, <1>5 DEF GossipInv, LinksAreUsed

\* One that closes takes each end out of the overlays of the other, and may make a lazy
\* neighbour eager.
LEMMA UnlinkKeepsGossip ==
    ASSUME GossipInv, NEW n \in Gossipers, NEW k \in Gossipers, Unlink(n, k)
    PROVE  GossipInv'
<1>1. PICK x \in Rebalanced(n, k), y \in Rebalanced(k, n) :
          LET promoted(p) == (IF p = n THEN {x} ELSE IF p = k THEN {y} ELSE {}) \ {None}
              gone(p) == IF p = n THEN {k} ELSE IF p = k THEN {n} ELSE {}
              cut == [wires EXCEPT ![n][k] = << >>, ![k][n] = << >>]
          IN
          /\ eagerNeighbors' = [p \in Gossipers |-> (eagerNeighbors[p] \ gone(p)) \cup promoted(p)]
          /\ lazyNeighbors' = [p \in Gossipers |-> lazyNeighbors[p] \ (gone(p) \cup promoted(p))]
          /\ wires' = SendAll(SendAll(cut, n, promoted(n), Control("GRAFT")), k, promoted(k),
                              Control("GRAFT"))
  BY DEF Unlink
<1> DEFINE promoted(p) == (IF p = n THEN {x} ELSE IF p = k THEN {y} ELSE {}) \ {None}
           gone(p) == IF p = n THEN {k} ELSE IF p = k THEN {n} ELSE {}
           cut == [wires EXCEPT ![n][k] = << >>, ![k][n] = << >>]
<1>2. /\ n # k /\ GossipTypeOK /\ linked' = linked \ {{n, k}}
      /\ UNCHANGED <<seenMessages, graftTimers, pendingIHave, delivered>>
  BY DEF Unlink, GossipInv
<1>3. ASSUME NEW p \in Gossipers
      PROVE  promoted(p) \subseteq lazyNeighbors[p] \ gone(p)
  <2>1. ASSUME NEW r, NEW s, NEW z \in Rebalanced(r, s)
        PROVE  {z} \ {None} \subseteq lazyNeighbors[r] \ {s}
    BY <2>1 DEF Rebalanced
  <2>2. CASE p = n
    BY <2>1, <2>2
  <2>3. CASE p = k /\ p # n
    BY <2>1, <2>3
  <2>4. CASE p # k /\ p # n
    BY <2>4
  <2> QED
    BY <2>2, <2>3, <2>4
<1>4. cut \in Queues
  <2>1. \A w \in Queues, a \in Gossipers, b \in Gossipers :
            [w EXCEPT ![a][b] = << >>] \in Queues
    BY DEF Queues
  <2>2. cut = [[wires EXCEPT ![n][k] = << >>] EXCEPT ![k][n] = << >>]
    OBVIOUS
  <2>3. wires \in Queues
    BY <1>2 DEF GossipTypeOK
  <2>4. [wires EXCEPT ![n][k] = << >>] \in Queues
    BY <2>1, <2>3
  <2> QED
    BY <2>1, <2>2, <2>4
<1>5. wires' \in Queues
  <2>1. SendAll(cut, n, promoted(n), Control("GRAFT")) \in Queues
    BY <1>4, MessagesAreMessages, SendAllKeepsQueues
  <2> HIDE DEF promoted, cut
  <2>2. SendAll(SendAll(cut, n, promoted(n), Control("GRAFT")), k, promoted(k), Control("GRAFT"))
            \in Queues
    BY <2>1, MessagesAreMessages, SendAllKeepsQueues
  <2> QED
    BY <1>1, <2>2 DEF promoted, cut
<1>6. /\ eagerNeighbors' = [p \in Gossipers |-> (eagerNeighbors[p] \ gone(p)) \cup promoted(p)]
      /\ lazyNeighbors' = [p \in Gossipers |-> lazyNeighbors[p] \ (gone(p) \cup promoted(p))]
  BY <1>1
<1> HIDE DEF promoted
<1>7. GossipTypeOK'
  BY <1>2, <1>3, <1>5, <1>6 DEF GossipTypeOK
<1>8. UnseenIsUndelivered'
  BY <1>2 DEF GossipInv, UnseenIsUndelivered
<1>9. OverlaysAreApart'
  BY <1>3, <1>6 DEF GossipInv, OverlaysAreApart
<1>10. ASSUME NEW a \in Gossipers, NEW b \in Gossipers, {a, b} \in linked', a # b
       PROVE  (b \in eagerNeighbors'[a]) # (b \in lazyNeighbors'[a])
  <2>1. {a, b} \in linked /\ {a, b} # {n, k}
    BY <1>2, <1>10
  <2>2. b \in eagerNeighbors[a] \/ b \in lazyNeighbors[a]
    BY <1>10, <2>1 DEF GossipInv, LinksAreUsed
  <2>3. b \notin gone(a)
    BY <2>1
  <2>4. b \in eagerNeighbors'[a] \/ b \in lazyNeighbors'[a]
    BY <1>6, <2>2, <2>3
  <2> QED
    BY <1>9, <2>4 DEF OverlaysAreApart
<1> QED
  BY <1>7, <1>8, <1>9, <1>10 DEF GossipInv, LinksAreUsed

\* The overlays after a step that moves one neighbour k of n, or nobody, from one to the
\* other, and leaves the links alone
Moves(n, k) ==
    /\ linked' = linked
    /\ \/ UNCHANGED <<eagerNeighbors, lazyNeighbors>>
       \/ /\ eagerNeighbors' = [eagerNeighbors EXCEPT ![n] = @ \cup {k}]
          /\ lazyNeighbors' = [lazyNeighbors EXCEPT ![n] = @ \ {k}]
       \/ /\ eagerNeighbors' = [eagerNeighbors EXCEPT ![n] = @ \ {k}]
          /\ lazyNeighbors' = [lazyNeighbors EXCEPT ![n] = @ \cup {k}]

\* Such a step keeps the overlays apart and the links used.
LEMMA MovesKeepOverlays ==
    ASSUME GossipInv, NEW n \in Gossipers, NEW k \in Gossipers, Moves(n, k)
    PROVE  /\ OverlaysAreApart' /\ LinksAreUsed'
           /\ eagerNeighbors' \in [Gossipers -> SUBSET Gossipers]
           /\ lazyNeighbors' \in [Gossipers -> SUBSET Gossipers]
<1>1. GossipTypeOK
  BY DEF GossipInv
<1> DEFINE Held ==
               /\ eagerNeighbors' \in [Gossipers -> SUBSET Gossipers]
               /\ lazyNeighbors' \in [Gossipers -> SUBSET Gossipers]
               /\ OverlaysAreApart'
               /\ \A a \in Gossipers : eagerNeighbors[a] \cup lazyNeighbors[a]
                      \subseteq eagerNeighbors'[a] \cup lazyNeighbors'[a]
<1>2. ASSUME UNCHANGED <<eagerNeighbors, lazyNeighbors>> PROVE Held
  BY <1>1, <1>2 DEF GossipInv, GossipTypeOK, OverlaysAreApart
<1>3. ASSUME eagerNeighbors' = [eagerNeighbors EXCEPT ![n] = @ \cup {k}],
             lazyNeighbors' = [lazyNeighbors EXCEPT ![n] = @ \ {k}]
      PROVE  Held
  <2>1. \A a \in Gossipers :
            /\ eagerNeighbors'[a] = IF a = n THEN eagerNeighbors[a] \cup {k} ELSE eagerNeighbors[a]
            /\ lazyNeighbors'[a] = IF a = n THEN lazyNeighbors[a] \ {k} ELSE lazyNeighbors[a]
    BY <1>1, <1>3 DEF GossipTypeOK
  <2> QED
    BY <1>1, <1>3, <2>1 DEF GossipInv, GossipTypeOK, OverlaysAreApart
<1>4. ASSUME eagerNeighbors' = [eagerNeighbors EXCEPT ![n] = @ \ {k}],
             lazyNeighbors' = [lazyNeighbors EXCEPT ![n] = @ \cup {k}]
      PROVE  Held
  <2>1. \A a \in Gossipers :
            /\ eagerNeighbors'[a] = IF a = n THEN eagerNeighbors[a] \ {k} ELSE eagerNeighbors[a]
            /\ lazyNeighbors'[a] = IF a = n THEN lazyNeighbors[a] \cup {k} ELSE lazyNeighbors[a]
    BY <1>1, <1>4 DEF GossipTypeOK
  <2> QED
    BY <1>1, <1>4, <2>1 DEF GossipInv, GossipTypeOK, OverlaysAreApart
<1>5. Held
  BY <1>2, <1>3, <1>4 DEF Moves
<1>6. ASSUME NEW a \in Gossipers, NEW b \in Gossipers, {a, b} \in linked', a # b
      PROVE  (b \in eagerNeighbors'[a]) # (b \in lazyNeighbors'[a])
  <2>1. b \in eagerNeighbors[a] \/ b \in lazyNeighbors[a]
    BY <1>6 DEF GossipInv, Moves, LinksAreUsed
  <2> QED
    BY <1>5, <2>1 DEF OverlaysAreApart
<1> QED
  BY <1>5, <1>6 DEF LinksAreUsed

\* Publishing keeps the invariant.
LEMMA PublishKeepsGossip ==
    ASSUME GossipInv, NEW n \in Gossipers, NEW m \in Gossip, publishEvent(n, m)
    PROVE  GossipInv'
<1>1. /\ GossipTypeOK
      /\ seenMessages' = [seenMessages EXCEPT ![n] = @ \cup {m}]
      /\ pendingIHave' = [pendingIHave EXCEPT ![n] = @ \cup {m}]
      /\ wires' = SendAll(wires, n, eagerNeighbors[n], Data(m))
      /\ UNCHANGED <<linked, eagerNeighbors, lazyNeighbors, graftTimers, delivered>>
  BY DEF publishEvent, GossipInv
<1>2. wires' \in Queues
  <2>1. wires \in Queues
    BY <1>1 DEF GossipTypeOK
  <2> QED
    BY <1>1, <2>1, MessagesAreMessages, SendAllKeepsQueues
<1>3. GossipTypeOK'
  BY <1>1, <1>2 DEF GossipTypeOK
<1> QED
  BY <1>1, <1>3 DEF GossipInv, GossipTypeOK, UnseenIsUndelivered, OverlaysAreApart, LinksAreUsed

\* So does a message that is handled: one that is new is delivered and remembered at once,
\* and whoever sent it is moved between the overlays, never out of both.
LEMMA HandlingKeepsGossip ==
    ASSUME GossipInv, NEW n \in Gossipers, NEW k \in Gossipers, HandleMessage(n, k)
    PROVE  GossipInv'
<1> DEFINE msg == Head(wires[k][n])
           rest == [wires EXCEPT ![k][n] = Tail(@)]
           wanted == {m \in msg.ids : m \notin seenMessages[n] /\ graftTimers[n][m] = None}
<1>1. /\ GossipTypeOK /\ wires \in Queues /\ wires[k][n] \in Seq(GossipMessage)
      /\ wires[k][n] # << >> /\ linked' = linked
  BY DEF HandleMessage, GossipInv, GossipTypeOK, Queues
<1>2. msg \in GossipMessage /\ Tail(wires[k][n]) \in Seq(GossipMessage)
  BY <1>1, WaitingTail
<1>3. rest \in Queues /\ msg.ids \subseteq Gossip
  BY <1>1, <1>2 DEF GossipMessage, Queues
<1>4. ASSUME graftTimers' \in [Gossipers -> [Gossip -> Gossipers \cup {None}]],
             wires' \in Queues, Moves(n, k),
             \/ UNCHANGED <<seenMessages, delivered, pendingIHave>>
             \/ \E m \in Gossip \ seenMessages[n] :
                    /\ seenMessages' = [seenMessages EXCEPT ![n] = @ \cup {m}]
                    /\ delivered' = [delivered EXCEPT ![n][m] = IF @ < 2 THEN @ + 1 ELSE @]
                    /\ pendingIHave' = [pendingIHave EXCEPT ![n] = @ \cup {m}]
      PROVE  GossipInv'
  <2>1. /\ OverlaysAreApart' /\ LinksAreUsed'
        /\ eagerNeighbors' \in [Gossipers -> SUBSET Gossipers]
        /\ lazyNeighbors' \in [Gossipers -> SUBSET Gossipers]
    BY <1>4, MovesKeepOverlays
  <2>2. /\ seenMessages' \in [Gossipers -> SUBSET Gossip]
        /\ pendingIHave' \in [Gossipers -> SUBSET Gossip]
        /\ delivered' \in [Gossipers -> [Gossip -> 0 .. 1]]
        /\ UnseenIsUndelivered'
    <3>1. CASE UNCHANGED <<seenMessages, delivered, pendingIHave>>
      BY <1>1, <3>1 DEF GossipInv, GossipTypeOK, UnseenIsUndelivered
    <3>2. ASSUME NEW m \in Gossip \ seenMessages[n],
                 seenMessages' = [seenMessages EXCEPT ![n] = @ \cup {m}],
                 delivered' = [delivered EXCEPT ![n][m] = IF @ < 2 THEN @ + 1 ELSE @],
                 pendingIHave' = [pendingIHave EXCEPT ![n] = @ \cup {m}]
          PROVE  /\ seenMessages' \in [Gossipers -> SUBSET Gossip]
                 /\ pendingIHave' \in [Gossipers -> SUBSET Gossip]
                 /\ delivered' \in [Gossipers -> [Gossip -> 0 .. 1]]
                 /\ UnseenIsUndelivered'
      <4>1. delivered[n][m] = 0
        BY <3>2 DEF GossipInv, UnseenIsUndelivered
      <4>2. delivered' = [delivered EXCEPT ![n][m] = 1]
        BY <1>1, <3>2, <4>1 DEF GossipTypeOK
      <4> QED
        BY <1>1, <3>2, <4>2 DEF GossipInv, GossipTypeOK, UnseenIsUndelivered
    <3> QED
      BY <1>4, <3>1, <3>2
  <2> QED
    BY <1>4, <2>1, <2>2 DEF GossipInv, GossipTypeOK
<1>5. CASE msg.type = "GOSSIP_DATA"
  <2>1. PICK m \in msg.ids : IF m \in seenMessages[n] THEN Duplicate(n, k, rest)
                             ELSE Novel(n, k, m, rest)
    BY <1>5 DEF HandleMessage
  <2>2. graftTimers' \in [Gossipers -> [Gossip -> Gossipers \cup {None}]]
    <3>1. graftTimers' = [graftTimers EXCEPT ![n] =
              [i \in Gossip |-> IF i \in msg.ids THEN None ELSE @[i]]]
      BY <1>5 DEF HandleMessage
    <3> HIDE DEF msg
    <3> QED
      BY <1>1, <3>1 DEF GossipTypeOK
  <2>3. m \in Gossip /\ Control("PRUNE") \in GossipMessage /\ Data(m) \in GossipMessage
    BY <1>3, MessagesAreMessages
  <2> HIDE DEF msg, rest
  <2>4. CASE m \in seenMessages[n]
    <3>1. Duplicate(n, k, rest)
      BY <2>1, <2>4
    <3>2. wires' \in Queues
      <4>1. SendAll(rest, n, {k}, Control("PRUNE")) \in Queues
        BY <1>3, <2>3, SendAllKeepsQueues
      <4> QED
        BY <1>3, <3>1, <4>1 DEF Duplicate
    <3>3. Moves(n, k)
      BY <1>1, <3>1 DEF Duplicate, Moves
    <3> QED
      BY <1>4, <2>2, <3>1, <3>2, <3>3 DEF Duplicate
  <2>5. CASE m \notin seenMessages[n]
    <3>1. Novel(n, k, m, rest)
      BY <2>1, <2>5
    <3>2. wires' \in Queues
      <4>1. \A targets : SendAll(rest, n, targets, Data(m)) \in Queues
        BY <1>3, <2>3, SendAllKeepsQueues
      <4> QED
        BY <3>1, <4>1 DEF Novel
    <3>3. Moves(n, k)
      <4>1. CASE k \in lazyNeighbors[n]
        BY <1>1, <3>1, <4>1 DEF Novel, Moves
      <4>2. CASE k \notin lazyNeighbors[n]
        BY <1>1, <3>1, <4>2 DEF Novel, Moves, GossipTypeOK
      <4> QED
        BY <4>1, <4>2
    <3> QED
      BY <1>4, <2>2, <2>3, <2>5, <3>1, <3>2, <3>3 DEF Novel
  <2> QED
    BY <2>4, <2>5
<1>6. CASE msg.type = "IHAVE"
  <2>1. /\ graftTimers' = [graftTimers EXCEPT ![n] =
               [m \in Gossip |-> IF m \in wanted THEN k ELSE @[m]]]
        /\ wires' = rest
        /\ UNCHANGED <<eagerNeighbors, lazyNeighbors, seenMessages, pendingIHave, delivered>>
    BY <1>6 DEF HandleMessage
  <2> HIDE DEF rest, wanted
  <2>2. graftTimers' \in [Gossipers -> [Gossip -> Gossipers \cup {None}]]
    BY <1>1, <2>1 DEF GossipTypeOK
  <2> QED
    BY <1>1, <1>3, <1>4, <2>1, <2>2 DEF Moves
<1>7. CASE msg.type \in {"GRAFT", "PRUNE"}
  <2>1. /\ IF msg.type = "GRAFT" THEN OnGraft(n, k) ELSE OnPrune(n, k)
        /\ wires' = rest
        /\ UNCHANGED <<seenMessages, graftTimers, pendingIHave, delivered>>
    BY <1>7 DEF HandleMessage
  <2> HIDE DEF rest, msg
  <2>2. Moves(n, k)
    BY <1>1, <2>1 DEF OnGraft, OnPrune, Moves
  <2> QED
    BY <1>1, <1>3, <1>4, <2>1, <2>2 DEF GossipTypeOK
<1> QED
  BY <1>5, <1>6, <1>7 DEF HandleMessage

\* So do the two timers.
LEMMA TimersKeepGossip ==
    ASSUME GossipInv, NEW n \in Gossipers,
           IHaveLoop(n) \/ \E m \in Gossip : GraftTimer(n, m)
    PROVE  GossipInv'
<1>1. GossipTypeOK /\ wires \in Queues
  BY DEF GossipInv, GossipTypeOK
<1>2. CASE IHaveLoop(n)
  <2>1. IHave(pendingIHave[n]) \in GossipMessage
    BY <1>1, MessagesAreMessages DEF GossipTypeOK
  <2>2. wires' \in Queues
    BY <1>1, <1>2, <2>1, SendAllKeepsQueues DEF IHaveLoop
  <2> QED
    BY <1>1, <1>2, <2>2 DEF IHaveLoop, GossipInv, GossipTypeOK, UnseenIsUndelivered,
       OverlaysAreApart, LinksAreUsed
<1>3. ASSUME NEW m \in Gossip, GraftTimer(n, m) PROVE GossipInv'
  <2> DEFINE k == graftTimers[n][m]
  <2>1. /\ k \in Gossipers /\ linked' = linked
        /\ graftTimers' = [graftTimers EXCEPT ![n][m] = None]
        /\ UNCHANGED <<seenMessages, pendingIHave, delivered>>
        /\ \/ UNCHANGED <<eagerNeighbors, lazyNeighbors, wires>>
           \/ /\ lazyNeighbors' = [lazyNeighbors EXCEPT ![n] = @ \ {k}]
              /\ eagerNeighbors' = [eagerNeighbors EXCEPT ![n] = @ \cup {k}]
              /\ wires' = SendAll(wires, n, {k}, Control("GRAFT"))
    BY <1>1, <1>3 DEF GraftTimer, GossipTypeOK
  <2> HIDE DEF k
  <2>2. Moves(n, k)
    BY <2>1 DEF Moves
  <2>3. wires' \in Queues
    <3>1. SendAll(wires, n, {k}, Control("GRAFT")) \in Queues
      BY <1>1, MessagesAreMessages, SendAllKeepsQueues
    <3> QED
      BY <1>1, <2>1, <3>1
  <2>4. graftTimers' \in [Gossipers -> [Gossip -> Gossipers \cup {None}]]
    BY <1>1, <2>1 DEF GossipTypeOK
  <2>5. /\ OverlaysAreApart' /\ LinksAreUsed'
        /\ eagerNeighbors' \in [Gossipers -> SUBSET Gossipers]
        /\ lazyNeighbors' \in [Gossipers -> SUBSET Gossipers]
    BY <2>1, <2>2, MovesKeepOverlays
  <2> QED
    BY <1>1, <2>1, <2>3, <2>4, <2>5 DEF GossipInv, GossipTypeOK, UnseenIsUndelivered
<1> QED
  BY <1>2, <1>3

\* So every step of the overlays keeps the invariant.
LEMMA GossipStep == GossipInv /\ [GossipNext]_gossipVars => GossipInv'
<1> SUFFICES ASSUME GossipInv, [GossipNext]_gossipVars PROVE GossipInv'
  OBVIOUS
<1>1. CASE UNCHANGED gossipVars
  BY <1>1 DEF gossipVars, GossipInv, GossipTypeOK, UnseenIsUndelivered, OverlaysAreApart,
     LinksAreUsed
<1> QED
  BY <1>1, LinkKeepsGossip, UnlinkKeepsGossip, PublishKeepsGossip, HandlingKeepsGossip,
     TimersKeepGossip DEF GossipNext

\* No message is delivered twice, and every link is in exactly one overlay of either end,
\* however many browsers and messages there are, and through any order of prunes, grafts,
\* timers and reconnections (handleMessage, addPeer, removePeer).
THEOREM GossipReachesOnce == GossipSpec => [](DeliveredOnce /\ LinksAreUsed)
<1>1. GossipInv => DeliveredOnce /\ LinksAreUsed
  <2> SUFFICES ASSUME GossipInv PROVE DeliveredOnce /\ LinksAreUsed
    OBVIOUS
  <2>1. \A n \in Gossipers, m \in Gossip : delivered[n][m] \in 0 .. 1
    BY DEF GossipInv, GossipTypeOK
  <2> QED
    BY <2>1 DEF GossipInv, DeliveredOnce
<1> QED
  BY <1>1, GossipInitially, GossipStep, PTL DEF GossipSpec

\* The mesh as a whole is sound: one connection per pair that both ends know of, used by
\* the overlay in one way, bringing every message once, and judged by what came over it.
THEOREM MeshStaysSound == MeshSpec /\ GossipSpec /\ ScoreSpec => []MeshIsSound
<1>1. (OneSideOffers /\ NewcomersAreMet /\ DeliveredOnce /\ LinksAreUsed /\ FlagsFollowScore)
          => MeshIsSound
  BY DEF MeshIsSound
<1> QED
  BY <1>1, TabsAreMet, GossipReachesOnce, FlagsAlwaysFollow, PTL

-----------------------------------------------------------------------------
(***************************************************************************)
(* The optimistic engine for any slices, mutations and events: what the    *)
(* cache shows of the chain is never undone by a rollback, and a guess     *)
(* that failed alone is not left behind.                                   *)
(***************************************************************************)

OptTypeOK ==
    /\ fed \in [Slices -> Nat]
    /\ slice \in [Slices -> SliceData]
    /\ inflight \in [Mutations -> Inflight \cup {None}]
    /\ fate \in [Mutations -> {"new", "pending", "sent", "failed"}]

\* A mutation is in flight only while its call is pending, and builds on a version that
\* was fed: so the next event of its slice puts an end to it.
FlightsArePending ==
    \A m \in Mutations : inflight[m] # None =>
        /\ fate[m] = "pending"
        /\ inflight[m].baseVersion <= fed[inflight[m].slice]

NewestInv == OptTypeOK /\ FlightsArePending /\ ChainDataIsNewest

\* A guess that may stay: its call went through, or it overlapped with another.
MayStay(m) == m \in overlapped \/ fate[m] = "sent"

\* Two in flight on one slice have overlapped; a guess that is shown or remembered is of
\* a mutation in flight there or may stay.
GuessInv ==
    /\ \A m, n \in Mutations :
           m # n /\ inflight[m] # None /\ inflight[n] # None /\ inflight[m].slice = inflight[n].slice
               => m \in overlapped
    /\ \A s \in Slices, m \in Mutations :
           slice[s].guess = m => MayStay(m) \/ (inflight[m] # None /\ inflight[m].slice = s)
    /\ \A m, n \in Mutations :
           inflight[n] # None /\ inflight[n].previousData.guess = m => MayStay(m)
-----------------------------------------------------------------------------
USE OptimisticAssumption

\* The first state of the optimistic cache satisfies both invariants.
LEMMA OptInitially == OptInit => NewestInv /\ GuessInv
BY DEF OptInit, NewestInv, GuessInv, OptTypeOK, FlightsArePending, ChainDataIsNewest,
       FromChain, SliceData, Inflight

\* Whatever ends a mutation: an event of a slice ends all that are in flight there.
LEMMA EventsEndFlights ==
    ASSUME OptTypeOK, FlightsArePending, NEW s \in Slices, NEW actor
    PROVE  Superseded(s, actor, fed[s] + 1) = InflightOn(s)
<1> SUFFICES ASSUME NEW m \in InflightOn(s) PROVE fed[s] + 1 > inflight[m].baseVersion
  BY DEF Superseded
<1>1. m \in Mutations /\ inflight[m] \in Inflight /\ inflight[m].slice = s
  BY DEF InflightOn, OptTypeOK
<1>2. inflight[m].baseVersion <= fed[s] /\ inflight[m].baseVersion \in Nat /\ fed[s] \in Nat
  BY <1>1 DEF FlightsArePending, OptTypeOK, Inflight, InflightOn
<1> QED
  BY <1>2

\* Beginning a mutation keeps the data of the chain as new as its last event.
LEMMA BeginKeepsNewest ==
    ASSUME NewestInv, NEW m \in Mutations, NEW s \in Slices, BeginMutation(m, s)
    PROVE  NewestInv'
<1> USE DEF NewestInv, BeginMutation
<1> DEFINE new == [slice |-> s, baseVersion |-> fed[s], previousData |-> slice[s]]
<1>1. new \in Inflight /\ Guess(m) \in SliceData
  BY DEF OptTypeOK, Inflight, SliceData, Guess
<1>2. OptTypeOK'
  BY <1>1 DEF OptTypeOK
<1>3. FlightsArePending'
  BY DEF FlightsArePending, OptTypeOK
<1>4. ChainDataIsNewest'
  BY DEF ChainDataIsNewest, OptTypeOK, Guess
<1> QED
  BY <1>2, <1>3, <1>4

\* Settling one does, sent or failed.
LEMMA SettleKeepsNewest ==
    ASSUME NewestInv, NEW m \in Mutations, NEW outcome \in {"sent", "failed"},
           SettleMutation(m, outcome)
    PROVE  NewestInv'
<1> USE DEF NewestInv, SettleMutation
<1>1. inflight[m] # None => inflight[m] \in Inflight
  BY DEF OptTypeOK
<1>2. OptTypeOK'
  BY <1>1 DEF OptTypeOK, Inflight
<1>3. FlightsArePending'
  BY DEF FlightsArePending, OptTypeOK
<1>4. ChainDataIsNewest'
  <2>1. ASSUME NEW n \in Mutations, inflight'[n] # None
        PROVE  n # m /\ inflight'[n] = inflight[n]
    BY <2>1 DEF OptTypeOK
  <2>2. ASSUME NEW s \in Slices, slice'[s].guess = None PROVE slice'[s].chain = fed[s]
    BY <1>1, <2>2 DEF ChainDataIsNewest, OptTypeOK, Inflight
  <2> QED
    BY <2>1, <2>2 DEF ChainDataIsNewest
<1> QED
  BY <1>2, <1>3, <1>4

\* An event of the chain does.
LEMMA EventKeepsNewest ==
    ASSUME NewestInv, NEW s \in Slices, NEW actor \in Actors, HandleChainEvent(s, actor)
    PROVE  NewestInv'
<1> USE DEF NewestInv
<1>1. /\ fed' = [fed EXCEPT ![s] = fed[s] + 1]
      /\ inflight' = [m \in Mutations |-> IF m \in InflightOn(s) THEN None ELSE inflight[m]]
      /\ slice' = [slice EXCEPT ![s] = FromChain(fed[s] + 1)]
      /\ fate' = fate
  BY EventsEndFlights DEF HandleChainEvent
<1>2. fed[s] + 1 \in Nat /\ FromChain(fed[s] + 1) \in SliceData
  BY DEF OptTypeOK, FromChain, SliceData
<1>3. ASSUME NEW m \in Mutations, inflight'[m] # None
      PROVE  /\ inflight'[m] = inflight[m] /\ inflight[m] \in Inflight
             /\ inflight[m].slice \in Slices \ {s}
             /\ fed'[inflight[m].slice] = fed[inflight[m].slice]
  BY <1>1, <1>3 DEF OptTypeOK, InflightOn, Inflight
<1>4. OptTypeOK'
  BY <1>1, <1>2 DEF OptTypeOK
<1>5. FlightsArePending'
  BY <1>1, <1>3 DEF FlightsArePending
<1>6. ChainDataIsNewest'
  <2>1. ASSUME NEW z \in Slices, slice'[z].guess = None PROVE slice'[z].chain = fed'[z]
    BY <1>1, <2>1 DEF ChainDataIsNewest, OptTypeOK, FromChain
  <2> QED
    BY <1>1, <1>3, <2>1 DEF ChainDataIsNewest
<1> QED
  BY <1>4, <1>5, <1>6

\* So every step does.
LEMMA NewestStep == NewestInv /\ [OptNext]_optVars => NewestInv'
<1> SUFFICES ASSUME NewestInv, [OptNext]_optVars PROVE NewestInv'
  OBVIOUS
<1>1. ASSUME NEW m \in Mutations, NEW s \in Slices, BeginMutation(m, s) PROVE NewestInv'
  BY <1>1, BeginKeepsNewest
<1>2. ASSUME NEW m \in Mutations, NEW outcome \in {"sent", "failed"},
             SettleMutation(m, outcome)
      PROVE  NewestInv'
  BY <1>2, SettleKeepsNewest
<1>3. ASSUME NEW s \in Slices, NEW actor \in Actors, HandleChainEvent(s, actor)
      PROVE  NewestInv'
  BY <1>3, EventKeepsNewest
<1>4. CASE UNCHANGED <<fed, slice, inflight, fate>>
  BY <1>4 DEF NewestInv, OptTypeOK, FlightsArePending, ChainDataIsNewest
<1> QED
  BY <1>1, <1>2, <1>3, <1>4 DEF OptNext, ClearConflict, optVars

\* And what is of the chain is always of its last event.
THEOREM NewestInvariant == OptSpec => []NewestInv
  BY OptInitially, NewestStep, PTL DEF OptSpec

\* Rolling back a failed mutation never undoes an event of the chain that came after it
\* began: the data of the chain that is shown, and what a mutation would put back, is of
\* the last event fed (handleChainEvent, settleMutation).
THEOREM ChainDataStaysNewest == OptSpec => []ChainDataIsNewest
<1>1. NewestInv => ChainDataIsNewest
  BY DEF NewestInv
<1> QED
  BY <1>1, NewestInvariant, PTL
-----------------------------------------------------------------------------
\* Beginning a mutation keeps every guess one in flight or one that may stay.
LEMMA BeginKeepsGuesses ==
    ASSUME NewestInv, GuessInv, NEW m \in Mutations, NEW s \in Slices, BeginMutation(m, s)
    PROVE  GuessInv'
<1> USE DEF NewestInv
<1> DEFINE new == [slice |-> s, baseVersion |-> fed[s], previousData |-> slice[s]]
<1>1. /\ new \in Inflight /\ inflight[m] = None /\ overlapped \subseteq overlapped'
      /\ inflight' = [inflight EXCEPT ![m] = new]
      /\ slice' = [slice EXCEPT ![s] = Guess(m)]
      /\ \A n \in Mutations \ {m} : fate'[n] = fate[n]
      /\ InflightOn(s) \subseteq overlapped'
      /\ InflightOn(s) # {} => m \in overlapped'
  BY DEF BeginMutation, OptTypeOK, Inflight, FlightsArePending
<1>2. new # None
  BY <1>1
<1>3. inflight'[m] = new /\ \A n \in Mutations \ {m} : inflight'[n] = inflight[n]
  BY <1>1 DEF OptTypeOK
<1>4. ASSUME NEW n \in Mutations, MayStay(n) PROVE MayStay(n)'
  BY <1>1, <1>4 DEF MayStay, BeginMutation, OptTypeOK
<1>5. ASSUME NEW a \in Mutations, NEW b \in Mutations, a # b,
             inflight'[a] # None, inflight'[b] # None, inflight'[a].slice = inflight'[b].slice
      PROVE  a \in overlapped'
  <2>1. CASE a = m
    <3>1. b \in InflightOn(s)
      BY <1>3, <1>5, <2>1 DEF InflightOn
    <3> QED
      BY <1>1, <2>1, <3>1
  <2>2. CASE b = m
    <3>1. a \in InflightOn(s)
      BY <1>3, <1>5, <2>2 DEF InflightOn
    <3> QED
      BY <1>1, <3>1
  <2>3. CASE a # m /\ b # m
    BY <1>1, <1>3, <1>5, <2>3 DEF GuessInv
  <2> QED
    BY <2>1, <2>2, <2>3
<1>6. ASSUME NEW z \in Slices, NEW n \in Mutations, slice'[z].guess = n
      PROVE  MayStay(n)' \/ (inflight'[n] # None /\ inflight'[n].slice = z)
  <2>1. CASE z = s
    <3>1. n = m
      BY <1>1, <1>6, <2>1 DEF Guess, OptTypeOK
    <3> QED
      BY <1>2, <1>3, <2>1, <3>1
  <2>2. CASE z # s
    <3>1. slice[z].guess = n
      BY <1>1, <1>6, <2>2 DEF OptTypeOK
    <3>2. MayStay(n) \/ (inflight[n] # None /\ inflight[n].slice = z)
      BY <3>1 DEF GuessInv
    <3> QED
      BY <1>1, <1>3, <1>4, <3>2
  <2> QED
    BY <2>1, <2>2
<1>7. ASSUME NEW a \in Mutations, NEW b \in Mutations,
             inflight'[b] # None, inflight'[b].previousData.guess = a
      PROVE  MayStay(a)'
  <2>1. CASE b = m
    <3>1. MayStay(a) \/ (inflight[a] # None /\ inflight[a].slice = s)
      BY <1>3, <1>7, <2>1 DEF GuessInv
    <3>2. (inflight[a] # None /\ inflight[a].slice = s) => a \in overlapped'
      BY <1>1 DEF InflightOn
    <3> QED
      BY <1>4, <3>1, <3>2 DEF MayStay
  <2>2. CASE b # m
    BY <1>3, <1>4, <1>7, <2>2 DEF GuessInv
  <2> QED
    BY <2>1, <2>2
<1> QED
  BY <1>5, <1>6, <1>7 DEF GuessInv

\* Settling one does: a guess it puts back may stay.
LEMMA SettleKeepsGuesses ==
    ASSUME NewestInv, GuessInv, NEW m \in Mutations, NEW outcome \in {"sent", "failed"},
           SettleMutation(m, outcome)
    PROVE  GuessInv'
<1> USE DEF NewestInv
<1>1. /\ inflight'[m] = None
      /\ \A n \in Mutations \ {m} : inflight'[n] = inflight[n] /\ fate'[n] = fate[n]
      /\ fate[m] = "pending" /\ fate'[m] = outcome
      /\ overlapped' = overlapped
  BY DEF SettleMutation, OptTypeOK
<1>2. ASSUME NEW n \in Mutations, MayStay(n) PROVE MayStay(n)'
  BY <1>1, <1>2 DEF MayStay
<1>3. ASSUME NEW z \in Slices, NEW n \in Mutations, slice'[z].guess = n
      PROVE  MayStay(n)' \/ (inflight'[n] # None /\ inflight'[n].slice = z)
  <2>1. CASE outcome = "failed" /\ inflight[m] # None /\ z = inflight[m].slice
    <3>1. slice'[z] = inflight[m].previousData
      BY <2>1 DEF SettleMutation, OptTypeOK
    <3> QED
      BY <1>2, <1>3, <2>1, <3>1 DEF GuessInv
  <2>2. CASE ~ (outcome = "failed" /\ inflight[m] # None /\ z = inflight[m].slice)
    <3>1. slice'[z] = slice[z]
      BY <2>2 DEF SettleMutation, OptTypeOK
    <3>2. MayStay(n) \/ (inflight[n] # None /\ inflight[n].slice = z)
      BY <1>3, <3>1 DEF GuessInv
    <3>3. CASE n = m
      BY <1>1, <1>2, <2>2, <3>2, <3>3 DEF MayStay
    <3>4. CASE n # m
      BY <1>1, <1>2, <3>2, <3>4
    <3> QED
      BY <3>3, <3>4
  <2> QED
    BY <2>1, <2>2
<1> QED
  BY <1>1, <1>2, <1>3 DEF GuessInv

\* An event of the chain does: it shows data of the chain.
LEMMA EventKeepsGuesses ==
    ASSUME NewestInv, GuessInv, NEW s \in Slices, NEW actor \in Actors,
           HandleChainEvent(s, actor)
    PROVE  GuessInv'
<1> USE DEF NewestInv
<1>1. /\ inflight' = [m \in Mutations |-> IF m \in InflightOn(s) THEN None ELSE inflight[m]]
      /\ slice' = [slice EXCEPT ![s] = FromChain(fed[s] + 1)]
      /\ fate' = fate /\ overlapped' = overlapped
  BY EventsEndFlights DEF HandleChainEvent
<1>2. \A m \in Mutations : inflight'[m] # None => inflight'[m] = inflight[m]
  BY <1>1
<1>3. ASSUME NEW z \in Slices, NEW n \in Mutations, slice'[z].guess = n
      PROVE  MayStay(n)' \/ (inflight'[n] # None /\ inflight'[n].slice = z)
  <2>1. z # s /\ slice[z].guess = n
    BY <1>1, <1>3 DEF FromChain, OptTypeOK
  <2>2. MayStay(n) \/ (inflight[n] # None /\ inflight[n].slice = z)
    BY <2>1 DEF GuessInv
  <2> QED
    BY <1>1, <2>1, <2>2 DEF MayStay, InflightOn
<1> QED
  BY <1>1, <1>2, <1>3 DEF GuessInv, MayStay

\* So every step keeps the invariant of guesses.
LEMMA GuessStep == NewestInv /\ GuessInv /\ [OptNext]_optVars => GuessInv'
<1> SUFFICES ASSUME NewestInv, GuessInv, [OptNext]_optVars PROVE GuessInv'
  OBVIOUS
<1>1. ASSUME NEW m \in Mutations, NEW s \in Slices, BeginMutation(m, s) PROVE GuessInv'
  BY <1>1, BeginKeepsGuesses
<1>2. ASSUME NEW m \in Mutations, NEW outcome \in {"sent", "failed"},
             SettleMutation(m, outcome)
      PROVE  GuessInv'
  BY <1>2, SettleKeepsGuesses
<1>3. ASSUME NEW s \in Slices, NEW actor \in Actors, HandleChainEvent(s, actor)
      PROVE  GuessInv'
  BY <1>3, EventKeepsGuesses
<1>4. CASE UNCHANGED <<fed, slice, inflight, fate, overlapped>>
  BY <1>4 DEF GuessInv, MayStay
<1> QED
  BY <1>1, <1>2, <1>3, <1>4 DEF OptNext, ClearConflict, optVars

\* The guess of a mutation that failed is not shown any more, unless another mutation
\* was in flight on the slice with it (settleMutation).
THEOREM FailedGuessesAreGone == OptSpec => []FailedGuessIsGone
<1>1. NewestInv /\ GuessInv => FailedGuessIsGone
  BY DEF NewestInv, GuessInv, FlightsArePending, MayStay, FailedGuessIsGone, Guess
<1>2. OptSpec => []GuessInv
  BY OptInitially, GuessStep, NewestInvariant, PTL DEF OptSpec
<1> QED
  BY <1>1, <1>2, NewestInvariant, PTL

\* What the cache shows is honest, for any slices, mutations and orders of events.
THEOREM CacheStaysHonest == OptSpec => []CacheIsHonest
<1>1. ChainDataIsNewest /\ FailedGuessIsGone => CacheIsHonest
  BY DEF CacheIsHonest
<1> QED
  BY <1>1, ChainDataStaysNewest, FailedGuessesAreGone, PTL

-----------------------------------------------------------------------------
(***************************************************************************)
(* The offline store, for any tabs, commitments and numbers of writes.     *)
(***************************************************************************)

Entry == [place : Seq(Clients), gone : BOOLEAN, version : Nat, pending : BOOLEAN]

\* A list to merge has a version of every commitment, but for those with a pending edit.
Mergeable(t, list) ==
    \A i \in Ids : list[i] \in Nat \/ (~stored[t][i].gone /\ stored[t][i].pending)

StoreInv ==
    /\ stored \in [Clients -> [Ids -> Entry]]
    /\ DOMAIN shown = Clients
    /\ \A t \in Clients : shown[t] # None => Mergeable(t, shown[t])
    /\ QueryMirrorsStore

OffInv ==
    /\ listed \in [Ids -> Nat]
    /\ \A t \in Clients : fetched[t] = None \/ fetched[t] \in [Ids -> Nat]
    /\ DOMAIN fetched = Clients
    /\ StoreInv

LEMMA StoreIsEmpty == OffInit => OffInv
BY DEF OffInit, OffInv, StoreInv, NoEntry, Entry, QueryMirrorsStore

LEMMA WritesAreEntries ==
    ASSUME NEW e \in Entry, NEW t \in Clients, NEW v \in Nat, NEW p \in BOOLEAN
    PROVE  /\ Write(t, e, v, p) \in Entry /\ Write(t, e, v, p) # e
           /\ [e EXCEPT !.gone = TRUE] \in Entry
<1>1. e.place \in Seq(Clients) BY DEF Entry
<1>2. Append(e.place, t) \in Seq(Clients) /\ Append(e.place, t) # e.place
      BY <1>1
<1>3. Write(t, e, v, p).place = Append(e.place, t) BY DEF Write
<1>4. Write(t, e, v, p) \in Entry BY <1>2 DEF Write, Entry
<1>5. [e EXCEPT !.gone = TRUE] \in Entry BY DEF Entry
<1> QED BY <1>2, <1>3, <1>4, <1>5

\* Merging a list changes every entry but a pending edit and what is gone.
LEMMA MergeOfEntry ==
    ASSUME StoreInv, NEW t \in Clients, NEW i \in Ids, NEW list, Mergeable(t, list)
    PROVE  /\ Merged(t, i, list) \in Entry
           /\ Merged(t, i, list) = stored[t][i] => stored[t][i].gone \/ stored[t][i].pending
           /\ ~stored[t][i].gone /\ stored[t][i].pending => Merged(t, i, list) = stored[t][i]
<1>1. CASE ~stored[t][i].gone /\ stored[t][i].pending
      BY <1>1 DEF Merged, StoreInv
<1>2. CASE list[i] \in Nat
      <2>1. stored[t][i] \in Entry BY DEF StoreInv
      <2>2. /\ Write(t, stored[t][i], list[i], FALSE) \in Entry
            /\ Write(t, stored[t][i], list[i], FALSE) # stored[t][i]
            /\ [stored[t][i] EXCEPT !.gone = TRUE] \in Entry
            BY <1>2, <2>1, WritesAreEntries
      <2>3. ~stored[t][i].gone => [stored[t][i] EXCEPT !.gone = TRUE] # stored[t][i]
            BY <2>1 DEF Entry
      <2> QED BY <2>1, <2>2, <2>3 DEF Merged
<1> QED BY <1>1, <1>2 DEF Mergeable

LEMMA JoinIsEntry == ASSUME NEW e \in Entry, NEW f \in Entry PROVE Joined(e, f) \in Entry
BY DEF Joined, Entry

\* What a store holds can be merged into it.
LEMMA ReadsAreMergeable ==
    ASSUME NEW entries \in [Ids -> Entry], NEW i \in Ids
    PROVE  Reads(entries)[i] \in Nat \/ (~entries[i].gone /\ entries[i].pending)
<1>1. entries[i] \in Entry OBVIOUS
<1> QED BY <1>1 DEF Reads, Entry

\* In a tab whose store gets other entries, the query has either those or, if they are no
\* others, what was there or has just been merged.
LEMMA ChangesAreShown ==
    ASSUME StoreInv, NEW t \in Clients, NEW entries \in [Ids -> Entry], NEW list,
           stored' = [stored EXCEPT ![t] = entries],
           shown' = [shown EXCEPT ![t] = list],
           \/ list = None
           \/ list = Reads(entries)
           \/ /\ entries = stored[t]
              /\ \/ list = shown[t]
                 \/ /\ Mergeable(t, list)
                    /\ \A i \in Ids : ~entries[i].gone => entries[i].pending
    PROVE  StoreInv'
<1>1. stored' \in [Clients -> [Ids -> Entry]] /\ DOMAIN shown' = Clients BY DEF StoreInv
<1>2. /\ stored'[t] = entries /\ shown'[t] = list
      /\ \A u \in Clients \ {t} : stored'[u] = stored[u] /\ shown'[u] = shown[u]
      BY DEF StoreInv
<1>3. ASSUME NEW u \in Clients, shown'[u] # None
      PROVE  /\ \A i \in Ids : shown'[u][i] \in Nat \/ (~stored'[u][i].gone /\ stored'[u][i].pending)
             /\ \/ shown'[u] = Reads(stored'[u])
                \/ \A i \in Ids : ~stored'[u][i].gone => stored'[u][i].pending
      <2>1. CASE stored'[u] = stored[u] /\ shown'[u] = shown[u]
            BY <1>3, <2>1 DEF StoreInv, QueryMirrorsStore, Mergeable
      <2>2. CASE u = t /\ list = Reads(entries)
            BY <1>2, <2>2, ReadsAreMergeable
      <2>3. CASE u = t /\ entries = stored[t] /\ Mergeable(t, list)
                 /\ \A i \in Ids : ~entries[i].gone => entries[i].pending
            BY <1>2, <2>3 DEF Mergeable
      <2> QED BY <1>2, <1>3, <2>1, <2>2, <2>3
<1> QED BY <1>1, <1>3 DEF StoreInv, QueryMirrorsStore, Mergeable, Reads

LEMMA StoreChangeIsShown ==
    ASSUME StoreInv, NEW t \in Clients, NEW entries \in [Ids -> Entry], StoreChanges(t, entries)
    PROVE  StoreInv'
<1> DEFINE list == IF shown[t] = None \/ entries = stored[t] THEN shown[t] ELSE Reads(entries)
<1>1. stored' = [stored EXCEPT ![t] = entries] /\ shown' = [shown EXCEPT ![t] = list]
      BY DEF StoreChanges
<1>2. \/ list = None \/ list = Reads(entries) \/ (entries = stored[t] /\ list = shown[t])
      OBVIOUS
<1> HIDE DEF list
<1> QED BY <1>1, <1>2, ChangesAreShown

LEMMA MergeIsShown ==
    ASSUME StoreInv, NEW t \in Clients, NEW list, Mergeable(t, list), MergeInto(t, list)
    PROVE  StoreInv' /\ \A i \in Ids : stored'[t][i] = Merged(t, i, list)
<1> DEFINE entries == [i \in Ids |-> Merged(t, i, list)]
           data == IF entries = stored[t] THEN list ELSE Reads(entries)
<1>1. /\ entries \in [Ids -> Entry]
      /\ \A i \in Ids : entries[i] = stored[t][i] => stored[t][i].gone \/ stored[t][i].pending
      BY MergeOfEntry
<1>2. stored' = [stored EXCEPT ![t] = entries] /\ shown' = [shown EXCEPT ![t] = data]
      BY DEF MergeInto
<1>3. \A i \in Ids : entries[i] = Merged(t, i, list) OBVIOUS
<1>4. \/ data = Reads(entries)
      \/ /\ entries = stored[t] /\ Mergeable(t, data)
         /\ \A i \in Ids : ~entries[i].gone => entries[i].pending
      <2> HIDE DEF entries
      <2> QED BY <1>1
<1> HIDE DEF entries, data
<1>5. StoreInv' BY <1>1, <1>2, <1>4, ChangesAreShown
<1>6. stored'[t] = entries BY <1>2 DEF StoreInv
<1> QED BY <1>3, <1>5, <1>6

\* Only fetches, their starts and other events of the query merge.
LEMMA FetchMerges ==
    ASSUME OffInv, NEW t \in Clients, Fetch(t) \/ FetchArrives(t) \/ QueryTouched(t)
    PROVE  \/ UNCHANGED <<stored, shown>>
           \/ \E list : Mergeable(t, list) /\ MergeInto(t, list)
<1>1. CASE Fetch(t)
      <2>1. CASE shown[t] = None BY <1>1, <2>1 DEF Fetch
      <2>2. CASE shown[t] # None
            <3>1. MergeInto(t, shown[t]) BY <1>1, <2>2 DEF Fetch
            <3>2. Mergeable(t, shown[t]) BY <2>2 DEF OffInv, StoreInv
            <3> QED BY <3>1, <3>2
      <2> QED BY <2>1, <2>2
<1>2. CASE FetchArrives(t)
      <2>1. MergeInto(t, fetched[t]) BY <1>2 DEF FetchArrives
      <2>2. fetched[t] \in [Ids -> Nat] BY <1>2 DEF FetchArrives, OffInv
      <2>3. Mergeable(t, fetched[t]) BY <2>2 DEF Mergeable
      <2> QED BY <2>1, <2>3
<1>3. CASE QueryTouched(t)
      <2>1. MergeInto(t, shown[t]) /\ shown[t] # None BY <1>3 DEF QueryTouched
      <2>2. Mergeable(t, shown[t]) BY <2>1 DEF OffInv, StoreInv
      <2> QED BY <2>1, <2>2
<1> QED BY <1>1, <1>2, <1>3

LEMMA StoreStays ==
    ASSUME StoreInv, UNCHANGED <<stored, shown>>
    PROVE  StoreInv'
BY DEF StoreInv, QueryMirrorsStore, Reads, Mergeable

LEMMA StoreHolds == OffInv /\ [OffNext]_offVars => OffInv'
<1> SUFFICES ASSUME OffInv, [OffNext]_offVars PROVE OffInv' OBVIOUS
<1>s. StoreInv BY DEF OffInv
<1>1. ASSUME NEW i \in Ids, BackendChanges(i) PROVE OffInv'
      <2>1. listed' \in [Ids -> Nat] BY <1>1 DEF BackendChanges, OffInv
      <2>2. StoreInv' BY <1>1, <1>s, StoreStays DEF BackendChanges
      <2> QED BY <1>1, <2>1, <2>2 DEF BackendChanges, OffInv
<1>2. ASSUME NEW t \in Clients, Fetch(t) \/ FetchArrives(t) \/ QueryTouched(t) PROVE OffInv'
      <2>1. StoreInv' BY <1>2, <1>s, FetchMerges, MergeIsShown, StoreStays
      <2>2. /\ listed' = listed
            /\ \/ fetched' = [fetched EXCEPT ![t] = listed]
               \/ fetched' = [fetched EXCEPT ![t] = None]
               \/ fetched' = fetched
            BY <1>2 DEF Fetch, FetchArrives, QueryTouched
      <2> QED BY <2>1, <2>2 DEF OffInv
<1>4. ASSUME NEW t \in Clients, Hydrate(t) PROVE OffInv'
      <2>1. shown' = [shown EXCEPT ![t] = Reads(stored[t])] /\ UNCHANGED <<listed, stored, fetched>>
            BY <1>4 DEF Hydrate
      <2>2. stored[t] \in [Ids -> Entry] /\ stored' = [stored EXCEPT ![t] = stored[t]]
            BY <2>1, <1>s DEF StoreInv
      <2>3. StoreInv' BY <1>s, <2>1, <2>2, ChangesAreShown
      <2> QED BY <2>1, <2>3 DEF OffInv
<1>5. ASSUME NEW t \in Clients, NEW i \in Ids, EditOffline(t, i) PROVE OffInv'
      <2>1. stored[t] \in [Ids -> Entry] /\ stored[t][i] \in Entry BY <1>s DEF StoreInv
      <2>2. Write(t, stored[t][i], 0, TRUE) \in Entry BY <2>1, WritesAreEntries
      <2>3. [stored[t] EXCEPT ![i] = Write(t, @, 0, TRUE)] \in [Ids -> Entry]
            BY <2>1, <2>2
      <2>4. StoreInv' BY <1>5, <1>s, <2>3, StoreChangeIsShown DEF EditOffline
      <2> QED BY <1>5, <2>4 DEF EditOffline, OffInv
<1>6. ASSUME NEW t \in Clients, NEW u \in Clients, TabUpdate(t, u) PROVE OffInv'
      <2>1. [i \in Ids |-> Joined(stored[t][i], stored[u][i])] \in [Ids -> Entry]
            BY <1>s, JoinIsEntry DEF StoreInv
      <2>2. StoreInv' BY <1>6, <1>s, <2>1, StoreChangeIsShown DEF TabUpdate
      <2> QED BY <1>6, <2>2 DEF TabUpdate, OffInv
<1>7. CASE UNCHANGED offVars
      BY <1>7, <1>s, StoreStays DEF offVars, OffInv
<1> QED BY <1>1, <1>2, <1>4, <1>5, <1>6, <1>7 DEF OffNext

\* Only a fetch changes what is fetched, and it keeps what is pending.
LEMMA EditsAreKept ==
    ASSUME OffInv, [OffNext]_offVars, NEW t \in Clients, NEW i \in Ids,
           fetched'[t] # fetched[t], Reads(stored[t])[i] = -1
    PROVE  Reads(stored'[t])[i] = -1
<1>s. StoreInv BY DEF OffInv
<1>1. Fetch(t) \/ FetchArrives(t)
      BY DEF OffNext, offVars, BackendChanges, Fetch, FetchArrives, QueryTouched, Hydrate,
             EditOffline, TabUpdate, OffInv
<1>2. ~stored[t][i].gone /\ stored[t][i].pending
      BY <1>s DEF Reads, StoreInv, Entry
<1>3. stored'[t][i] = stored[t][i]
      <2>1. CASE stored' = stored BY <2>1
      <2>2. ASSUME NEW list, Mergeable(t, list), MergeInto(t, list) PROVE stored'[t][i] = stored[t][i]
            BY <1>s, <1>2, <2>2, MergeIsShown, MergeOfEntry
      <2> QED BY <1>1, <2>1, <2>2, FetchMerges
<1> QED BY <1>2, <1>3 DEF Reads

\* Every tab's query shows its store, and no fetch takes an edit made offline out of it.
THEOREM StoreIsShown == OffSpec => []QueryMirrorsStore /\ FetchKeepsEdits
<1>1. OffInv => QueryMirrorsStore BY DEF OffInv, StoreInv
<1>2. OffInv /\ [OffNext]_offVars =>
          [\A t \in Clients, i \in Ids :
              (fetched'[t] # fetched[t] /\ Reads(stored[t])[i] = -1)
                  => Reads(stored'[t])[i] = -1]_offVars
      BY EditsAreKept
<1> QED BY <1>1, <1>2, StoreIsEmpty, StoreHolds, PTL DEF OffSpec, FetchKeepsEdits

-----------------------------------------------------------------------------
(***************************************************************************)
(* The tabs of one origin, for any number of tabs and edits: an update in  *)
(* IndexedDB has reached every tab that loaded it, or is on its way there, *)
(* but for those that the tab skipped or that were made too early.         *)
(***************************************************************************)

TabMessage == [pub : Nat, kind : {"step1", "step2", "update"}, updates : SUBSET TabEdits]
Channels == [Tabs -> [Tabs -> Seq(TabMessage)]]

Contents(s) == {s[n] : n \in 1 .. Len(s)}

TabsTypeOK ==
    /\ tabDoc \in [Tabs -> SUBSET TabEdits]
    /\ connected \subseteq Tabs /\ loaded \subseteq connected
    /\ inDB \subseteq TabEdits /\ early \subseteq TabEdits
    /\ sendState \in [Tabs -> Nat]
    /\ channel \in Channels
    /\ skipped \in [Tabs -> SUBSET TabEdits]

\* What a tab has or is sent is in IndexedDB or was made early, and only updates carry any.
UpdatesAreKept ==
    /\ \A t \in Tabs : tabDoc[t] \subseteq inDB \cup early
    /\ \A t, u \in Tabs : \A m \in Contents(channel[t][u]) :
           m.updates \subseteq inDB \cup early /\ (m.kind # "update" => m.updates = {})

\* The update e has reached the tab u, or is in a message to it.
Comes(e, u) ==
    \/ e \in tabDoc[u] \cup skipped[u]
    \/ \E v \in Tabs : \E m \in Contents(channel[v][u]) : e \in m.updates

UpdatesArrive == \A u \in loaded : \A e \in inDB \ early : Comes(e, u)

TabInv == TabsTypeOK /\ UpdatesAreKept /\ UpdatesArrive

LEMMA ContentsAfter ==
    ASSUME NEW S, NEW s \in Seq(S), NEW r \in Seq(S)
    PROVE  /\ s \o r \in Seq(S) /\ Contents(s \o r) = Contents(s) \cup Contents(r)
           /\ s # << >> => /\ Tail(s) \in Seq(S) /\ Head(s) \in S /\ Head(s) \in Contents(s)
                           /\ Contents(Tail(s)) \subseteq Contents(s)
                           /\ Contents(s) \subseteq Contents(Tail(s)) \cup {Head(s)}
<1>1. s \o r \in Seq(S) /\ Contents(s \o r) = Contents(s) \cup Contents(r)
      <2>1. /\ s \o r \in Seq(S) /\ Len(s \o r) = Len(s) + Len(r)
            /\ Len(s) \in Nat /\ Len(r) \in Nat
            /\ \A n \in 1 .. Len(s) : (s \o r)[n] = s[n]
            /\ \A n \in 1 .. Len(r) : (s \o r)[Len(s) + n] = r[n]
            OBVIOUS
      <2>2. ASSUME NEW n \in 1 .. Len(s) + Len(r) PROVE (s \o r)[n] \in Contents(s) \cup Contents(r)
            <3>1. CASE n <= Len(s) BY <2>1, <3>1 DEF Contents
            <3>2. CASE n > Len(s)
                  <4>1. n - Len(s) \in 1 .. Len(r) /\ Len(s) + (n - Len(s)) = n BY <2>1, <3>2
                  <4>2. (s \o r)[n] = r[n - Len(s)] BY <2>1, <4>1
                  <4> QED BY <4>1, <4>2 DEF Contents
            <3> QED BY <2>1, <3>1, <3>2
      <2>3. \A n \in 1 .. Len(s) : s[n] \in Contents(s \o r)
            BY <2>1 DEF Contents
      <2>4. ASSUME NEW n \in 1 .. Len(r) PROVE r[n] \in Contents(s \o r)
            <3>1. Len(s) + n \in 1 .. Len(s \o r) BY <2>1
            <3> QED BY <2>1, <3>1 DEF Contents
      <2>5. ASSUME NEW x \in Contents(s \o r) PROVE x \in Contents(s) \cup Contents(r)
            <3>1. PICK n \in 1 .. Len(s \o r) : x = (s \o r)[n] BY DEF Contents
            <3> QED BY <2>1, <2>2, <3>1
      <2>6. ASSUME NEW x \in Contents(s) PROVE x \in Contents(s \o r)
            <3>1. PICK n \in 1 .. Len(s) : x = s[n] BY DEF Contents
            <3> QED BY <2>3, <3>1
      <2>7. ASSUME NEW x \in Contents(r) PROVE x \in Contents(s \o r)
            <3>1. PICK n \in 1 .. Len(r) : x = r[n] BY DEF Contents
            <3> QED BY <2>4, <3>1
      <2> QED BY <2>1, <2>5, <2>6, <2>7
<1>2. ASSUME s # << >>
      PROVE  /\ Tail(s) \in Seq(S) /\ Head(s) \in S /\ Head(s) \in Contents(s)
             /\ Contents(Tail(s)) \subseteq Contents(s)
             /\ Contents(s) \subseteq Contents(Tail(s)) \cup {Head(s)}
      <2>1. /\ Tail(s) \in Seq(S) /\ Head(s) \in S /\ Len(s) \in Nat \ {0} /\ Head(s) = s[1]
            /\ Len(Tail(s)) = Len(s) - 1
            /\ \A n \in 1 .. Len(s) - 1 : Tail(s)[n] = s[n + 1] BY <1>2
      <2>2. Head(s) \in Contents(s) BY <2>1 DEF Contents
      <2>3. Contents(Tail(s)) \subseteq Contents(s)
            <3> SUFFICES ASSUME NEW n \in 1 .. Len(s) - 1 PROVE Tail(s)[n] \in Contents(s)
                BY <2>1 DEF Contents
            <3>1. n + 1 \in 1 .. Len(s) BY <2>1
            <3> QED BY <2>1, <3>1 DEF Contents
      <2>4. Contents(s) \subseteq Contents(Tail(s)) \cup {Head(s)}
            <3> SUFFICES ASSUME NEW n \in 1 .. Len(s), n # 1 PROVE s[n] \in Contents(Tail(s))
                BY <2>1 DEF Contents
            <3>1. n - 1 \in 1 .. Len(s) - 1 /\ (n - 1) + 1 = n BY <2>1
            <3>2. Tail(s)[n - 1] = s[n] BY <2>1, <3>1
            <3> QED BY <2>1, <3>1, <3>2 DEF Contents
      <2> QED BY <2>1, <2>2, <2>3, <2>4
<1> QED BY <1>1, <1>2

\* What was on the channels is there, and what t sent, for all that are connected.
BroadcastArrives(t, chan, bodies) ==
    /\ sendState' \in [Tabs -> Nat] /\ channel' \in Channels
    /\ \A a, b \in Tabs :
           /\ Contents(chan[a][b]) \subseteq Contents(channel'[a][b])
           /\ \A x \in Contents(channel'[a][b]) \ Contents(chan[a][b]) :
                  \E n \in 1 .. Len(bodies) : x.kind = bodies[n].kind /\ x.updates = bodies[n].updates
    /\ \A b \in connected \ {t}, n \in 1 .. Len(bodies) :
           \E x \in Contents(channel'[t][b]) : x.updates = bodies[n].updates

LEMMA BroadcastSends ==
    ASSUME NEW t \in Tabs, NEW chan \in Channels, NEW bodies \in Seq(TabMessage),
           connected \subseteq Tabs, sendState \in [Tabs -> Nat], Broadcast(t, chan, bodies)
    PROVE  BroadcastArrives(t, chan, bodies)
<1> DEFINE sent == [n \in 1 .. Len(bodies) |-> [bodies[n] EXCEPT !.pub = sendState[t] + n]]
<1>1. /\ sendState' = [sendState EXCEPT ![t] = sendState[t] + Len(bodies)]
      /\ channel' = [chan EXCEPT ![t] = [u \in Tabs |->
             IF u \in connected \ {t} THEN chan[t][u] \o sent ELSE chan[t][u]]]
      BY DEF Broadcast
<1>2. Len(bodies) \in Nat /\ sendState[t] \in Nat OBVIOUS
<1>3. \A n \in 1 .. Len(bodies) :
          /\ sent[n] \in TabMessage
          /\ sent[n].kind = bodies[n].kind /\ sent[n].updates = bodies[n].updates
      <2> SUFFICES ASSUME NEW n \in 1 .. Len(bodies)
                   PROVE  /\ sent[n] \in TabMessage
                          /\ sent[n].kind = bodies[n].kind /\ sent[n].updates = bodies[n].updates
          OBVIOUS
      <2>1. bodies[n] \in TabMessage /\ sendState[t] + n \in Nat BY <1>2
      <2> QED BY <2>1 DEF TabMessage
<1>4. Len(sent) = Len(bodies) /\ sent \in Seq(TabMessage)
      BY <1>2, <1>3
<1> HIDE DEF sent
<1>5. ASSUME NEW u \in Tabs
      PROVE  /\ chan[t][u] \in Seq(TabMessage) /\ chan[t][u] \o sent \in Seq(TabMessage)
             /\ Contents(chan[t][u] \o sent) = Contents(chan[t][u]) \cup Contents(sent)
      <2>1. chan[t][u] \in Seq(TabMessage) BY DEF Channels
      <2> QED BY <1>4, <2>1, ContentsAfter
<1>6. channel' \in Channels
      <2>1. [u \in Tabs |-> IF u \in connected \ {t} THEN chan[t][u] \o sent ELSE chan[t][u]]
              \in [Tabs -> Seq(TabMessage)] BY <1>5
      <2> QED BY <1>1, <2>1 DEF Channels
<1>7. \A a, b \in Tabs : channel'[a][b] =
          IF a = t /\ b \in connected \ {t} THEN chan[t][b] \o sent ELSE chan[a][b]
      BY <1>1 DEF Channels
<1>8. \A x \in Contents(sent) : \E n \in 1 .. Len(bodies) : x = sent[n]
      BY <1>4 DEF Contents
<1>9. ASSUME NEW a \in Tabs, NEW b \in Tabs
      PROVE  /\ Contents(chan[a][b]) \subseteq Contents(channel'[a][b])
             /\ \A x \in Contents(channel'[a][b]) \ Contents(chan[a][b]) :
                  \E n \in 1 .. Len(bodies) : x.kind = bodies[n].kind /\ x.updates = bodies[n].updates
      <2>1. CASE a = t /\ b \in connected \ {t}
            <3>1. Contents(channel'[a][b]) = Contents(chan[a][b]) \cup Contents(sent)
                  BY <1>5, <1>7, <2>1
            <3>2. ASSUME NEW x \in Contents(sent)
                  PROVE  \E n \in 1 .. Len(bodies) : x.kind = bodies[n].kind /\ x.updates = bodies[n].updates
                  <4>1. PICK n \in 1 .. Len(bodies) : x = sent[n] BY <1>8
                  <4> QED BY <1>3, <4>1
            <3> QED BY <3>1, <3>2
      <2>2. CASE ~(a = t /\ b \in connected \ {t}) BY <1>7, <2>2
      <2> QED BY <2>1, <2>2
<1>10. ASSUME NEW b \in connected \ {t}, NEW n \in 1 .. Len(bodies)
       PROVE  \E x \in Contents(channel'[t][b]) : x.updates = bodies[n].updates
       <2>1. sent[n] \in Contents(sent) BY <1>4 DEF Contents
       <2>2. b \in Tabs OBVIOUS
       <2>3. sent[n] \in Contents(channel'[t][b]) BY <1>5, <1>7, <2>1, <2>2
       <2> QED BY <1>3, <2>3
<1>11. sendState' \in [Tabs -> Nat] BY <1>1, <1>2
<1> QED BY <1>6, <1>9, <1>10, <1>11 DEF BroadcastArrives

\* The same for one message.
SendsOne(t, chan, kind, updates) ==
    /\ sendState' \in [Tabs -> Nat] /\ channel' \in Channels
    /\ \A a, b \in Tabs :
           /\ Contents(chan[a][b]) \subseteq Contents(channel'[a][b])
           /\ \A x \in Contents(channel'[a][b]) \ Contents(chan[a][b]) :
                  x.kind = kind /\ x.updates = updates
    /\ \A b \in connected \ {t} : \E x \in Contents(channel'[t][b]) : x.updates = updates

LEMMA OneIsSent ==
    ASSUME NEW t \in Tabs, NEW chan \in Channels, NEW body \in TabMessage,
           connected \subseteq Tabs, sendState \in [Tabs -> Nat], Broadcast(t, chan, <<body>>)
    PROVE  SendsOne(t, chan, body.kind, body.updates)
<1> DEFINE bodies == <<body>>
<1>1. bodies \in Seq(TabMessage) /\ Len(bodies) = 1 /\ bodies[1] = body OBVIOUS
<1>2. Broadcast(t, chan, bodies) OBVIOUS
<1> HIDE DEF bodies
<1>3. BroadcastArrives(t, chan, bodies) BY <1>1, <1>2, BroadcastSends
<1>4. /\ sendState' \in [Tabs -> Nat] /\ channel' \in Channels
      /\ \A a, b \in Tabs : Contents(chan[a][b]) \subseteq Contents(channel'[a][b])
      BY <1>3 DEF BroadcastArrives
<1>5. ASSUME NEW a \in Tabs, NEW b \in Tabs, NEW x \in Contents(channel'[a][b]) \ Contents(chan[a][b])
      PROVE  x.kind = body.kind /\ x.updates = body.updates
      <2>1. PICK n \in 1 .. Len(bodies) : x.kind = bodies[n].kind /\ x.updates = bodies[n].updates
            BY <1>3 DEF BroadcastArrives
      <2>2. n = 1 BY <1>1
      <2> QED BY <1>1, <2>1, <2>2
<1>6. ASSUME NEW b \in connected \ {t}
      PROVE  \E x \in Contents(channel'[t][b]) : x.updates = body.updates
      <2>1. 1 \in 1 .. Len(bodies) BY <1>1
      <2>2. PICK x \in Contents(channel'[t][b]) : x.updates = bodies[1].updates
            BY <1>3, <2>1 DEF BroadcastArrives
      <2> QED BY <1>1, <2>2
<1> QED BY <1>4, <1>5, <1>6 DEF SendsOne

LEMMA TabsAreEmpty == TabInit => TabInv
<1> SUFFICES ASSUME TabInit PROVE TabInv OBVIOUS
<1>1. ASSUME NEW t \in Tabs, NEW u \in Tabs PROVE Contents(channel[t][u]) = {}
      <2>1. channel[t][u] = << >> BY DEF TabInit
      <2> QED BY <2>1 DEF Contents
<1>2. channel \in Channels
      <2>1. << >> \in Seq(TabMessage) OBVIOUS
      <2>2. [u \in Tabs |-> << >>] \in [Tabs -> Seq(TabMessage)] BY <2>1
      <2> QED BY <2>2 DEF TabInit, Channels
<1>3. TabsTypeOK BY <1>2 DEF TabInit, TabsTypeOK
<1>4. UpdatesAreKept BY <1>1 DEF TabInit, UpdatesAreKept
<1>5. UpdatesArrive BY DEF TabInit, UpdatesArrive
<1> QED BY <1>3, <1>4, <1>5 DEF TabInv

\* A step that loses no message, puts in IndexedDB what every loaded tab is told of, and
\* sends nothing that is not known.
LEMMA NothingIsLost ==
    ASSUME TabInv, TabsTypeOK',
           inDB \subseteq inDB', early \subseteq early',
           \A a \in Tabs : /\ tabDoc[a] \subseteq tabDoc'[a] /\ skipped[a] \subseteq skipped'[a]
                           /\ tabDoc'[a] \subseteq inDB' \cup early',
           \A a, b \in Tabs :
              /\ \A m \in Contents(channel[a][b]) \ Contents(channel'[a][b]) :
                     m.updates \subseteq tabDoc'[b] \cup skipped'[b]
              /\ \A m \in Contents(channel'[a][b]) \ Contents(channel[a][b]) :
                     m.updates \subseteq inDB' \cup early' /\ (m.kind # "update" => m.updates = {}),
           \A u \in loaded' : \A e \in inDB' \ early' :
              (u \in loaded /\ e \in inDB) \/ Comes(e, u)'
    PROVE  TabInv'
<1>1. UpdatesAreKept' BY DEF TabInv, UpdatesAreKept
<1>2. ASSUME NEW u \in loaded', NEW e \in inDB' \ early' PROVE Comes(e, u)'
      <2>1. CASE Comes(e, u)' BY <2>1
      <2>2. CASE u \in loaded /\ e \in inDB
            <3>1. u \in Tabs /\ e \notin early BY DEF TabsTypeOK
            <3>2. Comes(e, u) BY <2>2, <3>1 DEF TabInv, UpdatesArrive
            <3>3. CASE e \in tabDoc[u] \cup skipped[u] BY <3>1, <3>3 DEF Comes
            <3>4. ASSUME NEW v \in Tabs, NEW m \in Contents(channel[v][u]), e \in m.updates
                  PROVE  Comes(e, u)'
                  BY <3>1, <3>4 DEF Comes
            <3> QED BY <3>2, <3>3, <3>4 DEF Comes
      <2> QED BY <2>1, <2>2
<1> QED BY <1>1, <1>2 DEF TabInv, UpdatesArrive

LEMMA MessagesAreTyped ==
    /\ Step1 \in TabMessage /\ Step1.kind # "update" /\ Step1.updates = {}
    /\ Step2 \in TabMessage /\ Step2.kind # "update" /\ Step2.updates = {}
    /\ \A E \in SUBSET TabEdits :
           Update(E) \in TabMessage /\ Update(E).updates = E /\ Update(E).kind = "update"
BY DEF Step1, Step2, Update, TabMessage

LEMMA ConnectKeeps == ASSUME TabInv, NEW t \in Tabs, Connect(t) PROVE TabInv'
<1>1. /\ connected' = connected \cup {t} /\ Broadcast(t, channel, <<Step1>>)
      /\ UNCHANGED <<tabDoc, loaded, inDB, skipped, early>> BY DEF Connect
<1>2. TabsTypeOK /\ UpdatesAreKept BY DEF TabInv
<1>3. SendsOne(t, channel, "step1", {})
      <2>1. Step1 \in TabMessage /\ Step1.kind = "step1" /\ Step1.updates = {} BY DEF Step1, TabMessage
      <2> QED BY <1>1, <1>2, <2>1, OneIsSent DEF TabsTypeOK
<1>4. /\ sendState' \in [Tabs -> Nat] /\ channel' \in Channels
      /\ \A a, b \in Tabs :
            /\ Contents(channel[a][b]) \subseteq Contents(channel'[a][b])
            /\ \A m \in Contents(channel'[a][b]) \ Contents(channel[a][b]) : m.updates = {}
      BY <1>3 DEF SendsOne
<1>5. TabsTypeOK' BY <1>1, <1>2, <1>4 DEF TabsTypeOK
<1>6. \A u \in loaded' : \A e \in inDB' \ early' : u \in loaded /\ e \in inDB BY <1>1
<1> QED BY <1>1, <1>2, <1>4, <1>5, <1>6, NothingIsLost DEF UpdatesAreKept

LEMMA LoadKeeps == ASSUME TabInv, NEW t \in Tabs, Load(t) PROVE TabInv'
<1> DEFINE news == inDB \ tabDoc[t]
           bodies == IF news = {} THEN <<Step1>> ELSE <<Update(news), Step1>>
<1>1. /\ t \in connected \ loaded /\ loaded' = loaded \cup {t}
      /\ tabDoc' = [tabDoc EXCEPT ![t] = tabDoc[t] \cup inDB]
      /\ inDB' = inDB \cup tabDoc[t]
      /\ Broadcast(t, channel, bodies)
      /\ UNCHANGED <<connected, skipped, early>> BY DEF Load
<1>2. TabsTypeOK /\ UpdatesAreKept BY DEF TabInv
<1>3. /\ bodies \in Seq(TabMessage)
      /\ \A n \in 1 .. Len(bodies) :
             bodies[n].updates \subseteq inDB /\ (bodies[n].kind # "update" => bodies[n].updates = {})
      <2>1. news \in SUBSET TabEdits BY <1>2 DEF TabsTypeOK
      <2>2. Update(news) \in TabMessage /\ Update(news).updates \subseteq inDB
            /\ Update(news).kind = "update" BY <2>1, MessagesAreTyped
      <2>3. CASE news = {} BY <2>3, MessagesAreTyped
      <2>4. CASE news # {}
            <3> HIDE DEF news
            <3>1. bodies = <<Update(news), Step1>> BY <2>4
            <3>2. /\ Len(bodies) = 2 /\ bodies[1] = Update(news) /\ bodies[2] = Step1
                  /\ bodies \in Seq(TabMessage) BY <2>2, <3>1, MessagesAreTyped
            <3>3. \A n \in 1 .. Len(bodies) : n = 1 \/ n = 2 BY <3>2
            <3> QED BY <2>2, <3>2, <3>3, MessagesAreTyped
      <2> QED BY <2>3, <2>4
<1> HIDE DEF bodies
<1>4. BroadcastArrives(t, channel, bodies) BY <1>1, <1>2, <1>3, BroadcastSends DEF TabsTypeOK
<1>5. TabsTypeOK' BY <1>1, <1>2, <1>4 DEF TabsTypeOK, BroadcastArrives
<1>6. \A a, b \in Tabs :
          /\ Contents(channel[a][b]) \subseteq Contents(channel'[a][b])
          /\ \A m \in Contents(channel'[a][b]) \ Contents(channel[a][b]) :
                 m.updates \subseteq inDB' \cup early' /\ (m.kind # "update" => m.updates = {})
      <2> SUFFICES ASSUME NEW a \in Tabs, NEW b \in Tabs,
                          NEW m \in Contents(channel'[a][b]) \ Contents(channel[a][b])
                   PROVE  m.updates \subseteq inDB' \cup early' /\ (m.kind # "update" => m.updates = {})
          BY <1>4 DEF BroadcastArrives
      <2>1. PICK n \in 1 .. Len(bodies) : m.kind = bodies[n].kind /\ m.updates = bodies[n].updates
            BY <1>4 DEF BroadcastArrives
      <2> QED BY <1>1, <1>3, <2>1
<1>7. \A a \in Tabs : /\ tabDoc[a] \subseteq tabDoc'[a] /\ tabDoc'[a] \subseteq inDB' \cup early'
      BY <1>1, <1>2 DEF TabsTypeOK, UpdatesAreKept
<1>8. ASSUME NEW u \in loaded', NEW e \in inDB' \ early'
      PROVE  (u \in loaded /\ e \in inDB) \/ Comes(e, u)'
      <2>1. e \in inDB BY <1>1, <1>2 DEF UpdatesAreKept
      <2>2. u = t => e \in tabDoc'[u] BY <1>1, <1>2, <2>1 DEF TabsTypeOK
      <2> QED BY <1>1, <2>1, <2>2 DEF Comes
<1> QED BY <1>1, <1>5, <1>6, <1>7, <1>8, NothingIsLost

LEMMA EditKeeps == ASSUME TabInv, NEW t \in Tabs, NEW e \in TabEdits, EditTab(t, e) PROVE TabInv'
<1>1. /\ t \in connected /\ tabDoc' = [tabDoc EXCEPT ![t] = tabDoc[t] \cup {e}]
      /\ inDB' = IF t \in loaded THEN inDB \cup {e} ELSE inDB
      /\ early' = IF t \in loaded THEN early ELSE early \cup {e}
      /\ Broadcast(t, channel, <<Update({e})>>)
      /\ UNCHANGED <<connected, loaded, skipped>> BY DEF EditTab
<1>2. TabsTypeOK /\ UpdatesAreKept BY DEF TabInv
<1>3. SendsOne(t, channel, "update", {e})
      <2>1. Update({e}) \in TabMessage /\ Update({e}).updates = {e} /\ Update({e}).kind = "update"
            BY MessagesAreTyped
      <2> QED BY <1>1, <1>2, <2>1, OneIsSent DEF TabsTypeOK
<1>4. /\ sendState' \in [Tabs -> Nat] /\ channel' \in Channels
      /\ \A a, b \in Tabs :
            /\ Contents(channel[a][b]) \subseteq Contents(channel'[a][b])
            /\ \A m \in Contents(channel'[a][b]) \ Contents(channel[a][b]) :
                   m.updates = {e} /\ m.kind = "update"
      /\ \A b \in connected \ {t} : \E x \in Contents(channel'[t][b]) : x.updates = {e}
      BY <1>3 DEF SendsOne
<1>5. TabsTypeOK' BY <1>1, <1>2, <1>4 DEF TabsTypeOK
<1>6. \A a, b \in Tabs :
          /\ Contents(channel[a][b]) \subseteq Contents(channel'[a][b])
          /\ \A m \in Contents(channel'[a][b]) \ Contents(channel[a][b]) :
                 m.updates \subseteq inDB' \cup early' /\ (m.kind # "update" => m.updates = {})
      <2>1. {e} \subseteq inDB' \cup early' BY <1>1
      <2> QED BY <1>4, <2>1
<1>7. \A a \in Tabs : /\ tabDoc[a] \subseteq tabDoc'[a] /\ tabDoc'[a] \subseteq inDB' \cup early'
      BY <1>1, <1>2 DEF TabsTypeOK, UpdatesAreKept
<1>8. ASSUME NEW u \in loaded', NEW f \in inDB' \ early'
      PROVE  (u \in loaded /\ f \in inDB) \/ Comes(f, u)'
      <2>1. u \in loaded /\ u \in Tabs BY <1>1, <1>2 DEF TabsTypeOK
      <2>2. CASE f \in inDB BY <2>1, <2>2
      <2>3. CASE f = e /\ u = t
            <3>1. f \in tabDoc'[u] BY <1>1, <1>2, <2>3 DEF TabsTypeOK
            <3> QED BY <3>1 DEF Comes
      <2>4. CASE f = e /\ u # t
            <3>1. u \in connected \ {t} BY <1>2, <2>1, <2>4 DEF TabsTypeOK
            <3>2. PICK x \in Contents(channel'[t][u]) : x.updates = {e} BY <1>4, <3>1
            <3> QED BY <2>4, <3>2 DEF Comes
      <2> QED BY <1>1, <2>2, <2>3, <2>4
<1> QED BY <1>1, <1>5, <1>6, <1>7, <1>8, NothingIsLost

LEMMA ReceiveKeeps == ASSUME TabInv, NEW t \in Tabs, NEW u \in Tabs, Receive(t, u) PROVE TabInv'
<1> DEFINE message == Head(channel[t][u])
           chan == [channel EXCEPT ![t][u] = Tail(channel[t][u])]
<1>1. TabsTypeOK /\ UpdatesAreKept BY DEF TabInv
<1>2. channel[t][u] \in Seq(TabMessage) /\ channel[t][u] # << >>
      BY <1>1 DEF Receive, TabsTypeOK, Channels
<1>3. /\ Tail(channel[t][u]) \in Seq(TabMessage) /\ message \in TabMessage
      /\ message \in Contents(channel[t][u])
      /\ Contents(Tail(channel[t][u])) \subseteq Contents(channel[t][u])
      /\ Contents(channel[t][u]) \subseteq Contents(Tail(channel[t][u])) \cup {message}
      BY <1>2, ContentsAfter
<1>4. /\ chan \in Channels
      /\ \A a, b \in Tabs : chan[a][b] = IF a = t /\ b = u THEN Tail(channel[t][u]) ELSE channel[a][b]
      BY <1>1, <1>3 DEF TabsTypeOK, Channels
<1>5. /\ message.updates \subseteq inDB \cup early /\ message.updates \subseteq TabEdits
      /\ message.kind # "update" => message.updates = {}
      BY <1>1, <1>3 DEF UpdatesAreKept, TabMessage
<1>6. UNCHANGED <<connected, loaded, early>> BY DEF Receive
<1>7. /\ \/ channel' = chan /\ UNCHANGED sendState
         \/ Broadcast(u, chan, <<Step2>>)
      /\ \/ UNCHANGED <<tabDoc, inDB, skipped>> /\ message.updates = {}
         \/ UNCHANGED <<tabDoc, inDB>> /\ skipped' = [skipped EXCEPT ![u] = skipped[u] \cup message.updates]
         \/ /\ UNCHANGED skipped
            /\ tabDoc' = [tabDoc EXCEPT ![u] = tabDoc[u] \cup message.updates]
            /\ inDB' = inDB \/ inDB' = inDB \cup message.updates
      <2>1. CASE message.pub = lastReceivedPub[u] BY <2>1 DEF Receive
      <2>2. CASE message.pub # lastReceivedPub[u] /\ message.kind = "step2"
            BY <1>5, <2>2 DEF Receive
      <2>3. CASE message.pub # lastReceivedPub[u] /\ message.kind # "step2"
            <3>1. ReadMessage(u, chan, message) /\ UNCHANGED skipped BY <2>3 DEF Receive
            <3>2. CASE message.kind = "step1" BY <1>5, <3>1, <3>2 DEF ReadMessage
            <3>3. CASE message.kind # "step1" BY <3>1, <3>3 DEF ReadMessage
            <3> QED BY <3>2, <3>3
      <2> QED BY <2>1, <2>2, <2>3
<1>8. /\ sendState' \in [Tabs -> Nat] /\ channel' \in Channels
      /\ \A a, b \in Tabs :
             /\ Contents(chan[a][b]) \subseteq Contents(channel'[a][b])
             /\ \A m \in Contents(channel'[a][b]) \ Contents(chan[a][b]) : m.updates = {}
      <2>1. CASE channel' = chan /\ UNCHANGED sendState BY <1>1, <1>4, <2>1 DEF TabsTypeOK
      <2>2. CASE Broadcast(u, chan, <<Step2>>)
            <3> HIDE DEF chan, message
            <3>1. Step2 \in TabMessage /\ Step2.kind = "step2" /\ Step2.updates = {}
                  BY DEF Step2, TabMessage
            <3>2. /\ connected \subseteq Tabs /\ sendState \in [Tabs -> Nat] BY <1>1 DEF TabsTypeOK
            <3>3. chan \in Channels BY <1>4
            <3>4. SendsOne(u, chan, "step2", {}) BY <2>2, <3>1, <3>2, <3>3, OneIsSent
            <3> QED BY <3>4 DEF SendsOne
      <2> QED BY <1>7, <2>1, <2>2
<1> HIDE DEF message, chan
<1>9. /\ TabsTypeOK'
      /\ inDB \subseteq inDB' /\ inDB' \cup early' = inDB \cup early
      /\ message.updates \subseteq tabDoc'[u] \cup skipped'[u]
      /\ \A a \in Tabs : /\ tabDoc[a] \subseteq tabDoc'[a] /\ skipped[a] \subseteq skipped'[a]
                         /\ tabDoc'[a] \subseteq inDB' \cup early'
      <2>1. CASE UNCHANGED <<tabDoc, inDB, skipped>> /\ message.updates = {}
            BY <1>1, <1>6, <1>8, <2>1 DEF TabsTypeOK, UpdatesAreKept
      <2>2. CASE UNCHANGED <<tabDoc, inDB>> /\ skipped' = [skipped EXCEPT ![u] = skipped[u] \cup message.updates]
            BY <1>1, <1>5, <1>6, <1>8, <2>2 DEF TabsTypeOK, UpdatesAreKept
      <2>3. CASE /\ UNCHANGED skipped
                 /\ tabDoc' = [tabDoc EXCEPT ![u] = tabDoc[u] \cup message.updates]
                 /\ inDB' = inDB \/ inDB' = inDB \cup message.updates
            BY <1>1, <1>5, <1>6, <1>8, <2>3 DEF TabsTypeOK, UpdatesAreKept
      <2> QED BY <1>7, <2>1, <2>2, <2>3
<1>10. ASSUME NEW a \in Tabs, NEW b \in Tabs
       PROVE  /\ \A m \in Contents(channel[a][b]) \ Contents(channel'[a][b]) :
                     m.updates \subseteq tabDoc'[b] \cup skipped'[b]
              /\ \A m \in Contents(channel'[a][b]) \ Contents(channel[a][b]) : m.updates = {}
       <2>1. /\ Contents(chan[a][b]) \subseteq Contents(channel[a][b])
             /\ \A m \in Contents(channel[a][b]) \ Contents(chan[a][b]) : m = message /\ b = u
             BY <1>3, <1>4
       <2> QED BY <1>8, <1>9, <2>1
<1>11. \A w \in loaded' : \A e \in inDB' \ early' : w \in loaded /\ e \in inDB
       BY <1>6, <1>9
<1> QED BY <1>6, <1>9, <1>10, <1>11, NothingIsLost

LEMMA TabsHold == TabInv /\ [TabNext]_tabVars => TabInv'
<1> SUFFICES ASSUME TabInv, [TabNext]_tabVars PROVE TabInv' OBVIOUS
<1>1. CASE UNCHANGED tabVars
      <2>1. UNCHANGED <<tabDoc, connected, loaded, inDB, sendState, channel, skipped, early>>
            BY <1>1 DEF tabVars
      <2>2. TabsTypeOK' BY <2>1 DEF TabInv, TabsTypeOK
      <2> QED BY <2>1, <2>2, NothingIsLost DEF TabInv, UpdatesAreKept
<1> QED BY <1>1, ConnectKeeps, LoadKeeps, EditKeeps, ReceiveKeeps DEF TabNext

\* Of any number of tabs, opened when they like, those that have loaded IndexedDB and read
\* everything hold one document, but for updates taken for ones already received and those
\* made in a tab that had not loaded it (onMessage, SyncStore).
THEOREM TabsAgree == TabSpec => []QuietTabsAgree
<1>1. ASSUME TabInv, \A t, u \in Tabs : channel[t][u] = << >>,
             NEW t \in loaded, NEW u \in loaded
      PROVE  tabDoc[t] \subseteq tabDoc[u] \cup skipped[u] \cup early
      <2>1. t \in Tabs /\ u \in Tabs BY <1>1 DEF TabInv, TabsTypeOK
      <2>2. \A v, w \in Tabs : Contents(channel[v][w]) = {}
            <3>1. Contents(<< >>) = {} BY DEF Contents
            <3> QED BY <1>1, <3>1
      <2>3. \A e \in inDB \ early : e \in tabDoc[u] \cup skipped[u]
            BY <1>1, <2>1, <2>2 DEF TabInv, UpdatesArrive, Comes
      <2>4. tabDoc[t] \subseteq inDB \cup early BY <1>1, <2>1 DEF TabInv, UpdatesAreKept
      <2> QED BY <2>3, <2>4
<1>2. TabInv => QuietTabsAgree BY <1>1 DEF QuietTabsAgree
<1> QED BY <1>2, TabsAreEmpty, TabsHold, PTL DEF TabSpec

\* The offline documents as a whole: queries follow their store, a fetch spares the edits of
\* its tab, and tabs that are done talking agree, for any tabs, commitments and edits.
THEOREM TabsStayInStep == OffSpec /\ TabSpec => TabsShowTheirStore
BY StoreIsShown, TabsAgree, PTL DEF TabsShowTheirStore

-----------------------------------------------------------------------------
(***************************************************************************)
(* The page that looks an account up, for any accounts, filters and number *)
(* of pages: what is under way is about the selection, or was aborted.     *)
(***************************************************************************)

InitRun == [address : Addresses, filter : Filters, stage : {"proof", "page", "fallback"},
            aborted : BOOLEAN]

\* The run may still touch the page, and is about what is selected.
IsCurrent(r) == r.address = activeAddress /\ r.filter = statusFilter

DashInv ==
    /\ activeAddress \in Addresses /\ statusFilter \in Filters
    /\ inits \subseteq InitRun
    /\ \A r \in inits : IsCurrent(r) \/ (r.stage = "fallback" /\ r.aborted)
    /\ more # None => IsCurrent(more)
    /\ loadMore.address = activeAddress /\ loadMore.filter = statusFilter

LEMMA FirstPage == DashInit => DashInv
BY DashboardAssumption DEF DashInit, DashInv, InitRun, IsCurrent, Run

\* What the callback of the observer has captured is about the selection.
LEMMA CapturedIsCurrent ==
    ASSUME NEW loading, loadMore' = Captured(loading)
    PROVE  loadMore'.address = activeAddress' /\ loadMore'.filter = statusFilter'
<1> DEFINE fresh == [page |-> page', hasMore |-> hasMore', isLoading |-> loading,
                     address |-> activeAddress', filter |-> statusFilter']
<1>1. CASE loadMore' = fresh BY <1>1
<1>2. CASE loadMore' = [fresh EXCEPT !.isLoading = loadMore.isLoading] BY <1>2
<1> QED BY <1>1, <1>2 DEF Captured

\* The effect of the selection leaves only runs about the new one, and aborted ones.
LEMMA EffectIsCurrent ==
    ASSUME inits \subseteq InitRun, activeAddress' \in Addresses, statusFilter' \in Filters,
           Initialize
    PROVE  /\ inits' \subseteq InitRun
           /\ \A r \in inits' : IsCurrent(r)' \/ (r.stage = "fallback" /\ r.aborted)
<1>1. \A r \in AbortedInits(inits) : r \in InitRun /\ r.stage = "fallback" /\ r.aborted
      BY DEF AbortedInits, InitRun
<1> DEFINE new == Run(activeAddress', statusFilter', "proof", FALSE)
<1>2. new \in InitRun /\ new.address = activeAddress' /\ new.filter = statusFilter'
      BY DEF Run, InitRun
<1> QED BY <1>1, <1>2 DEF Initialize, IsCurrent

LEMMA DashHolds == DashInv /\ [DashNext]_dashVars => DashInv'
<1> SUFFICES ASSUME DashInv, [DashNext]_dashVars PROVE DashInv' OBVIOUS
<1>1. ASSUME NEW a \in Addresses, TriggerAddressChange(a) PROVE DashInv'
      <2>1. /\ activeAddress' = a /\ statusFilter' = statusFilter /\ more' = None
            BY <1>1 DEF TriggerAddressChange, Initialize
      <2>2. loadMore'.address = activeAddress' /\ loadMore'.filter = statusFilter'
            BY <1>1, CapturedIsCurrent DEF TriggerAddressChange
      <2>3. CASE Initialize
            BY <2>1, <2>2, <2>3, EffectIsCurrent DEF DashInv
      <2>4. CASE inits' = AbortedInits(inits)
            <3>1. \A r \in inits' : r \in InitRun /\ r.stage = "fallback" /\ r.aborted
                  BY <2>4 DEF AbortedInits, InitRun, DashInv
            <3> QED BY <2>1, <2>2, <3>1 DEF DashInv
      <2> QED BY <1>1, <2>3, <2>4 DEF TriggerAddressChange
<1>2. ASSUME NEW a \in Addresses, InitialAddressChanges(a) PROVE DashInv'
      <2>1. /\ activeAddress' = a /\ statusFilter' = statusFilter /\ more' = None /\ Initialize
            BY <1>2 DEF InitialAddressChanges, Initialize
      <2>2. loadMore'.address = activeAddress' /\ loadMore'.filter = statusFilter'
            BY <1>2, CapturedIsCurrent DEF InitialAddressChanges
      <2> QED BY <2>1, <2>2, EffectIsCurrent DEF DashInv
<1>3. ASSUME NEW f \in Filters, SetStatusFilter(f) PROVE DashInv'
      <2>1. activeAddress' = activeAddress /\ statusFilter' = f BY <1>3 DEF SetStatusFilter
      <2>2. loadMore'.address = activeAddress' /\ loadMore'.filter = statusFilter'
            BY <1>3, CapturedIsCurrent DEF SetStatusFilter
      <2>3. CASE Initialize
            <3>1. more' = None BY <2>3 DEF Initialize
            <3> QED BY <2>1, <2>2, <2>3, <3>1, EffectIsCurrent DEF DashInv
      <2>4. CASE f = statusFilter /\ UNCHANGED <<inits, more>>
            BY <2>1, <2>2, <2>4 DEF DashInv, IsCurrent
      <2> QED BY <1>3, <2>3, <2>4 DEF SetStatusFilter
<1>4. ASSUME NEW r \in inits,
             \/ ProofVerified(r) \/ ProofRefused(r) \/ FallbackAnswers(r)
             \/ FirstPageAnswers(r) \/ InitFails(r)
      PROVE  DashInv'
      <2>1. activeAddress' = activeAddress /\ statusFilter' = statusFilter /\ more' = more
            BY <1>4 DEF ProofVerified, ProofRefused, FallbackAnswers, FirstPageAnswers, InitFails,
                        Renders
      <2>2. loadMore'.address = activeAddress' /\ loadMore'.filter = statusFilter'
            BY <1>4, CapturedIsCurrent
               DEF ProofVerified, ProofRefused, FallbackAnswers, FirstPageAnswers, InitFails, Renders
      <2>3. \A q \in inits' : q \in InitRun /\ (IsCurrent(q) \/ (q.stage = "fallback" /\ q.aborted))
            <3>1. CASE ProofVerified(r)
                  <4>1. [r EXCEPT !.stage = "page"] \in InitRun /\ IsCurrent([r EXCEPT !.stage = "page"])
                        BY <3>1 DEF ProofVerified, DashInv, InitRun, IsCurrent
                  <4> QED BY <3>1, <4>1 DEF ProofVerified, DashInv
            <3>2. CASE ProofRefused(r)
                  <4>1. [r EXCEPT !.stage = "fallback"] \in InitRun
                        /\ IsCurrent([r EXCEPT !.stage = "fallback"])
                        BY <3>2 DEF ProofRefused, DashInv, InitRun, IsCurrent
                  <4> QED BY <3>2, <4>1 DEF ProofRefused, DashInv
            <3> QED BY <1>4, <3>1, <3>2 DEF FallbackAnswers, FirstPageAnswers, InitFails, DashInv
      <2> QED BY <2>1, <2>2, <2>3 DEF DashInv, IsCurrent
<1>5. CASE ScrollToFoot
      <2>1. IsCurrent(more')
            BY <1>5 DEF ScrollToFoot, DashInv, IsCurrent, ShownRow
      <2> QED BY <1>5, <2>1 DEF ScrollToFoot, DashInv, IsCurrent
<1>6. CASE MoreAnswers
      <2>1. loadMore'.address = activeAddress' /\ loadMore'.filter = statusFilter'
            BY <1>6, CapturedIsCurrent DEF MoreAnswers
      <2> QED BY <1>6, <2>1 DEF MoreAnswers, DashInv, IsCurrent
<1>7. CASE MoreFails
      BY <1>7 DEF MoreFails, DashInv, IsCurrent
<1>8. CASE UNCHANGED dashVars
      BY <1>8 DEF dashVars, DashInv, IsCurrent
<1> QED BY <1>1, <1>2, <1>3, <1>4, <1>5, <1>6, <1>7, <1>8 DEF DashNext

\* A row, or the account of a reputation, that a step adds to the page is of the selection.
LEMMA NewRowsAreCurrent ==
    ASSUME DashInv, [DashNext]_dashVars
    PROVE  /\ \A r \in Range(shownRows') \ Range(shownRows) : IsCurrent(r)'
           /\ reputation' \notin {None, reputation} => reputation'.address = activeAddress'
<1>1. CASE shownRows' \in {shownRows, <<>>} /\ reputation' \in {None, reputation}
      BY <1>1 DEF Range
<1>2. ASSUME NEW r \in inits, ProofVerified(r)
      PROVE  shownRows' = shownRows /\ reputation'.address = activeAddress'
      BY <1>2 DEF ProofVerified, Renders, DashInv, IsCurrent
<1>3. ASSUME NEW r \in inits, FallbackAnswers(r)
      PROVE  shownRows' \in {shownRows, <<>>}
             /\ (reputation' = reputation \/ reputation'.address = activeAddress')
      BY <1>3 DEF FallbackAnswers, Renders, DashInv, IsCurrent
<1>4. ASSUME NEW r \in inits, FirstPageAnswers(r)
      PROVE  /\ reputation' = reputation
             /\ \A q \in Range(shownRows') : IsCurrent(q)'
      BY <1>4 DEF FirstPageAnswers, Renders, DashInv, IsCurrent, ShownRow, Range
<1>5. ASSUME MoreAnswers
      PROVE  /\ reputation' = reputation
             /\ \A q \in Range(shownRows') \ Range(shownRows) : IsCurrent(q)'
      BY <1>5 DEF MoreAnswers, DashInv, IsCurrent, Range
<1> QED
  <2>1. Range(<<>>) = {} BY DEF Range
  <2>2. CASE \E r \in inits : ProofVerified(r) \/ FallbackAnswers(r) \/ FirstPageAnswers(r)
        BY <1>2, <1>3, <1>4, <2>1, <2>2
  <2>3. CASE MoreAnswers BY <1>5, <2>3
  <2>4. CASE /\ ~MoreAnswers
             /\ ~\E r \in inits : ProofVerified(r) \/ FallbackAnswers(r) \/ FirstPageAnswers(r)
        <3>1. shownRows' \in {shownRows, <<>>} /\ reputation' \in {None, reputation}
              BY <2>4 DEF DashNext, dashVars, TriggerAddressChange, InitialAddressChanges,
                          SetStatusFilter, ProofRefused, InitFails, ScrollToFoot, MoreFails
        <3> QED BY <1>1, <3>1
  <2> QED BY <2>2, <2>3, <2>4

\* An answer to a question the reader has left behind never reaches the page: whatever a
\* step adds to the list or shows as the reputation is of the selected account and filter,
\* for any accounts, filters, pages and order of the answers (ReputationDashboard.tsx).
THEOREM AnswersFitTheSelection == DashSpec => LateAnswersAreDropped
<1>1. DashInv /\ [DashNext]_dashVars =>
          [/\ \A r \in Range(shownRows') \ Range(shownRows) :
                  r.address = activeAddress' /\ r.filter = statusFilter'
           /\ reputation' \notin {None, reputation} => reputation'.address = activeAddress']_dashVars
      BY NewRowsAreCurrent DEF IsCurrent
<1> QED BY <1>1, FirstPage, DashHolds, PTL DEF DashSpec, LateAnswersAreDropped
-----------------------------------------------------------------------------
(***************************************************************************)
(* Calls of the contract, for any pool of nodes and any submissions.       *)
(***************************************************************************)

\* What is known of a submission, and of its transaction t: until it is sent, or was sent
\* without an answer, the network does not know it; and one that was refused was never
\* sent otherwise.
IsCall(c, t) ==
    /\ DOMAIN c = DOMAIN NoCall
    /\ c.result # None => c.at = "done"
    /\ ~ c.unheard /\ (\/ c.at \in {"idle", "account", "simulate", "sign", "send"}
                       \/ c.result \in {"error", "refused", "cancelled"})
           => t = "unknown"

CallsInv ==
    /\ call = [s \in Submissions |-> call[s]] /\ tx = [s \in Submissions |-> tx[s]]
    /\ \A s \in Submissions : IsCall(call[s], tx[s])

\* One submission moves, and the network learns of no other.
LEMMA CallMoves ==
    ASSUME CallsInv, NEW s \in Submissions, NEW c, NEW t,
           call' = [call EXCEPT ![s] = c], tx' = [tx EXCEPT ![s] = t], IsCall(c, t)
    PROVE  CallsInv'
BY DEF CallsInv

\* Nothing is written over what is there.
LEMMA SameEntries ==
    ASSUME CallsInv, NEW s \in Submissions
    PROVE  call = [call EXCEPT ![s] = call[s]] /\ tx = [tx EXCEPT ![s] = tx[s]]
<1>1. ASSUME NEW f, f = [r \in Submissions |-> f[r]] PROVE f = [f EXCEPT ![s] = f[s]]
      BY <1>1
<1> QED BY <1>1 DEF CallsInv

LEMMA AsksNodes ==
    ASSUME CallsInv, NEW s \in Submissions, NEW c, NEW t, Requests(s, c), IsCall(c, t),
           tx' = [tx EXCEPT ![s] = t]
    PROVE  CallsInv'
<1>1. PICK r : call' = [call EXCEPT ![s] = [c EXCEPT !.nodes = r]] BY DEF Requests
<1> DEFINE d == [c EXCEPT !.nodes = r]
<1>2. DOMAIN d = DOMAIN c /\ d.result = c.result /\ d.at = c.at /\ d.unheard = c.unheard
      BY DEF IsCall, NoCall
<1> HIDE DEF d
<1>3. IsCall(d, t) BY <1>2 DEF IsCall
<1>4. call' = [call EXCEPT ![s] = d] BY <1>1 DEF d
<1> QED BY <1>3, <1>4, CallMoves

LEMMA EndsCall ==
    ASSUME CallsInv, NEW s \in Submissions, NEW result, Ends(s, result), UNCHANGED tx,
           tx[s] = "unknown" \/ call[s].unheard \/ result \notin {"error", "refused", "cancelled"}
    PROVE  CallsInv'
<1> DEFINE c == [call[s] EXCEPT !.at = "done", !.result = result, !.nodes = << >>, !.polls = 0]
<1>1. IsCall(call[s], tx[s]) BY DEF CallsInv
<1>2. call' = [call EXCEPT ![s] = c] BY DEF Ends
<1>3. DOMAIN c = DOMAIN NoCall /\ c.at = "done" /\ c.result = result /\ c.unheard = call[s].unheard
      BY <1>1 DEF IsCall, NoCall
<1> HIDE DEF c
<1>4. IsCall(c, tx[s]) BY <1>1, <1>3 DEF IsCall
<1>5. tx' = [tx EXCEPT ![s] = tx[s]] BY SameEntries
<1> QED BY <1>2, <1>4, <1>5, CallMoves

LEMMA CallsStart == CallInit => CallsInv
<1>1. IsCall(NoCall, "unknown") BY DEF IsCall, NoCall
<1> QED BY <1>1 DEF CallInit, CallsInv

LEMMA NodeFailsHolds == ASSUME CallsInv, NEW s \in Submissions, NodeFails(s) PROVE CallsInv'
<1> DEFINE last == Len(call[s].nodes) = 1
           sending == call[s].at = "send"
           c == [call[s] EXCEPT !.nodes = Tail(call[s].nodes), !.unheard = call[s].unheard \/ sending,
                                !.at = IF last THEN "done" ELSE call[s].at,
                                !.polls = IF last THEN 0 ELSE call[s].polls,
                                !.result = IF last THEN "exhausted" ELSE call[s].result]
<1>1. IsCall(call[s], tx[s]) BY DEF CallsInv
<1>2. call' = [call EXCEPT ![s] = c] /\ call[s].at \in {"account", "simulate", "send", "poll"}
      BY DEF NodeFails
<1>3. PICK t : tx' = [tx EXCEPT ![s] = t] /\ (t = tx[s] \/ sending)
      <2>1. CASE UNCHANGED tx
            <3>1. tx' = [tx EXCEPT ![s] = tx[s]] BY <2>1, SameEntries
            <3> QED BY <3>1
      <2>2. CASE sending /\ tx' = [tx EXCEPT ![s] = "queued"] BY <2>2
      <2> QED BY <2>1, <2>2 DEF NodeFails
<1>4. /\ DOMAIN c = DOMAIN NoCall /\ (c.unheard <=> call[s].unheard \/ sending)
      /\ c.at = IF last THEN "done" ELSE call[s].at
      /\ c.result = IF last THEN "exhausted" ELSE call[s].result
      BY <1>1 DEF IsCall, NoCall
<1> HIDE DEF c, last
<1>5. call[s].result = None BY <1>1, <1>2 DEF IsCall
<1>6. IsCall(c, t) BY <1>1, <1>2, <1>3, <1>4, <1>5, CallsAssumption DEF IsCall
<1> QED BY <1>2, <1>3, <1>6, CallMoves

LEMMA CallsHold == CallsInv /\ [CallNext]_callVars => CallsInv'
<1> SUFFICES ASSUME CallsInv, [CallNext]_callVars PROVE CallsInv' OBVIOUS
<1>0. ASSUME NEW s \in Submissions
      PROVE  /\ IsCall(call[s], tx[s]) /\ DOMAIN call[s] = DOMAIN NoCall
             /\ tx = [tx EXCEPT ![s] = tx[s]]
      BY SameEntries DEF CallsInv, IsCall
<1>1. ASSUME NEW s \in Submissions, Begin(s) PROVE CallsInv'
      <2> DEFINE c == [call[s] EXCEPT !.at = "account"]
      <2>1. call[s].at = "idle" /\ Requests(s, c) /\ tx' = tx BY <1>1 DEF Begin
      <2>2. /\ DOMAIN c = DOMAIN NoCall /\ c.unheard = call[s].unheard
            /\ c.result = call[s].result /\ c.at = "account"
            BY <1>0 DEF NoCall
      <2> HIDE DEF c
      <2>3. IsCall(c, tx[s]) BY <1>0, <2>1, <2>2 DEF IsCall
      <2>4. tx' = [tx EXCEPT ![s] = tx[s]] BY <1>0, <2>1
      <2> QED BY <2>1, <2>3, <2>4, AsksNodes
<1>2. ASSUME NEW s \in Submissions, NodeFails(s) PROVE CallsInv' BY <1>2, NodeFailsHolds
<1>3. ASSUME NEW s \in Submissions, TryAgainLater(s) PROVE CallsInv'
      <2>1. tx' = tx /\ call[s].at = "send" BY <1>3 DEF TryAgainLater, Awaits
      <2>2. CASE Ends(s, "exhausted") BY <2>1, <2>2, EndsCall
      <2>3. CASE call' = [call EXCEPT ![s] = [call[s] EXCEPT !.nodes = Tail(call[s].nodes)]]
            <3> DEFINE c == [call[s] EXCEPT !.nodes = Tail(call[s].nodes)]
            <3>1. /\ DOMAIN c = DOMAIN NoCall /\ c.unheard = call[s].unheard
                  /\ c.result = call[s].result /\ c.at = call[s].at
                  BY <1>0 DEF NoCall
            <3>2. call' = [call EXCEPT ![s] = c] BY <2>3
            <3> HIDE DEF c
            <3>3. IsCall(c, tx[s]) BY <1>0, <3>1 DEF IsCall
            <3>4. tx' = [tx EXCEPT ![s] = tx[s]] BY <1>0, <2>1
            <3> QED BY <3>2, <3>3, <3>4, CallMoves
      <2> QED BY <1>3, <2>2, <2>3 DEF TryAgainLater
<1>4. ASSUME NEW s \in Submissions, AccountAnswers(s) PROVE CallsInv'
      <2>1. PICK seq : Requests(s, [call[s] EXCEPT !.at = "simulate", !.seq = seq + 1,
                                                   !.until = callTime + txLifetime])
            BY <1>4 DEF AccountAnswers
      <2>2. call[s].at = "account" /\ tx' = tx BY <1>4 DEF AccountAnswers, Awaits
      <2> DEFINE c == [call[s] EXCEPT !.at = "simulate", !.seq = seq + 1,
                                      !.until = callTime + txLifetime]
      <2>3. /\ DOMAIN c = DOMAIN NoCall /\ c.unheard = call[s].unheard
            /\ c.result = call[s].result /\ c.at = "simulate"
            BY <1>0 DEF NoCall
      <2>4. Requests(s, c) BY <2>1
      <2> HIDE DEF c
      <2>5. IsCall(c, tx[s]) BY <1>0, <2>2, <2>3 DEF IsCall
      <2>6. tx' = [tx EXCEPT ![s] = tx[s]] BY <1>0, <2>2
      <2> QED BY <2>4, <2>5, <2>6, AsksNodes
<1>5. ASSUME NEW s \in Submissions, SimulationAnswers(s) PROVE CallsInv'
      <2>1. call[s].at = "simulate" /\ tx' = tx BY <1>5 DEF SimulationAnswers, Awaits
      <2>2. CASE Ends(s, "refused")
            <3>1. tx[s] = "unknown" \/ call[s].unheard BY <1>0, <2>1 DEF IsCall
            <3> QED BY <2>1, <2>2, <3>1, EndsCall
      <2>3. CASE call' = [call EXCEPT ![s] = [call[s] EXCEPT !.at = "sign", !.nodes = << >>]]
            <3> DEFINE c == [call[s] EXCEPT !.at = "sign", !.nodes = << >>]
            <3>1. /\ DOMAIN c = DOMAIN NoCall /\ c.unheard = call[s].unheard
                  /\ c.result = call[s].result /\ c.at = "sign"
                  BY <1>0 DEF NoCall
            <3>2. call' = [call EXCEPT ![s] = c] BY <2>3
            <3> HIDE DEF c
            <3>3. IsCall(c, tx[s]) BY <1>0, <2>1, <3>1 DEF IsCall
            <3>4. tx' = [tx EXCEPT ![s] = tx[s]] BY <1>0, <2>1
            <3> QED BY <3>2, <3>3, <3>4, CallMoves
      <2> QED BY <1>5, <2>2, <2>3 DEF SimulationAnswers
<1>6. ASSUME NEW s \in Submissions, WalletAnswers(s) PROVE CallsInv'
      <2>1. call[s].at = "sign" /\ tx' = tx BY <1>6 DEF WalletAnswers
      <2>2. CASE Ends(s, "cancelled")
            <3>1. tx[s] = "unknown" \/ call[s].unheard BY <1>0, <2>1 DEF IsCall
            <3> QED BY <2>1, <2>2, <3>1, EndsCall
      <2>3. CASE Requests(s, [call[s] EXCEPT !.at = "send"])
            <3> DEFINE c == [call[s] EXCEPT !.at = "send"]
            <3>1. /\ DOMAIN c = DOMAIN NoCall /\ c.unheard = call[s].unheard
                  /\ c.result = call[s].result /\ c.at = "send"
                  BY <1>0 DEF NoCall
            <3>2. Requests(s, c) BY <2>3
            <3> HIDE DEF c
            <3>3. IsCall(c, tx[s]) BY <1>0, <2>1, <3>1 DEF IsCall
            <3>4. tx' = [tx EXCEPT ![s] = tx[s]] BY <1>0, <2>1
            <3> QED BY <3>2, <3>3, <3>4, AsksNodes
      <2> QED BY <1>6, <2>2, <2>3 DEF WalletAnswers
<1>7. ASSUME NEW s \in Submissions, SendAnswers(s) PROVE CallsInv'
      <2>1. call[s].at = "send" BY <1>7 DEF SendAnswers, Awaits
      <2>2. CASE Ends(s, "error") /\ tx' = tx
            <3>1. tx[s] = "unknown" \/ call[s].unheard BY <1>0, <2>1 DEF IsCall
            <3> QED BY <2>2, <3>1, EndsCall
      <2>3. CASE tx' = [tx EXCEPT ![s] = "queued"] /\ Requests(s, [call[s] EXCEPT !.at = "poll"])
            <3> DEFINE c == [call[s] EXCEPT !.at = "poll"]
            <3>1. /\ DOMAIN c = DOMAIN NoCall /\ c.unheard = call[s].unheard
                  /\ c.result = call[s].result /\ c.at = "poll"
                  BY <1>0 DEF NoCall
            <3>2. Requests(s, c) BY <2>3
            <3> HIDE DEF c
            <3>3. c.result = None BY <1>0, <2>1, <3>1 DEF IsCall
            <3>4. IsCall(c, "queued") BY <3>1, <3>3, CallsAssumption DEF IsCall
            <3> QED BY <2>3, <3>2, <3>4, AsksNodes
      <2> QED BY <1>7, <2>2, <2>3 DEF SendAnswers
<1>8. ASSUME NEW s \in Submissions, PollAnswers(s) PROVE CallsInv'
      <2>1. call[s].at = "poll" /\ tx' = tx BY <1>8 DEF PollAnswers, Awaits
      <2>2. ASSUME NEW result \in {"timed out", "success", "failed"}, Ends(s, result) PROVE CallsInv'
            BY <2>1, <2>2, EndsCall
      <2>3. CASE Requests(s, [call[s] EXCEPT !.polls = @ + 1])
            <3> DEFINE c == [call[s] EXCEPT !.polls = call[s].polls + 1]
            <3>1. /\ DOMAIN c = DOMAIN NoCall /\ c.unheard = call[s].unheard
                  /\ c.result = call[s].result /\ c.at = "poll"
                  BY <1>0, <2>1 DEF NoCall
            <3>2. Requests(s, c) BY <2>3
            <3> HIDE DEF c
            <3>3. c.result = None BY <1>0, <2>1, <3>1 DEF IsCall
            <3>4. IsCall(c, tx[s]) BY <1>0, <3>1, <3>3, CallsAssumption DEF IsCall
            <3>5. tx' = [tx EXCEPT ![s] = tx[s]] BY <1>0, <2>1
            <3> QED BY <3>2, <3>4, <3>5, AsksNodes
      <2> QED BY <1>8, <2>2, <2>3 DEF PollAnswers, PollAgain
<1>9. ASSUME NEW s \in Submissions, LedgerApplies(s) PROVE CallsInv'
      <2>1. tx[s] = "queued" /\ call' = call BY <1>9 DEF LedgerApplies
      <2>2. PICK t : tx' = [tx EXCEPT ![s] = t] BY <1>9 DEF LedgerApplies
      <2>3. IsCall(call[s], t) BY <1>0, <2>1 DEF IsCall
      <2>4. call' = [call EXCEPT ![s] = call[s]] BY <2>1, SameEntries
      <2> QED BY <2>2, <2>3, <2>4, CallMoves
<1>10. CASE CallClock
       <2>1. call' = call /\ tx' = tx BY <1>10 DEF CallClock
       <2> QED BY <2>1 DEF CallsInv
<1>11. CASE UNCHANGED callVars
       <2>1. call' = call /\ tx' = tx BY <1>11 DEF callVars
       <2> QED BY <2>1 DEF CallsInv
<1> QED BY <1>1, <1>2, <1>3, <1>4, <1>5, <1>6, <1>7, <1>8, <1>9, <1>10, <1>11
        DEF CallNext, NodeAnswers

\* A submission that was refused, or that the user called off, has no effect, then or later,
\* for any nodes and submissions: the safety part of SubmissionsAreAnswered.
THEOREM RefusalsHaveNoEffect == CallSpec => []RefusedHasNoEffect
<1>1. CallsInv => RefusedHasNoEffect BY DEF CallsInv, IsCall, RefusedHasNoEffect
<1> QED BY <1>1, CallsStart, CallsHold, PTL DEF CallSpec
=============================================================================
